--------------------------- MODULE RealtimeProofs ---------------------------
(***************************************************************************)
(* For any sockets, servers, drafts and users: the maps of the manager     *)
(* agree at every await, an ended endpoint leaves nothing behind, messages *)
(* go to readers only, and at rest the rooms and their presence are right. *)
(***************************************************************************)
EXTENDS Realtime, FiniteSetTheorems, TLAPS

-----------------------------------------------------------------------------
(* The inductive invariant.                                                *)

Left(q) == {q[i] : i \in DOMAIN q}
Listeners == {Listener(v) : v \in Server}
Own == {"enter", "close", "end"}

\* A coroutine begins with what it awaits now, and a step of an endpoint of its
\* own is its last.
TodoFits(a, q) ==
    \A i \in DOMAIN q :
        /\ q[i].do \in Own => i = Len(q)
        /\ q[i].do \in Own \cup {"write"} => q[i].socket = a
        /\ q[i].do \in {"write", "erase", "send", "evict"} => i = 1

Todos == \A a \in Actor : TodoFits(a, todo[a])

Begins(a, m) == todo[a] # <<>> /\ Head(todo[a]) = m

\* An endpoint that has not begun or is over is in no map, one whose client is
\* there is registered, and only a broadcast forgets the others.
LinksFit ==
    \A s \in Socket :
        /\ link[s] \in {"new", "checked", "done"} =>
              s \notin registered /\ Drafts(s) = {} /\ todo[s] = <<>>
        /\ link[s] = "open" => s \in registered
        /\ ~lost /\ link[s] = "closed" /\ s \notin registered => s \in crossed

\* A message is sent to sockets that were accepted, and those it has failed for
\* are closed; others than the endpoint remove presence of crossed sockets only.
SendFits(a, m) ==
    /\ m.do = "send" => /\ \A s \in m.to : link[s] \in {"open", "closed", "done"}
                        /\ \A s \in m.stale : link[s] \in {"closed", "done"}
    /\ ~lost /\ m.do = "erase" /\ m.socket # a => m.socket \in crossed

Sends == \A a \in Actor, m \in Step : Begins(a, m) => SendFits(a, m)

\* The entries in Redis are those of the rooms, but for the one the endpoint of
\* the socket is about to write or to remove.
PresenceFit(s) ==
    \A d \in Draft :
        /\ Begins(s, WriteOf(s, d)) => s \in room[d]
        /\ Begins(s, EraseOf(s, d)) => s \notin room[d]
        /\ ~Begins(s, WriteOf(s, d)) /\ ~Begins(s, EraseOf(s, d)) =>
              (<<d, s>> \in shared <=> s \in room[d])

PresenceFits == ~lost => \A s \in Socket \ crossed : PresenceFit(s)

\* The step m of a will take s out of the room of d, unless it may read d.
Tells(a, m, s, d) ==
    \/ /\ m.do \in {"broadcast", "write", "erase"} /\ m.draft = d
       /\ ServerOf(a) = Home[s] \/ a \notin Listeners
    \/ /\ m.do = "send" /\ m.draft = d
       /\ IF ServerOf(a) = Home[s] THEN s \in m.to \cup m.stale ELSE a \notin Listeners
    \/ m.do = "end" /\ m.socket = s

Due(s, d) == d \in queue[Home[s]] \/ \E a \in Actor : \E m \in Left(todo[a]) : Tells(a, m, s, d)

\* Whoever is in a room and may not read its draft is about to leave it.
RoomsDue ==
    ~lost => \A d \in Draft : \A s \in room[d] : UserOf[s] \in access[d] \/ Due(s, d)

\* What a check has found stays so until another socket is accepted.
ChecksFit ==
    /\ IsFiniteSet(registered)
    /\ \A s \in Socket : link[s] = "checked" /\ s \notin overtaken => CanConnect(s)

IInv == /\ ServerTypeOK /\ MapsAgree /\ Todos /\ LinksFit /\ Sends
        /\ PresenceFits /\ RoomsDue /\ ChecksFit

-----------------------------------------------------------------------------
(* What a coroutine has to do.                                             *)

LEMMA StepKinds ==
  ASSUME NEW m \in Step
  PROVE  /\ m.do \in {"enter", "write", "erase", "broadcast", "send", "evict", "remove", "close", "end"}
         /\ m.do \in {"enter", "write", "erase"} =>
               /\ m.socket \in Socket /\ m.draft \in Draft
               /\ m = [do |-> m.do, socket |-> m.socket, draft |-> m.draft]
         /\ m.do \in {"broadcast", "send", "evict", "remove"} => m.draft \in Draft
         /\ m.do = "send" => m.to \in SUBSET Socket /\ m.stale \in SUBSET Socket
         /\ m.do = "evict" => m.user \in User
         /\ m.do = "remove" => m.to \in SUBSET Socket
         /\ m.do \in {"close", "end"} => m.socket \in Socket /\ m = [do |-> m.do, socket |-> m.socket]
  BY DEF Step

\* The steps the model makes.
LEMMA MadeSteps ==
  ASSUME NEW s \in Socket, NEW d \in Draft
  PROVE  /\ WriteOf(s, d) \in Step
         /\ WriteOf(s, d).do = "write" /\ WriteOf(s, d).socket = s /\ WriteOf(s, d).draft = d
         /\ EraseOf(s, d) \in Step
         /\ EraseOf(s, d).do = "erase" /\ EraseOf(s, d).socket = s /\ EraseOf(s, d).draft = d
         /\ Enter(s, d) \in Step
         /\ Enter(s, d).do = "enter" /\ Enter(s, d).socket = s /\ Enter(s, d).draft = d
         /\ Broadcast(d) \in Step /\ Broadcast(d).do = "broadcast" /\ Broadcast(d).draft = d
         /\ Close(s) \in Step /\ Close(s).do = "close" /\ Close(s).socket = s
         /\ EndOf(s) \in Step /\ EndOf(s).do = "end" /\ EndOf(s).socket = s
  BY DEF Step, WriteOf, EraseOf, Enter, Broadcast, Close, EndOf

LEMMA MadeSends ==
  ASSUME NEW d \in Draft, NEW to \in SUBSET Socket, NEW stale \in SUBSET Socket
  PROVE  /\ Send(d, to, stale) \in Step /\ Send(d, to, stale).do = "send"
         /\ Send(d, to, stale).draft = d
         /\ Send(d, to, stale).to = to /\ Send(d, to, stale).stale = stale
  BY DEF Step, Send

LEMMA MadeRemovals ==
  ASSUME NEW d \in Draft, NEW to \in SUBSET Socket
  PROVE  /\ Remove(d, to) \in Step /\ Remove(d, to).do = "remove"
         /\ Remove(d, to).draft = d /\ Remove(d, to).to = to
  BY DEF Step, Remove

LEMMA MadeEvictions ==
  ASSUME NEW d \in Draft, NEW u \in User
  PROVE  Evict(u, d) \in Step /\ Evict(u, d).do = "evict" /\ Evict(u, d).draft = d
  BY DEF Step, Evict

\* What may follow the step a coroutine is at.
RestFits(a, q) ==
    /\ q \in Seq(Step)
    /\ \A i \in DOMAIN q :
          /\ q[i].do \in Own \cup {"remove", "broadcast"}
          /\ q[i].do \in Own => i = Len(q) /\ q[i].socket = a

LEMMA NoRest ==
  ASSUME NEW a
  PROVE  RestFits(a, <<>>) /\ TodoFits(a, <<>>) /\ Left(<<>>) = {}
  BY DEF RestFits, TodoFits, Left

LEMMA RestIs ==
  ASSUME NEW a, NEW q \in Seq(Step), TodoFits(a, q), q # <<>>
  PROVE  /\ Head(q) \in Step /\ Head(q) \in Left(q)
         /\ RestFits(a, Tail(q))
         /\ Left(q) = {Head(q)} \cup Left(Tail(q))
         /\ Head(q).do \in Own => Tail(q) = <<>>
         /\ Head(q).do \in Own \cup {"write"} => Head(q).socket = a
<1>1. Len(q) \in Nat \ {0} /\ Head(q) = q[1] /\ q[1] \in Step /\ 1 \in DOMAIN q
  OBVIOUS
<1>2. /\ Tail(q) \in Seq(Step) /\ Len(Tail(q)) = Len(q) - 1
      /\ \A i \in DOMAIN Tail(q) : i + 1 \in DOMAIN q /\ Tail(q)[i] = q[i + 1]
  OBVIOUS
<1>3. \A i \in DOMAIN q \ {1} : i - 1 \in DOMAIN Tail(q) /\ Tail(q)[i - 1] = q[i]
  OBVIOUS
<1>4. RestFits(a, Tail(q))
  <2> SUFFICES ASSUME NEW i \in DOMAIN Tail(q)
               PROVE  /\ Tail(q)[i].do \in Own \cup {"remove", "broadcast"}
                      /\ Tail(q)[i].do \in Own => i = Len(Tail(q)) /\ Tail(q)[i].socket = a
    BY <1>2 DEF RestFits
  <2>1. i \in Nat /\ i + 1 # 1 /\ i + 1 \in DOMAIN q /\ Tail(q)[i] = q[i + 1] /\ q[i + 1] \in Step
    BY <1>2
  <2>2. q[i + 1].do \notin {"write", "erase", "send", "evict"}
    BY <2>1 DEF TodoFits
  <2>3. q[i + 1].do \in Own => i + 1 = Len(q) /\ q[i + 1].socket = a
    BY <2>1 DEF TodoFits
  <2>4. q[i + 1].do \in Own \cup {"remove", "broadcast"}
    BY <2>1, <2>2, StepKinds DEF Own
  <2>5. i + 1 = Len(q) => i = Len(Tail(q))
    <3>1. Len(Tail(q)) \in Nat /\ Len(q) \in Nat /\ Len(Tail(q)) = Len(q) - 1 /\ i \in Nat
      BY <1>1, <1>2, <2>1
    <3> DEFINE l == Len(Tail(q))  k == Len(q)
    <3>2. l \in Nat /\ k \in Nat /\ l = k - 1 /\ i \in Nat
      BY <3>1
    <3> HIDE DEF l, k
    <3>3. i + 1 = k => i = l
      BY <3>2
    <3> QED BY <3>3 DEF l, k
  <2> QED BY <2>1, <2>3, <2>4, <2>5
<1>5. Left(q) = {Head(q)} \cup Left(Tail(q))
  <2>1. ASSUME NEW i \in DOMAIN q
        PROVE  q[i] \in {Head(q)} \cup Left(Tail(q))
    <3>1. CASE i = 1
      BY <1>1, <3>1
    <3>2. CASE i # 1
      BY <1>3, <3>2 DEF Left
    <3> QED BY <3>1, <3>2
  <2>2. \A i \in DOMAIN Tail(q) : Tail(q)[i] \in Left(q)
    BY <1>2 DEF Left
  <2>3. Head(q) \in Left(q)
    BY <1>1 DEF Left
  <2>4. Left(q) \subseteq {Head(q)} \cup Left(Tail(q))
    BY <2>1 DEF Left
  <2>5. Left(Tail(q)) \subseteq Left(q)
    BY <2>2 DEF Left
  <2> QED BY <2>3, <2>4, <2>5
<1>6. Head(q).do \in Own => Len(q) = 1
  BY <1>1 DEF TodoFits
<1>7. Len(q) = 1 => Tail(q) = <<>>
  BY <1>2
<1>8. Head(q).do \in Own \cup {"write"} => Head(q).socket = a
  BY <1>1 DEF TodoFits
<1> QED BY <1>1, <1>4, <1>5, <1>6, <1>7, <1>8

\* A step before the rest.
LEMMA Pushed ==
  ASSUME NEW a, NEW r, RestFits(a, r), NEW m \in Step,
         m.do \in Own => r = <<>>, m.do \in Own \cup {"write"} => m.socket = a
  PROVE  /\ <<m>> \o r \in Seq(Step) /\ <<m>> \o r # <<>>
         /\ Head(<<m>> \o r) = m
         /\ TodoFits(a, <<m>> \o r)
         /\ Left(<<m>> \o r) = {m} \cup Left(r)
         /\ m.do \in {"remove", "broadcast"} \cup Own => RestFits(a, <<m>> \o r)
<1> DEFINE q == <<m>> \o r
<1>1. r \in Seq(Step)
  BY DEF RestFits
<1>2. /\ q \in Seq(Step) /\ q # <<>> /\ Len(q) = Len(r) + 1 /\ q[1] = m /\ Head(q) = m
      /\ \A i \in DOMAIN r : i + 1 \in DOMAIN q /\ q[i + 1] = r[i]
      /\ \A i \in DOMAIN q \ {1} : i - 1 \in DOMAIN r /\ q[i] = r[i - 1]
  BY <1>1
<1>3. 1 \in DOMAIN q /\ DOMAIN q \subseteq Nat /\ DOMAIN r \subseteq Nat /\ Len(r) \in Nat
  BY <1>1, <1>2
<1> HIDE DEF q
<1>4. Left(q) = {m} \cup Left(r)
  <2>1. ASSUME NEW i \in DOMAIN q
        PROVE  q[i] \in {m} \cup Left(r)
    <3>1. CASE i = 1
      BY <1>2, <3>1
    <3>2. CASE i # 1
      BY <1>2, <3>2 DEF Left
    <3> QED BY <3>1, <3>2
  <2>2. m \in Left(q) /\ \A i \in DOMAIN r : r[i] \in Left(q)
    BY <1>2, <1>3 DEF Left
  <2>3. Left(q) \subseteq {m} \cup Left(r)
    BY <2>1 DEF Left
  <2>4. Left(r) \subseteq Left(q)
    BY <2>2 DEF Left
  <2> QED BY <2>2, <2>3, <2>4
<1>5. m.do \in Own => Len(q) = 1
  BY <1>2
<1>6. \A i \in DOMAIN q \ {1} : /\ q[i].do \in Own \cup {"remove", "broadcast"}
                                /\ q[i].do \in Own => i = Len(q) /\ q[i].socket = a
  <2> SUFFICES ASSUME NEW i \in DOMAIN q \ {1}
               PROVE  /\ q[i].do \in Own \cup {"remove", "broadcast"}
                      /\ q[i].do \in Own => i = Len(q) /\ q[i].socket = a
    OBVIOUS
  <2>1. i - 1 \in DOMAIN r /\ q[i] = r[i - 1] /\ i \in Nat
    BY <1>2, <1>3
  <2>2. /\ r[i - 1].do \in Own \cup {"remove", "broadcast"}
        /\ r[i - 1].do \in Own => i - 1 = Len(r) /\ r[i - 1].socket = a
    BY <2>1 DEF RestFits
  <2> QED BY <1>2, <1>3, <2>1, <2>2
<1>7. TodoFits(a, q)
  <2> SUFFICES ASSUME NEW i \in DOMAIN q
               PROVE  /\ q[i].do \in Own => i = Len(q)
                      /\ q[i].do \in Own \cup {"write"} => q[i].socket = a
                      /\ q[i].do \in {"write", "erase", "send", "evict"} => i = 1
    BY DEF TodoFits
  <2>1. CASE i = 1
    BY <1>2, <1>5, <2>1
  <2>2. CASE i # 1
    BY <1>6, <2>2 DEF Own
  <2> QED BY <2>1, <2>2
<1>8. m.do \in {"remove", "broadcast"} \cup Own => RestFits(a, q)
  BY <1>2, <1>5, <1>6 DEF RestFits
<1> QED BY <1>2, <1>4, <1>7, <1>8 DEF q

LEMMA Alone ==
  ASSUME NEW a, NEW m \in Step, m.do \in Own \cup {"write"} => m.socket = a
  PROVE  /\ <<m>> \in Seq(Step) /\ <<m>> # <<>>
         /\ Head(<<m>>) = m
         /\ TodoFits(a, <<m>>)
         /\ Left(<<m>>) = {m}
         /\ m.do \in {"remove", "broadcast"} \cup Own => RestFits(a, <<m>>)
<1>1. <<m>> \o <<>> = <<m>>
  OBVIOUS
<1>2. RestFits(a, <<>>) /\ Left(<<>>) = {}
  BY NoRest
<1>3. /\ <<m>> \o <<>> \in Seq(Step) /\ <<m>> \o <<>> # <<>>
      /\ Head(<<m>> \o <<>>) = m
      /\ TodoFits(a, <<m>> \o <<>>)
      /\ Left(<<m>> \o <<>>) = {m} \cup Left(<<>>)
      /\ m.do \in {"remove", "broadcast"} \cup Own => RestFits(a, <<m>> \o <<>>)
  BY <1>2, Pushed
<1>4. Left(<<m>>) = {m}
  BY ONLY <1>1, <1>2, <1>3
<1> QED BY <1>1, <1>3, <1>4

\* The rest becomes what the coroutine awaits.
LEMMA RestFitsTodo ==
  ASSUME NEW a, NEW r, RestFits(a, r)
  PROVE  /\ r \in Seq(Step) /\ TodoFits(a, r)
         /\ r # <<>> => Head(r).do \in Own \cup {"remove", "broadcast"} /\ Head(r) \in Left(r)
         /\ \A m \in Left(r) : m.do \in Own \cup {"remove", "broadcast"}
<1>1. r \in Seq(Step)
  BY DEF RestFits
<1>2. TodoFits(a, r)
  BY DEF RestFits, TodoFits, Own
<1>3. r # <<>> => 1 \in DOMAIN r /\ Head(r) = r[1]
  BY <1>1
<1> QED BY <1>1, <1>2, <1>3 DEF RestFits, Left

LEMMA GotoIs ==
  ASSUME todo \in [Actor -> Seq(Step)], NEW a \in Actor, NEW q \in Seq(Step), Goto(a, q)
  PROVE  /\ todo' \in [Actor -> Seq(Step)]
         /\ todo'[a] = q
         /\ \A b \in Actor \ {a} : todo'[b] = todo[b]
  BY DEF Goto

-----------------------------------------------------------------------------
(* The maps.                                                               *)

LEMMA DraftsIs ==
  ASSUME socketDrafts \in [Socket -> (SUBSET Draft) \cup {None}], NEW s \in Socket
  PROVE  /\ Drafts(s) \in SUBSET Draft
         /\ socketDrafts[s] \in SUBSET Draft => Drafts(s) = socketDrafts[s]
  BY NoneAssumption DEF Drafts

LEMMA LeavingMaps ==
  ASSUME ServerTypeOK, MapsAgree, NEW a \in Actor, NEW s \in Socket, NEW d \in Draft, NEW rest,
         Leaving(a, s, d, rest)
  PROVE  /\ room' \in [Draft -> SUBSET Socket]
         /\ socketDrafts' \in [Socket -> (SUBSET Draft) \cup {None}]
         /\ presence' \subseteq Draft \X Socket
         /\ MapsAgree'
         /\ Drafts(s)' \subseteq Drafts(s) /\ \A t \in Socket \ {s} : Drafts(t)' = Drafts(t)
         /\ \A e \in Draft, t \in Socket : t \in room'[e] <=> t \in room[e] /\ ~ (t = s /\ e = d)
<1>1. /\ room \in [Draft -> SUBSET Socket] /\ presence \subseteq Draft \X Socket
      /\ socketDrafts \in [Socket -> (SUBSET Draft) \cup {None}] /\ registered \subseteq Socket
  BY DEF ServerTypeOK
<1>2. /\ room' = [room EXCEPT ![d] = @ \ {s}]
      /\ socketDrafts' = [socketDrafts EXCEPT ![s] = Drafts(s) \ {d}]
      /\ presence' = presence \ (IF s \in registered THEN {<<d, s>>} ELSE {})
      /\ registered' = registered
  BY DEF Leaving
<1>3. Drafts(s) \in SUBSET Draft
  BY <1>1, DraftsIs
<1>4. room' \in [Draft -> SUBSET Socket] /\ presence' \subseteq Draft \X Socket
  BY <1>1, <1>2
<1>5. socketDrafts' \in [Socket -> (SUBSET Draft) \cup {None}]
  BY <1>1, <1>2, <1>3
<1>6. \A e \in Draft, t \in Socket : t \in room'[e] <=> t \in room[e] /\ ~ (t = s /\ e = d)
  BY <1>1, <1>2
<1>7. Drafts(s)' = Drafts(s) \ {d}
  BY <1>1, <1>2, <1>3, NoneAssumption DEF Drafts
<1>8. \A t \in Socket \ {s} : Drafts(t)' = Drafts(t)
  BY <1>1, <1>2 DEF Drafts
<1>9. MapsAgree'
  <2>1. ASSUME NEW e \in Draft, NEW t \in Socket
        PROVE  t \in room'[e] <=> e \in Drafts(t)'
    <3>1. t \in room[e] <=> e \in Drafts(t)
      BY DEF MapsAgree
    <3> QED BY <1>6, <1>7, <1>8, <3>1
  <2>2. ASSUME NEW p \in presence'
        PROVE  p[2] \in room'[p[1]] \cap registered'
    <3>1. p \in presence /\ p[1] \in Draft /\ p[2] \in Socket /\ p = <<p[1], p[2]>>
      BY <1>1, <1>2
    <3>2. p[2] \in room[p[1]] /\ p[2] \in registered
      BY <3>1 DEF MapsAgree
    <3>3. ~ (p[2] = s /\ p[1] = d)
      BY <1>2, <3>1, <3>2
    <3> QED BY <1>2, <1>6, <3>1, <3>2, <3>3
  <2> QED BY <2>1, <2>2 DEF MapsAgree
<1> QED BY <1>4, <1>5, <1>6, <1>7, <1>8, <1>9

\* Adding presence of a socket in the room.
LEMMA AddsPresence ==
  ASSUME ServerTypeOK, MapsAgree, NEW s \in Socket, NEW d \in Draft,
         UNCHANGED registered, s \in registered \/ presence' = presence,
         presence' \in {presence, presence \cup {<<d, s>>}},
         \A e \in Draft, t \in Socket : t \in room'[e] <=> t \in room[e] \/ (t = s /\ e = d)
  PROVE  presence' \subseteq Draft \X Socket /\ \A p \in presence' : p[2] \in room'[p[1]] \cap registered'
<1>1. presence \subseteq Draft \X Socket
  BY DEF ServerTypeOK
<1>2. presence' \subseteq Draft \X Socket
  BY <1>1
<1>3. ASSUME NEW p \in presence'
      PROVE  p[2] \in room'[p[1]] \cap registered'
  <2>1. p[1] \in Draft /\ p[2] \in Socket /\ p = <<p[1], p[2]>>
    BY <1>2
  <2>2. CASE p \in presence
    BY <2>1, <2>2 DEF MapsAgree
  <2>3. CASE p \notin presence
    <3>1. p = <<d, s>> /\ s \in registered
      BY <2>3
    <3> QED BY <2>1, <3>1
  <2> QED BY <2>2, <2>3
<1> QED BY <1>2, <1>3

LEMMA EnteringMaps ==
  ASSUME ServerTypeOK, MapsAgree, NEW s \in Socket, NEW d \in Draft, Entering(s, d)
  PROVE  /\ room' \in [Draft -> SUBSET Socket]
         /\ socketDrafts' \in [Socket -> (SUBSET Draft) \cup {None}]
         /\ presence' \subseteq Draft \X Socket
         /\ MapsAgree'
         /\ \A t \in Socket \ {s} : Drafts(t)' = Drafts(t)
         /\ \A e \in Draft, t \in Socket : t \in room'[e] <=> t \in room[e] \/ (t = s /\ e = d)
<1>1. /\ room \in [Draft -> SUBSET Socket]
      /\ socketDrafts \in [Socket -> (SUBSET Draft) \cup {None}]
  BY DEF ServerTypeOK
<1>2. /\ room' = [room EXCEPT ![d] = @ \cup {s}]
      /\ socketDrafts' = [socketDrafts EXCEPT ![s] = Drafts(s) \cup {d}]
      /\ presence' = presence \cup (IF s \in registered THEN {<<d, s>>} ELSE {})
      /\ registered' = registered
  BY DEF Entering
<1>3. Drafts(s) \in SUBSET Draft
  BY <1>1, DraftsIs
<1>4. room' \in [Draft -> SUBSET Socket]
  BY <1>1, <1>2
<1>5. socketDrafts' \in [Socket -> (SUBSET Draft) \cup {None}]
  BY <1>1, <1>2, <1>3
<1>6. \A e \in Draft, t \in Socket : t \in room'[e] <=> t \in room[e] \/ (t = s /\ e = d)
  BY <1>1, <1>2
<1>7. Drafts(s)' = Drafts(s) \cup {d}
  BY <1>1, <1>2, <1>3, NoneAssumption DEF Drafts
<1>8. \A t \in Socket \ {s} : Drafts(t)' = Drafts(t)
  BY <1>1, <1>2 DEF Drafts
<1>9. ASSUME NEW e \in Draft, NEW t \in Socket
      PROVE  t \in room'[e] <=> e \in Drafts(t)'
  <2>1. t \in room[e] <=> e \in Drafts(t)
    BY DEF MapsAgree
  <2> QED BY <1>6, <1>7, <1>8, <2>1
<1>10. presence' \subseteq Draft \X Socket /\ \A p \in presence' : p[2] \in room'[p[1]] \cap registered'
  <2>1. presence' \in {presence, presence \cup {<<d, s>>}} /\ (s \in registered \/ presence' = presence)
    BY <1>2
  <2> QED BY <1>2, <1>6, <2>1, AddsPresence
<1>11. MapsAgree'
  BY <1>9, <1>10 DEF MapsAgree
<1> QED BY <1>4, <1>5, <1>6, <1>8, <1>10, <1>11

LEMMA DisconnectMaps ==
  ASSUME ServerTypeOK, MapsAgree, NEW gone \in SUBSET Socket, Disconnect(gone)
  PROVE  /\ room' \in [Draft -> SUBSET Socket]
         /\ socketDrafts' \in [Socket -> (SUBSET Draft) \cup {None}]
         /\ presence' \subseteq Draft \X Socket
         /\ MapsAgree'
         /\ \A t \in gone : Drafts(t)' = {}
         /\ \A t \in Socket \ gone : Drafts(t)' = Drafts(t)
         /\ \A e \in Draft, t \in Socket : t \in room'[e] <=> t \in room[e] /\ t \notin gone
<1>1. /\ room \in [Draft -> SUBSET Socket] /\ presence \subseteq Draft \X Socket
      /\ socketDrafts \in [Socket -> (SUBSET Draft) \cup {None}] /\ registered \subseteq Socket
  BY DEF ServerTypeOK
<1>2. /\ registered' = registered \ gone
      /\ room' = [d \in Draft |-> room[d] \ {s \in gone : d \in Drafts(s)}]
      /\ socketDrafts' = [s \in Socket |-> IF s \in gone THEN None ELSE socketDrafts[s]]
      /\ presence' = presence \ (Draft \X (gone \cap registered))
  BY DEF Disconnect
<1>3. room' \in [Draft -> SUBSET Socket] /\ presence' \subseteq Draft \X Socket
  BY <1>1, <1>2
<1>4. socketDrafts' \in [Socket -> (SUBSET Draft) \cup {None}]
  BY <1>1, <1>2
<1>5. ASSUME NEW e \in Draft, NEW t \in Socket
      PROVE  t \in room'[e] <=> t \in room[e] /\ t \notin gone
  <2>1. t \in room'[e] <=> t \in room[e] /\ ~ (t \in gone /\ e \in Drafts(t))
    BY <1>1, <1>2
  <2>2. t \in room[e] <=> e \in Drafts(t)
    BY DEF MapsAgree
  <2> QED BY <2>1, <2>2
<1>6. /\ \A t \in gone : Drafts(t)' = {}
      /\ \A t \in Socket \ gone : Drafts(t)' = Drafts(t)
  BY <1>1, <1>2 DEF Drafts
<1>7. MapsAgree'
  <2>1. ASSUME NEW e \in Draft, NEW t \in Socket
        PROVE  t \in room'[e] <=> e \in Drafts(t)'
    <3>1. t \in room[e] <=> e \in Drafts(t)
      BY DEF MapsAgree
    <3> QED BY <1>5, <1>6, <3>1
  <2>2. ASSUME NEW p \in presence'
        PROVE  p[2] \in room'[p[1]] \cap registered'
    <3>1. p \in presence /\ p[1] \in Draft /\ p[2] \in Socket /\ p = <<p[1], p[2]>>
      BY <1>1, <1>2
    <3>2. p[2] \in room[p[1]] /\ p[2] \in registered
      BY <3>1 DEF MapsAgree
    <3>3. p[2] \notin gone
      BY <1>2, <3>1, <3>2
    <3> QED BY <1>2, <1>5, <3>1, <3>2, <3>3
  <2> QED BY <2>1, <2>2 DEF MapsAgree
<1> QED BY <1>3, <1>4, <1>5, <1>6, <1>7

-----------------------------------------------------------------------------
(* What a step of one coroutine leaves alone.                              *)

LEMMA KeepIs ==
  ASSUME ServerTypeOK, NEW entries \in SUBSET (Draft \X Socket), NEW gone \in SUBSET Socket,
         \A t \in crossed : entries \cap (Draft \X {t}) = {},
         lost' \in BOOLEAN, Keep(entries, gone)
  PROVE  /\ shared' \subseteq Draft \X Socket /\ crossed' \subseteq Socket
         /\ lost' => shared' = {} /\ crossed' = {}
         /\ \A t \in crossed' : shared' \cap (Draft \X {t}) = {}
         /\ ~ lost' => crossed' = crossed \cup gone
         /\ ~ lost' => \A t \in Socket \ gone, e \in Draft : <<e, t>> \in shared' <=> <<e, t>> \in entries
<1>1. crossed \subseteq Socket
  BY DEF ServerTypeOK
<1>2. CASE lost'
  BY <1>2 DEF Keep
<1>3. CASE ~ lost'
  <2>1. shared' = entries \ (Draft \X gone) /\ crossed' = crossed \cup gone
    BY <1>3 DEF Keep
  <2>2. ASSUME NEW t \in crossed' PROVE shared' \cap (Draft \X {t}) = {}
    BY <2>1
  <2>3. \A t \in Socket \ gone, e \in Draft : <<e, t>> \in shared' <=> <<e, t>> \in entries
    BY <2>1
  <2> QED BY <1>1, <1>3, <2>1, <2>2, <2>3
<1> QED BY <1>2, <1>3

\* Only a moves.
Moves(a) ==
    /\ todo' \in [Actor -> Seq(Step)]
    /\ \A b \in Actor \ {a} : todo'[b] = todo[b]

LEMMA TodosKept ==
  ASSUME Todos, NEW a \in Actor, Moves(a), TodoFits(a, todo'[a])
  PROVE  Todos'
  BY DEF Moves, Todos, TodoFits

\* A connection goes forward.
Onward ==
    \A t \in Socket : /\ link[t] \in {"open", "closed", "done"} => link'[t] \in {"open", "closed", "done"}
                      /\ link[t] \in {"closed", "done"} => link'[t] \in {"closed", "done"}

LEMMA SendKept ==
  ASSUME NEW b \in Actor, NEW m \in Step, SendFits(b, m), Onward, ~ lost' => ~ lost /\ crossed \subseteq crossed'
  PROVE  SendFits(b, m)'
<1>1. m.do = "send" => m.to \in SUBSET Socket /\ m.stale \in SUBSET Socket
  BY StepKinds
<1>2. ASSUME m.do = "send"
      PROVE  /\ \A s \in m.to : link'[s] \in {"open", "closed", "done"}
             /\ \A s \in m.stale : link'[s] \in {"closed", "done"}
  BY <1>1, <1>2 DEF SendFits, Onward
<1>3. ~ lost' /\ m.do = "erase" /\ m.socket # b => m.socket \in crossed'
  BY DEF SendFits
<1> QED BY <1>2, <1>3 DEF SendFits

LEMMA SendsKept ==
  ASSUME ServerTypeOK, Sends, NEW a \in Actor, Moves(a), Onward, ~ lost' => ~ lost /\ crossed \subseteq crossed',
         \A m \in Step : Begins(a, m)' => SendFits(a, m)'
  PROVE  Sends'
<1> SUFFICES ASSUME NEW b \in Actor, NEW m \in Step, Begins(b, m)'
             PROVE  SendFits(b, m)'
  BY DEF Sends
<1>1. CASE b = a
  BY <1>1
<1>2. CASE b # a
  <2>1. Begins(b, m)
    BY <1>2 DEF Moves, Begins
  <2>2. SendFits(b, m)
    BY <2>1 DEF Sends
  <2> QED BY <2>2, SendKept
<1> QED BY <1>1, <1>2

LEMMA RoomsKept ==
  ASSUME RoomsDue, NEW a \in Actor, Moves(a), access' = access, ~ lost' => ~ lost,
         room' \in [Draft -> SUBSET Socket], queue \in [Server -> SUBSET Draft],
         \A v \in Server : queue[v] \subseteq queue'[v],
         \A d \in Draft, t \in Socket : t \in room'[d] /\ UserOf[t] \notin access[d] /\ ~ lost' =>
             /\ t \in room[d] \/ Due(t, d)'
             /\ \A m \in Left(todo[a]) : Tells(a, m, t, d) => Due(t, d)'
  PROVE  RoomsDue'
<1> SUFFICES ASSUME NEW d \in Draft, NEW t \in room'[d], UserOf[t] \notin access[d], ~ lost', ~ Due(t, d)'
             PROVE  FALSE
  BY DEF RoomsDue
<1>1. t \in Socket /\ t \in room[d] /\ \A m \in Left(todo[a]) : ~ Tells(a, m, t, d)
  OBVIOUS
<1>2. Due(t, d)
  BY <1>1 DEF RoomsDue
<1>3. Home[t] \in Server
  BY <1>1, HomeAssumption
<1>4. d \notin queue[Home[t]]
  BY <1>3 DEF Due
<1>5. PICK b \in Actor : \E m \in Left(todo[b]) : Tells(b, m, t, d)
  BY <1>2, <1>4 DEF Due
<1>6. PICK m \in Left(todo[b]) : Tells(b, m, t, d)
  BY <1>5
<1>7. b # a
  BY <1>1, <1>6
<1>8. m \in Left(todo'[b])
  BY <1>6, <1>7 DEF Moves
<1>9. Due(t, d)'
  BY <1>6, <1>8 DEF Due, Tells
<1> QED BY <1>9

LEMMA DueFrom ==
  ASSUME NEW a \in Actor, NEW t, NEW d, NEW m \in Left(todo'[a]), Tells(a, m, t, d)
  PROVE  Due(t, d)'
  BY DEF Due, Tells

LEMMA PresencesKept ==
  ASSUME PresenceFits, NEW a \in Actor, Moves(a), ~ lost' => ~ lost /\ crossed \subseteq crossed',
         ~ lost' => \A d \in Draft, t \in Socket \ crossed' :
            t # a => /\ t \in room'[d] <=> t \in room[d]
                     /\ <<d, t>> \in shared' <=> <<d, t>> \in shared,
         a \in Socket \ crossed' /\ ~ lost' => PresenceFit(a)'
  PROVE  PresenceFits'
<1> SUFFICES ASSUME ~ lost', NEW t \in Socket \ crossed'
             PROVE  PresenceFit(t)'
  BY DEF PresenceFits, PresenceFit
<1>1. CASE t = a
  BY <1>1
<1>2. CASE t # a
  <2>1. t \in Actor /\ todo'[t] = todo[t]
    BY <1>2 DEF Moves, Actor
  <2>2. PresenceFit(t)
    BY DEF PresenceFits, PresenceFit
  <2>3. \A m : Begins(t, m)' <=> Begins(t, m)
    BY <2>1 DEF Begins
  <2> SUFFICES ASSUME NEW d \in Draft
               PROVE  /\ Begins(t, WriteOf(t, d))' => t \in room'[d]
                      /\ Begins(t, EraseOf(t, d))' => t \notin room'[d]
                      /\ ~ Begins(t, WriteOf(t, d))' /\ ~ Begins(t, EraseOf(t, d))' =>
                            (<<d, t>> \in shared' <=> t \in room'[d])
    BY DEF PresenceFit
  <2>4. /\ Begins(t, WriteOf(t, d))' <=> Begins(t, WriteOf(t, d))
        /\ Begins(t, EraseOf(t, d))' <=> Begins(t, EraseOf(t, d))
    BY <2>1 DEF Begins, WriteOf, EraseOf
  <2>5. (t \in room'[d] <=> t \in room[d]) /\ (<<d, t>> \in shared' <=> <<d, t>> \in shared)
    BY <1>2
  <2> QED BY <2>2, <2>4, <2>5 DEF PresenceFit
<1> QED BY <1>1, <1>2

\* Two steps that are not one.
LEMMA OtherHead ==
  ASSUME NEW t \in Socket, todo[t] = <<>> \/ Head(todo[t]).do \notin {"write", "erase"}
  PROVE  \A d \in Draft : ~ Begins(t, WriteOf(t, d)) /\ ~ Begins(t, EraseOf(t, d))
  BY DEF Begins, WriteOf, EraseOf

LEMMA ChecksKept ==
  ASSUME ChecksFit, registered' \subseteq registered,
         \A s \in Socket : link'[s] = "checked" /\ s \notin overtaken' =>
                              link[s] = "checked" /\ s \notin overtaken
  PROVE  ChecksFit'
<1>1. IsFiniteSet(registered) /\ IsFiniteSet(registered')
  BY FS_Subset DEF ChecksFit
<1> SUFFICES ASSUME NEW s \in Socket, link'[s] = "checked", s \notin overtaken'
             PROVE  CanConnect(s)'
  BY <1>1 DEF ChecksFit
<1>2. Cardinality(Connections(s)) < Limit
  BY DEF ChecksFit, CanConnect
<1>3. Connections(s)' \subseteq Connections(s) /\ Connections(s) \subseteq registered
  BY DEF Connections
<1>4. IsFiniteSet(Connections(s)) /\ IsFiniteSet(Connections(s)')
  BY <1>1, <1>3, FS_Subset
<1>5. PICK k : k = Cardinality(Connections(s))
  OBVIOUS
<1>6. PICK l : l = Cardinality(Connections(s)')
  OBVIOUS
<1>7. k \in Nat /\ l \in Nat /\ l <= k
  BY <1>3, <1>4, <1>5, <1>6, FS_Subset, FS_CardinalityType
<1>8. l < Limit
  BY <1>2, <1>5, <1>7, LimitAssumption
<1> QED BY <1>6, <1>8 DEF CanConnect

-----------------------------------------------------------------------------
(* unsubscribe_draft, by the endpoint of the socket or by an eviction.      *)

LEMMA LeavingStep ==
  ASSUME IInv, NEW a \in Actor, NEW s \in Socket, NEW d \in Draft, NEW rest,
         RestFits(a, rest), Leaving(a, s, d, rest), UNCHANGED <<world, queue, lost, overtaken>>,
         a \in Socket => link[a] \in {"open", "closed"},
         \A m \in Left(todo[a]) : m.do \in {"evict", "remove"} \/ m \in Left(rest),
         (a = s /\ UNCHANGED <<shared, crossed>>) \/ Keep(shared, {s})
  PROVE  IInv'
<1>1. ServerTypeOK /\ MapsAgree /\ Todos /\ LinksFit /\ Sends /\ PresenceFits /\ RoomsDue /\ ChecksFit
  BY DEF IInv
<1>2. PICK m : m = IF s \in registered THEN EraseOf(s, d) ELSE Broadcast(d)
  OBVIOUS
<1>3. /\ m \in Step /\ m.do \in {"erase", "broadcast"} /\ m.draft = d
      /\ m.do = "erase" => m = EraseOf(s, d) /\ m.socket = s
      /\ s \in registered => m.do = "erase"
  BY <1>2, MadeSteps
<1>4. PICK q : q = <<m>> \o rest
  OBVIOUS
<1>5. q \in Seq(Step) /\ q # <<>> /\ Head(q) = m /\ TodoFits(a, q) /\ Left(q) = {m} \cup Left(rest)
  <2>1. m.do \notin Own /\ m.do \notin Own \cup {"write"}
    BY <1>3 DEF Own
  <2>2. m \in Step /\ RestFits(a, rest)
    BY <1>3
  <2>3. (m.do \in Own => rest = <<>>) /\ (m.do \in Own \cup {"write"} => m.socket = a)
    BY <2>1
  <2>4. /\ <<m>> \o rest \in Seq(Step) /\ <<m>> \o rest # <<>>
        /\ Head(<<m>> \o rest) = m
        /\ TodoFits(a, <<m>> \o rest)
        /\ Left(<<m>> \o rest) = {m} \cup Left(rest)
    BY ONLY <2>2, <2>3, Pushed
  <2> QED BY <1>4, <2>4
<1>6. Moves(a) /\ todo'[a] = q
  <2>1. Goto(a, q)
    BY <1>2, <1>4 DEF Leaving
  <2> QED BY <1>1, <1>5, <2>1, GotoIs DEF ServerTypeOK, Moves
<1>7. /\ room' \in [Draft -> SUBSET Socket]
      /\ socketDrafts' \in [Socket -> (SUBSET Draft) \cup {None}]
      /\ presence' \subseteq Draft \X Socket
      /\ MapsAgree'
      /\ Drafts(s)' \subseteq Drafts(s) /\ \A t \in Socket \ {s} : Drafts(t)' = Drafts(t)
      /\ \A e \in Draft, t \in Socket : t \in room'[e] <=> t \in room[e] /\ ~ (t = s /\ e = d)
  BY <1>1, LeavingMaps
<1>8. link' = link /\ registered' = registered
  BY DEF Leaving
<1>9. /\ access' = access /\ live' = live /\ changes' = changes
      /\ queue' = queue /\ lost' = lost /\ overtaken' = overtaken
  BY DEF world
<1>10. /\ shared' \subseteq Draft \X Socket /\ crossed' \subseteq Socket
       /\ lost' => shared' = {} /\ crossed' = {}
       /\ \A t \in crossed' : shared' \cap (Draft \X {t}) = {}
       /\ ~ lost' => crossed \subseteq crossed' /\ (a # s => s \in crossed')
       /\ ~ lost' => \A t \in Socket \ crossed', e \in Draft : <<e, t>> \in shared' <=> <<e, t>> \in shared
  <2>1. /\ shared \subseteq Draft \X Socket /\ crossed \subseteq Socket /\ lost \in BOOLEAN
        /\ lost => shared = {} /\ crossed = {}
        /\ \A t \in crossed : shared \cap (Draft \X {t}) = {}
    BY <1>1 DEF ServerTypeOK
  <2>2. CASE a = s /\ UNCHANGED <<shared, crossed>>
    BY <1>9, <2>1, <2>2
  <2>3. CASE Keep(shared, {s})
    <3>1. {s} \in SUBSET Socket /\ lost' \in BOOLEAN
      BY <1>9, <2>1
    <3>2. /\ shared' \subseteq Draft \X Socket /\ crossed' \subseteq Socket
          /\ lost' => shared' = {} /\ crossed' = {}
          /\ \A t \in crossed' : shared' \cap (Draft \X {t}) = {}
          /\ ~ lost' => crossed' = crossed \cup {s}
          /\ ~ lost' => \A t \in Socket \ {s}, e \in Draft : <<e, t>> \in shared' <=> <<e, t>> \in shared
      BY <1>1, <2>1, <2>3, <3>1, KeepIs
    <3> QED BY <3>2
  <2> QED BY <2>2, <2>3
<1>11. ServerTypeOK'
  BY <1>1, <1>6, <1>7, <1>8, <1>9, <1>10 DEF ServerTypeOK, Moves
<1>12. Todos'
  BY <1>1, <1>5, <1>6, TodosKept
<1>13. LinksFit'
  <2> SUFFICES ASSUME NEW t \in Socket
               PROVE  /\ link[t] \in {"new", "checked", "done"} =>
                            t \notin registered /\ Drafts(t)' = {} /\ todo'[t] = <<>>
                      /\ link[t] = "open" => t \in registered
                      /\ ~ lost' /\ link[t] = "closed" /\ t \notin registered => t \in crossed'
    BY <1>8 DEF LinksFit
  <2>1. link[t] \in {"new", "checked", "done"} => t # a /\ todo[t] = <<>> /\ Drafts(t) = {} /\ t \notin registered
    BY <1>1 DEF LinksFit
  <2>2. t # a => todo'[t] = todo[t]
    BY <1>6 DEF Moves, Actor
  <2>3. Drafts(t) = {} => Drafts(t)' = {}
    BY <1>7
  <2> QED BY <1>1, <1>9, <1>10, <2>1, <2>2, <2>3 DEF LinksFit
<1>14. Sends'
  <2>1. Onward
    BY <1>8 DEF Onward
  <2>2. ASSUME NEW n \in Step, Begins(a, n)'
        PROVE  SendFits(a, n)'
    <3>1. n = m
      BY <1>5, <1>6, <2>2 DEF Begins
    <3> QED BY <1>3, <1>10, <3>1 DEF SendFits
  <2> QED BY <1>1, <1>6, <1>9, <1>10, <2>1, <2>2, SendsKept
<1>15. PresenceFits'
  <2>1. ASSUME ~ lost', NEW t \in Socket \ crossed', NEW e \in Draft, t # a
        PROVE  /\ t \in room'[e] <=> t \in room[e]
               /\ <<e, t>> \in shared' <=> <<e, t>> \in shared
    BY <1>7, <1>10, <2>1
  <2>2. ASSUME a \in Socket \ crossed', ~ lost'
        PROVE  PresenceFit(a)'
    <3>1. PresenceFit(a) /\ a \notin crossed /\ ~ lost
      BY <1>1, <1>9, <1>10, <2>2 DEF PresenceFits
    <3>2. todo[a] = <<>> \/ Head(todo[a]).do \notin {"write", "erase"}
      <4> SUFFICES ASSUME todo[a] # <<>> PROVE Head(todo[a]).do \notin {"write", "erase"}
        OBVIOUS
      <4>1. Head(todo[a]) \in Left(todo[a])
        BY <1>1, RestIs DEF ServerTypeOK, Todos
      <4>2. Head(todo[a]).do \in {"evict", "remove"} \/ Head(todo[a]) \in Left(rest)
        BY <4>1
      <4> QED BY <4>2, RestFitsTodo DEF Own
    <3>3. \A e \in Draft : <<e, a>> \in shared <=> a \in room[e]
      BY <2>2, <3>1, <3>2, OtherHead DEF PresenceFit
    <3>4. \A e \in Draft : <<e, a>> \in shared' <=> <<e, a>> \in shared
      BY <1>10, <2>2
    <3>5. a = s => m = EraseOf(s, d)
      <4>1. a = s => a \in registered
        BY <1>1, <2>2, <3>1 DEF LinksFit
      <4> QED BY <1>3, <4>1
    <3> SUFFICES ASSUME NEW e \in Draft
                 PROVE  /\ ~ Begins(a, WriteOf(a, e))'
                        /\ Begins(a, EraseOf(a, e))' => a \notin room'[e]
                        /\ ~ Begins(a, EraseOf(a, e))' => (<<e, a>> \in shared' <=> a \in room'[e])
      BY DEF PresenceFit
    <3>6. Begins(a, EraseOf(a, e))' <=> m = EraseOf(a, e)
      BY <1>5, <1>6 DEF Begins, EraseOf
    <3>7. ~ Begins(a, WriteOf(a, e))'
      BY <1>3, <1>5, <1>6 DEF Begins, WriteOf
    <3>8. CASE a = s
      <4>1. m = EraseOf(a, e) <=> e = d
        BY <3>5, <3>8 DEF EraseOf
      <4> QED BY <1>7, <3>3, <3>4, <3>6, <3>7, <3>8, <4>1
    <3>9. CASE a # s
      <4>1. m # EraseOf(a, e)
        BY <1>3, <3>9 DEF EraseOf
      <4>2. a \in room'[e] <=> a \in room[e]
        BY <1>7, <2>2, <3>9
      <4> QED BY <3>3, <3>4, <3>6, <3>7, <4>1, <4>2
    <3> QED BY <3>8, <3>9
  <2> QED BY <1>1, <1>6, <1>9, <1>10, <2>1, <2>2, PresencesKept
<1>16. RoomsDue'
  <2>1. ASSUME NEW e \in Draft, NEW t \in Socket, t \in room'[e], UserOf[t] \notin access[e], ~ lost'
        PROVE  /\ t \in room[e] \/ Due(t, e)'
               /\ \A n \in Left(todo[a]) : Tells(a, n, t, e) => Due(t, e)'
    <3>1. t \in room[e]
      BY <1>7, <2>1
    <3>2. ASSUME NEW n \in Left(todo[a]), Tells(a, n, t, e)
          PROVE  Due(t, e)'
      <4>1. n.do \notin {"evict", "remove"}
        BY <3>2 DEF Tells
      <4>2. n \in Left(todo'[a])
        BY <1>5, <1>6, <4>1
      <4> QED BY <3>2, <4>2, DueFrom
    <3> QED BY <3>1, <3>2
  <2>2. queue \in [Server -> SUBSET Draft] /\ \A v \in Server : queue[v] \subseteq queue'[v]
    BY <1>1, <1>9 DEF ServerTypeOK
  <2> QED BY <1>1, <1>6, <1>7, <1>9, <2>1, <2>2, RoomsKept
<1>17. ChecksFit'
  BY <1>1, <1>8, <1>9, ChecksKept
<1> QED BY <1>7, <1>11, <1>12, <1>13, <1>14, <1>15, <1>16, <1>17 DEF IInv

-----------------------------------------------------------------------------
(* subscribe_draft, once no other draft is left.                           *)

LEMMA EnteringStep ==
  ASSUME IInv, NEW s \in Socket, NEW d \in Draft, Entering(s, d),
         UNCHANGED <<world, redis, overtaken, crossed>>,
         link[s] \in {"open", "closed"}, \A m \in Left(todo[s]) : m.do = "enter"
  PROVE  IInv'
<1>1. ServerTypeOK /\ MapsAgree /\ Todos /\ LinksFit /\ Sends /\ PresenceFits /\ RoomsDue /\ ChecksFit
  BY DEF IInv
<1>2. PICK m : m = IF s \in registered THEN WriteOf(s, d) ELSE EndOf(s)
  OBVIOUS
<1>3. /\ m \in Step /\ m.do \in {"write", "end"} /\ m.socket = s
      /\ m.do = "write" => m = WriteOf(s, d) /\ m.draft = d
      /\ s \in registered <=> m.do = "write"
  BY <1>2, MadeSteps
<1>4. s \in Actor
  BY DEF Actor
<1>5. <<m>> \in Seq(Step) /\ <<m>> # <<>> /\ Head(<<m>>) = m /\ TodoFits(s, <<m>>) /\ Left(<<m>>) = {m}
  BY <1>3, Alone
<1>6. Moves(s) /\ todo'[s] = <<m>>
  <2>1. Goto(s, <<m>>)
    BY <1>2 DEF Entering
  <2> QED BY <1>1, <1>4, <1>5, <2>1, GotoIs DEF ServerTypeOK, Moves
<1>7. /\ room' \in [Draft -> SUBSET Socket]
      /\ socketDrafts' \in [Socket -> (SUBSET Draft) \cup {None}]
      /\ presence' \subseteq Draft \X Socket
      /\ MapsAgree'
      /\ \A t \in Socket \ {s} : Drafts(t)' = Drafts(t)
      /\ \A e \in Draft, t \in Socket : t \in room'[e] <=> t \in room[e] \/ (t = s /\ e = d)
  BY <1>1, EnteringMaps
<1>8. link' = link /\ registered' = registered
  BY DEF Entering
<1>9. /\ access' = access /\ live' = live /\ changes' = changes
      /\ queue' = queue /\ lost' = lost /\ overtaken' = overtaken
      /\ shared' = shared /\ crossed' = crossed
  BY DEF world, redis
<1>10. ServerTypeOK'
  BY <1>1, <1>6, <1>7, <1>8, <1>9 DEF ServerTypeOK, Moves
<1>11. Todos'
  BY <1>1, <1>4, <1>5, <1>6, TodosKept
<1>12. LinksFit'
  <2> SUFFICES ASSUME NEW t \in Socket
               PROVE  /\ link[t] \in {"new", "checked", "done"} =>
                            t \notin registered /\ Drafts(t)' = {} /\ todo'[t] = <<>>
                      /\ link[t] = "open" => t \in registered
                      /\ ~ lost /\ link[t] = "closed" /\ t \notin registered => t \in crossed
    BY <1>8, <1>9 DEF LinksFit
  <2>1. link[t] \in {"new", "checked", "done"} => t # s /\ todo[t] = <<>> /\ Drafts(t) = {} /\ t \notin registered
    BY <1>1 DEF LinksFit
  <2>2. t # s => todo'[t] = todo[t] /\ Drafts(t)' = Drafts(t)
    BY <1>6, <1>7 DEF Moves, Actor
  <2> QED BY <1>1, <2>1, <2>2 DEF LinksFit
<1>13. Sends'
  <2>1. Onward
    BY <1>8 DEF Onward
  <2>2. ASSUME NEW n \in Step, Begins(s, n)'
        PROVE  SendFits(s, n)'
    <3>1. n = m
      BY <1>5, <1>6, <2>2 DEF Begins
    <3> QED BY <1>3, <3>1 DEF SendFits
  <2> QED BY <1>1, <1>4, <1>6, <1>9, <2>1, <2>2, SendsKept
<1>14. PresenceFits'
  <2>1. ASSUME s \notin crossed, ~ lost
        PROVE  PresenceFit(s)'
    <3>1. PresenceFit(s)
      BY <1>1, <2>1 DEF PresenceFits
    <3>2. todo[s] = <<>> \/ Head(todo[s]).do \notin {"write", "erase"}
      <4> SUFFICES ASSUME todo[s] # <<>> PROVE Head(todo[s]).do \notin {"write", "erase"}
        OBVIOUS
      <4>1. Head(todo[s]) \in Left(todo[s])
        BY <1>1, <1>4, RestIs DEF ServerTypeOK, Todos
      <4> QED BY <4>1
    <3>3. \A e \in Draft : <<e, s>> \in shared <=> s \in room[e]
      BY <3>1, <3>2, OtherHead DEF PresenceFit
    <3>4. m = WriteOf(s, d)
      BY <1>1, <1>3, <2>1 DEF LinksFit
    <3> SUFFICES ASSUME NEW e \in Draft
                 PROVE  /\ Begins(s, WriteOf(s, e))' => s \in room'[e]
                        /\ ~ Begins(s, EraseOf(s, e))'
                        /\ ~ Begins(s, WriteOf(s, e))' => (<<e, s>> \in shared <=> s \in room'[e])
      BY <1>9 DEF PresenceFit
    <3>5. Begins(s, WriteOf(s, e))' <=> e = d
      BY <1>5, <1>6, <3>4 DEF Begins, WriteOf
    <3>6. ~ Begins(s, EraseOf(s, e))'
      BY <1>5, <1>6, <3>4 DEF Begins, WriteOf, EraseOf
    <3> QED BY <1>7, <3>3, <3>5, <3>6
  <2>2. \A e \in Draft, t \in Socket : t # s => (t \in room'[e] <=> t \in room[e])
    BY <1>7
  <2> QED BY <1>1, <1>4, <1>6, <1>9, <2>1, <2>2, PresencesKept
<1>15. RoomsDue'
  <2>1. ASSUME NEW e \in Draft, NEW t \in Socket, t \in room'[e], UserOf[t] \notin access[e], ~ lost'
        PROVE  /\ t \in room[e] \/ Due(t, e)'
               /\ \A n \in Left(todo[s]) : Tells(s, n, t, e) => Due(t, e)'
    <3>1. CASE t = s /\ e = d
      <4>1. Tells(s, m, t, e)
        BY <1>3, <3>1 DEF Tells, ServerOf
      <4>2. m \in Left(todo'[s])
        BY <1>5, <1>6
      <4>3. Due(t, e)'
        BY <1>4, <4>1, <4>2, DueFrom
      <4> QED BY <4>3
    <3>2. CASE ~ (t = s /\ e = d)
      BY <1>7, <2>1, <3>2 DEF Tells
    <3> QED BY <3>1, <3>2
  <2>2. queue \in [Server -> SUBSET Draft] /\ \A v \in Server : queue[v] \subseteq queue'[v]
    BY <1>1, <1>9 DEF ServerTypeOK
  <2> QED BY <1>1, <1>4, <1>6, <1>7, <1>9, <2>1, <2>2, RoomsKept
<1>16. ChecksFit'
  BY <1>1, <1>8, <1>9, ChecksKept
<1> QED BY <1>7, <1>10, <1>11, <1>12, <1>13, <1>14, <1>15, <1>16 DEF IInv

-----------------------------------------------------------------------------
(* The finally of the endpoint.                                            *)

LEMMA EndingStep ==
  ASSUME IInv, NEW s \in Socket, Ending(s), UNCHANGED <<world, redis, overtaken, crossed>>,
         link[s] \in {"open", "closed"}, \A m \in Left(todo[s]) : m = EndOf(s)
  PROVE  IInv'
<1>1. ServerTypeOK /\ MapsAgree /\ Todos /\ LinksFit /\ Sends /\ PresenceFits /\ RoomsDue /\ ChecksFit
  BY DEF IInv
<1>2. s \in Actor
  BY DEF Actor
<1>3. CASE \E d \in Drafts(s) : Leaving(s, s, d, <<EndOf(s)>>)
  <2>1. PICK d \in Drafts(s) : Leaving(s, s, d, <<EndOf(s)>>)
    BY <1>3
  <2>2. d \in Draft
    BY <1>1, DraftsIs DEF ServerTypeOK
  <2>3. EndOf(s) \in Step /\ EndOf(s).do = "end" /\ EndOf(s).socket = s
    BY DEF Step, EndOf
  <2>4. RestFits(s, <<EndOf(s)>>) /\ Left(<<EndOf(s)>>) = {EndOf(s)}
    BY <2>3, Alone DEF Own
  <2>5. UNCHANGED <<world, queue, lost, overtaken>> /\ UNCHANGED <<shared, crossed>>
    BY DEF redis
  <2>6. \A m \in Left(todo[s]) : m.do \in {"evict", "remove"} \/ m \in Left(<<EndOf(s)>>)
    BY <2>4
  <2> QED BY <1>2, <2>1, <2>2, <2>4, <2>5, <2>6, LeavingStep
<1>4. CASE Drafts(s) = {} /\ Disconnect({s}) /\ link' = [link EXCEPT ![s] = "done"] /\ Goto(s, <<>>)
  <2>1. Moves(s) /\ todo'[s] = <<>>
    <3>1. <<>> \in Seq(Step) /\ todo \in [Actor -> Seq(Step)] /\ Goto(s, <<>>)
      BY <1>1, <1>4 DEF ServerTypeOK
    <3> QED BY <1>2, <3>1, GotoIs DEF Moves
  <2>2. /\ room' \in [Draft -> SUBSET Socket]
        /\ socketDrafts' \in [Socket -> (SUBSET Draft) \cup {None}]
        /\ presence' \subseteq Draft \X Socket
        /\ MapsAgree'
        /\ Drafts(s)' = {}
        /\ \A t \in Socket \ {s} : Drafts(t)' = Drafts(t)
        /\ \A e \in Draft, t \in Socket : t \in room'[e] <=> t \in room[e] /\ t # s
    BY <1>1, <1>4, DisconnectMaps
  <2>3. \A e \in Draft : s \notin room[e]
    BY <1>1, <1>4 DEF MapsAgree
  <2>4. registered' = registered \ {s} /\ link' = [link EXCEPT ![s] = "done"]
    BY <1>4 DEF Disconnect
  <2>5. /\ access' = access /\ live' = live /\ changes' = changes
        /\ queue' = queue /\ lost' = lost /\ overtaken' = overtaken
        /\ shared' = shared /\ crossed' = crossed
    BY DEF world, redis
  <2>6. /\ link \in [Socket -> {"new", "checked", "open", "closed", "done"}]
        /\ link'[s] = "done" /\ \A t \in Socket \ {s} : link'[t] = link[t]
    BY <1>1, <2>4 DEF ServerTypeOK
  <2>7. ServerTypeOK'
    <3>1. /\ link' \in [Socket -> {"new", "checked", "open", "closed", "done"}]
          /\ registered' \subseteq {t \in Socket : link'[t] \in {"open", "closed"}}
          /\ overtaken' \subseteq {t \in Socket : link'[t] = "checked"}
      BY <1>1, <2>4, <2>5, <2>6 DEF ServerTypeOK
    <3> QED BY <1>1, <2>1, <2>2, <2>5, <3>1 DEF ServerTypeOK, Moves
  <2>8. Todos'
    BY <1>1, <1>2, <2>1, NoRest, TodosKept
  <2>9. LinksFit'
    <3> SUFFICES ASSUME NEW t \in Socket
                 PROVE  /\ link'[t] \in {"new", "checked", "done"} =>
                              t \notin registered' /\ Drafts(t)' = {} /\ todo'[t] = <<>>
                        /\ link'[t] = "open" => t \in registered'
                        /\ ~ lost /\ link'[t] = "closed" /\ t \notin registered' => t \in crossed
      BY <2>5 DEF LinksFit
    <3>1. CASE t = s
      BY <2>1, <2>2, <2>4, <2>6, <3>1
    <3>2. CASE t # s
      <4>1. /\ todo'[t] = todo[t] /\ Drafts(t)' = Drafts(t) /\ link'[t] = link[t]
            /\ t \in registered' <=> t \in registered
        BY <2>1, <2>2, <2>4, <2>6, <3>2 DEF Moves, Actor
      <4> QED BY <1>1, <4>1 DEF LinksFit
    <3> QED BY <3>1, <3>2
  <2>10. Sends'
    <3>1. Onward
      BY <2>6 DEF Onward
    <3>2. \A n \in Step : ~ Begins(s, n)'
      BY <2>1 DEF Begins
    <3> QED BY <1>1, <1>2, <2>1, <2>5, <3>1, <3>2, SendsKept
  <2>11. PresenceFits'
    <3>1. ASSUME s \notin crossed, ~ lost
          PROVE  PresenceFit(s)'
      <4>1. PresenceFit(s)
        BY <1>1, <3>1 DEF PresenceFits
      <4>2. todo[s] = <<>> \/ Head(todo[s]).do \notin {"write", "erase"}
        <5> SUFFICES ASSUME todo[s] # <<>> PROVE Head(todo[s]).do \notin {"write", "erase"}
          OBVIOUS
        <5>1. Head(todo[s]) \in Left(todo[s])
          BY <1>1, <1>2, RestIs DEF ServerTypeOK, Todos
        <5> QED BY <5>1 DEF EndOf
      <4>3. \A e \in Draft : <<e, s>> \in shared <=> s \in room[e]
        BY <4>1, <4>2, OtherHead DEF PresenceFit
      <4>4. \A e \in Draft : ~ Begins(s, WriteOf(s, e))' /\ ~ Begins(s, EraseOf(s, e))'
        BY <2>1 DEF Begins
      <4>5. \A e \in Draft : <<e, s>> \in shared' <=> s \in room'[e]
        BY <2>2, <2>3, <2>5, <4>3
      <4> QED BY <4>4, <4>5 DEF PresenceFit
    <3>2. \A e \in Draft, t \in Socket : t # s => (t \in room'[e] <=> t \in room[e])
      BY <2>2
    <3> QED BY <1>1, <1>2, <2>1, <2>5, <3>1, <3>2, PresencesKept
  <2>12. RoomsDue'
    <3>1. ASSUME NEW e \in Draft, NEW t \in Socket, t \in room'[e], UserOf[t] \notin access[e], ~ lost'
          PROVE  /\ t \in room[e] \/ Due(t, e)'
                 /\ \A n \in Left(todo[s]) : Tells(s, n, t, e) => Due(t, e)'
      <4>1. t \in room[e] /\ t # s
        BY <2>2, <3>1
      <4>2. ~ Tells(s, EndOf(s), t, e)
        BY <4>1 DEF Tells, EndOf
      <4> QED BY <4>1, <4>2
    <3>2. queue \in [Server -> SUBSET Draft] /\ \A v \in Server : queue[v] \subseteq queue'[v]
      BY <1>1, <2>5 DEF ServerTypeOK
    <3> QED BY <1>1, <1>2, <2>1, <2>2, <2>5, <3>1, <3>2, RoomsKept
  <2>13. ChecksFit'
    <3>1. \A t \in Socket : link'[t] = "checked" => link[t] = "checked"
      BY <2>6
    <3> QED BY <1>1, <2>4, <2>5, <3>1, ChecksKept
  <2> QED BY <2>2, <2>7, <2>8, <2>9, <2>10, <2>11, <2>12, <2>13 DEF IInv
<1> QED BY <1>3, <1>4 DEF Ending

-----------------------------------------------------------------------------
(* _local_send.                                                            *)

\* What the coroutine a is about to do for those who are not in rest, it does with
\* this message: the sockets of its server are recipients, and it will publish.
Tasks(a, d, to, stale, rest) ==
    \A e \in Draft : \A t \in room[e] : \A n \in Left(todo[a]) :
        Tells(a, n, t, e) => \/ n \in Left(rest)
                             \/ /\ e = d
                                /\ IF ServerOf(a) = Home[t] THEN t \in to \cup stale ELSE a \notin Listeners

\* The entries, once the command that a waited for has taken effect.
EntriesFit(a, entries) ==
    /\ entries \subseteq Draft \X Socket
    /\ \A t \in crossed : entries \cap (Draft \X {t}) = {}
    /\ ~ lost => \A t \in Socket \ crossed, e \in Draft :
                    /\ t # a => (<<e, t>> \in entries <=> <<e, t>> \in shared)
                    /\ t = a => (<<e, t>> \in entries <=> t \in room[e])

LEMMA SendOneStep ==
  ASSUME IInv, NEW a \in Actor, NEW d \in Draft, NEW to \in SUBSET Socket, NEW stale \in SUBSET Socket,
         NEW rest, RestFits(a, rest), a \in Socket => link[a] \in {"open", "closed"},
         \A t \in to : link[t] \in {"open", "closed", "done"}, \A t \in stale : link[t] \in {"closed", "done"},
         NEW entries, EntriesFit(a, entries), Tasks(a, d, to, stale, rest),
         NEW s \in to, NEW sent \in BOOLEAN, sent => link[s] = "open" /\ Authorized(s, d),
         Goto(a, <<Send(d, to \ {s}, IF sent THEN stale ELSE stale \cup {s})>> \o rest),
         link' = [link EXCEPT ![s] = IF sent \/ @ # "open" THEN @ ELSE "closed"],
         UNCHANGED <<maps, queue, lost>>, Keep(entries, {}), UNCHANGED <<world, overtaken>>
  PROVE  IInv'
<1>1. ServerTypeOK /\ MapsAgree /\ Todos /\ LinksFit /\ Sends /\ PresenceFits /\ RoomsDue /\ ChecksFit
  BY DEF IInv
<1>2. PICK left : left = IF sent THEN stale ELSE stale \cup {s}
  OBVIOUS
<1>3. left \in SUBSET Socket /\ s \in Socket
  BY <1>2
<1>4. PICK m : m = Send(d, to \ {s}, left)
  OBVIOUS
<1>5. m \in Step /\ m.do = "send" /\ m.draft = d /\ m.to = to \ {s} /\ m.stale = left
  <2>1. PICK others : others = to \ {s}
    OBVIOUS
  <2>2. others \in SUBSET Socket
    BY <2>1
  <2>3. /\ Send(d, others, left) \in Step /\ Send(d, others, left).do = "send"
        /\ Send(d, others, left).draft = d
        /\ Send(d, others, left).to = others /\ Send(d, others, left).stale = left
    BY ONLY d \in Draft, <1>3, <2>2, MadeSends
  <2> QED BY <1>4, <2>1, <2>3
<1>6. PICK q : q = <<m>> \o rest
  OBVIOUS
<1>7. q \in Seq(Step) /\ q # <<>> /\ Head(q) = m /\ TodoFits(a, q) /\ Left(q) = {m} \cup Left(rest)
  <2>1. (m.do \in Own => rest = <<>>) /\ (m.do \in Own \cup {"write"} => m.socket = a)
    BY <1>5 DEF Own
  <2>2. m \in Step /\ RestFits(a, rest)
    BY <1>5
  <2>3. /\ <<m>> \o rest \in Seq(Step) /\ <<m>> \o rest # <<>>
        /\ Head(<<m>> \o rest) = m
        /\ TodoFits(a, <<m>> \o rest)
        /\ Left(<<m>> \o rest) = {m} \cup Left(rest)
    BY ONLY <2>1, <2>2, Pushed
  <2> QED BY <1>6, <2>3
<1>8. Moves(a) /\ todo'[a] = q
  <2>1. Goto(a, q) /\ todo \in [Actor -> Seq(Step)]
    BY <1>1, <1>2, <1>4, <1>6 DEF ServerTypeOK
  <2> QED BY <1>7, <2>1, GotoIs DEF Moves
<1>9. /\ room' = room /\ socketDrafts' = socketDrafts /\ presence' = presence /\ registered' = registered
      /\ access' = access /\ live' = live /\ changes' = changes
      /\ queue' = queue /\ lost' = lost /\ overtaken' = overtaken
  BY DEF world, maps
<1>10. /\ link \in [Socket -> {"new", "checked", "open", "closed", "done"}]
       /\ link'[s] = (IF sent \/ link[s] # "open" THEN link[s] ELSE "closed")
       /\ \A t \in Socket \ {s} : link'[t] = link[t]
  BY <1>1, <1>3 DEF ServerTypeOK
<1>11. \A t \in Socket : link'[t] # link[t] => link[t] = "open" /\ link'[t] = "closed"
  BY <1>10
<1>12. /\ shared' \subseteq Draft \X Socket /\ crossed' \subseteq Socket
       /\ lost' => shared' = {} /\ crossed' = {}
       /\ \A t \in crossed' : shared' \cap (Draft \X {t}) = {}
       /\ ~ lost' => crossed' = crossed
       /\ ~ lost' => \A t \in Socket, e \in Draft : <<e, t>> \in shared' <=> <<e, t>> \in entries
  <2>1. /\ entries \in SUBSET (Draft \X Socket) /\ lost' \in BOOLEAN /\ {} \in SUBSET Socket
        /\ \A t \in crossed : entries \cap (Draft \X {t}) = {}
    BY <1>1, <1>9 DEF EntriesFit, ServerTypeOK
  <2>2. /\ shared' \subseteq Draft \X Socket /\ crossed' \subseteq Socket
        /\ lost' => shared' = {} /\ crossed' = {}
        /\ \A t \in crossed' : shared' \cap (Draft \X {t}) = {}
        /\ ~ lost' => crossed' = crossed \cup {}
        /\ ~ lost' => \A t \in Socket \ {}, e \in Draft : <<e, t>> \in shared' <=> <<e, t>> \in entries
    BY ONLY <1>1, <2>1, KeepIs, Keep(entries, {})
  <2> QED BY <2>2
<1>13. ServerTypeOK'
  <2>1. /\ link' \in [Socket -> {"new", "checked", "open", "closed", "done"}]
        /\ registered' \subseteq {t \in Socket : link'[t] \in {"open", "closed"}}
        /\ overtaken' \subseteq {t \in Socket : link'[t] = "checked"}
    BY <1>1, <1>9, <1>10, <1>11 DEF ServerTypeOK
  <2> QED BY <1>1, <1>8, <1>9, <1>12, <2>1 DEF ServerTypeOK, Moves
<1>14. MapsAgree'
  BY <1>1, <1>9 DEF MapsAgree, Drafts
<1>15. Todos'
  BY <1>1, <1>7, <1>8, TodosKept
<1>16. LinksFit'
  <2> SUFFICES ASSUME NEW t \in Socket
               PROVE  /\ link'[t] \in {"new", "checked", "done"} =>
                            t \notin registered /\ Drafts(t)' = {} /\ todo'[t] = <<>>
                      /\ link'[t] = "open" => t \in registered
                      /\ ~ lost' /\ link'[t] = "closed" /\ t \notin registered => t \in crossed'
    BY <1>9 DEF LinksFit
  <2>1. t \in Actor /\ Drafts(t)' = Drafts(t)
    BY <1>9 DEF Drafts, Actor
  <2>2. link'[t] \in {"new", "checked", "done"} => link[t] = link'[t] /\ t # a
    BY <1>11
  <2>3. t # a => todo'[t] = todo[t]
    BY <1>8, <2>1 DEF Moves
  <2>4. link'[t] = "open" => link[t] = "open"
    BY <1>11
  <2>5. link'[t] = "closed" => link[t] = "closed" \/ t \in registered
    BY <1>1, <1>11 DEF LinksFit
  <2> QED BY <1>1, <1>9, <1>12, <2>1, <2>2, <2>3, <2>4, <2>5 DEF LinksFit
<1>17. Sends'
  <2>1. Onward
    BY <1>11 DEF Onward
  <2>2. ASSUME NEW n \in Step, Begins(a, n)'
        PROVE  SendFits(a, n)'
    <3>1. n = m
      BY <1>7, <1>8, <2>2 DEF Begins
    <3>2. \A t \in m.to : link'[t] \in {"open", "closed", "done"}
      BY <1>5, <2>1 DEF Onward
    <3>3. \A t \in stale : link'[t] \in {"closed", "done"}
      BY <2>1 DEF Onward
    <3>4. s \in left \ stale => link'[s] \in {"closed", "done"}
      BY <1>2, <1>10
    <3>5. \A t \in m.stale : link'[t] \in {"closed", "done"}
      BY <1>2, <1>5, <3>3, <3>4
    <3> QED BY <1>5, <3>1, <3>2, <3>5 DEF SendFits
  <2> QED BY <1>1, <1>8, <1>9, <1>12, <2>1, <2>2, SendsKept
<1>18. PresenceFits'
  <2>1. ASSUME a \in Socket \ crossed', ~ lost'
        PROVE  PresenceFit(a)'
    <3>1. \A e \in Draft : ~ Begins(a, WriteOf(a, e))' /\ ~ Begins(a, EraseOf(a, e))'
      BY <1>5, <1>7, <1>8 DEF Begins, WriteOf, EraseOf
    <3>2. \A e \in Draft : <<e, a>> \in shared' <=> a \in room'[e]
      BY <1>9, <1>12, <2>1 DEF EntriesFit
    <3> QED BY <3>1, <3>2 DEF PresenceFit
  <2>2. ASSUME ~ lost', NEW e \in Draft, NEW t \in Socket \ crossed', t # a
        PROVE  (t \in room'[e] <=> t \in room[e]) /\ (<<e, t>> \in shared' <=> <<e, t>> \in shared)
    BY <1>9, <1>12, <2>2 DEF EntriesFit
  <2> QED BY <1>1, <1>8, <1>9, <1>12, <2>1, <2>2, PresencesKept
<1>19. RoomsDue'
  <2>1. ASSUME NEW e \in Draft, NEW t \in Socket, t \in room'[e], UserOf[t] \notin access[e], ~ lost'
        PROVE  /\ t \in room[e] \/ Due(t, e)'
               /\ \A n \in Left(todo[a]) : Tells(a, n, t, e) => Due(t, e)'
    <3>1. t \in room[e]
      BY <1>9, <2>1
    <3>2. ASSUME NEW n \in Left(todo[a]), Tells(a, n, t, e)
          PROVE  Due(t, e)'
      <4>1. CASE n \in Left(rest)
        <5>1. n \in Left(todo'[a])
          BY <1>7, <1>8, <4>1
        <5> QED BY <3>2, <5>1, DueFrom
      <4>2. CASE e = d /\ IF ServerOf(a) = Home[t] THEN t \in to \cup stale ELSE a \notin Listeners
        <5>1. t = s => s \in left
          <6>1. t = s /\ sent => t \in registered /\ Authorized(t, d)
            BY <1>1 DEF LinksFit
          <6>2. ~ (t = s /\ sent)
            BY <2>1, <4>2, <6>1 DEF Authorized, May
          <6> QED BY <1>2, <6>2
        <5>2. t \in to \cup stale => t \in m.to \cup m.stale
          BY <1>2, <1>5, <5>1
        <5>3. Tells(a, m, t, e)
          BY <1>5, <4>2, <5>2 DEF Tells
        <5>4. m \in Left(todo'[a])
          BY <1>7, <1>8
        <5> QED BY <5>3, <5>4, DueFrom
      <4> QED BY <3>1, <3>2, <4>1, <4>2 DEF Tasks
    <3> QED BY <3>1, <3>2
  <2>2. queue \in [Server -> SUBSET Draft] /\ \A v \in Server : queue[v] \subseteq queue'[v]
    BY <1>1, <1>9 DEF ServerTypeOK
  <2>3. room' \in [Draft -> SUBSET Socket]
    BY <1>1, <1>9 DEF ServerTypeOK
  <2> QED BY <1>1, <1>8, <1>9, <2>1, <2>2, <2>3, RoomsKept
<1>20. ChecksFit'
  <2>1. \A t \in Socket : link'[t] = "checked" => link[t] = "checked"
    BY <1>11
  <2> QED BY <1>1, <1>9, <2>1, ChecksKept
<1> QED BY <1>13, <1>14, <1>15, <1>16, <1>17, <1>18, <1>19, <1>20 DEF IInv

LEMMA ServerOfIs ==
  ASSUME NEW a \in Actor
  PROVE  ServerOf(a) \in Server
<1>1. CASE a \in Socket
  BY <1>1, HomeAssumption DEF ServerOf
<1>2. CASE a \notin Socket
  <2>1. a \in {"route", "listen"} \X Server
    BY <1>2 DEF Actor
  <2> QED BY <1>2, <2>1 DEF ServerOf
<1> QED BY <1>1, <1>2

\* After the last recipient: the closed are disconnected, the others are told.
LEMMA SentStep ==
  ASSUME IInv, NEW a \in Actor, NEW d \in Draft, NEW stale \in SUBSET Socket,
         NEW rest, RestFits(a, rest), a \in Socket => link[a] \in {"open", "closed"},
         \A t \in stale : link[t] \in {"closed", "done"},
         NEW entries, EntriesFit(a, entries), Tasks(a, d, {}, stale, rest),
         Disconnect(stale),
         IF a \in {Listener(v) : v \in Server} THEN UNCHANGED <<queue, lost>> ELSE Publish(a, d),
         Keep(entries, stale), Goto(a, rest), UNCHANGED link, UNCHANGED <<world, overtaken>>
  PROVE  IInv'
<1>1. ServerTypeOK /\ MapsAgree /\ Todos /\ LinksFit /\ Sends /\ PresenceFits /\ RoomsDue /\ ChecksFit
  BY DEF IInv
<1>2. rest \in Seq(Step) /\ TodoFits(a, rest)
      /\ (rest # <<>> => Head(rest).do \in Own \cup {"remove", "broadcast"})
  BY RestFitsTodo
<1>3. Moves(a) /\ todo'[a] = rest
  <2>1. todo \in [Actor -> Seq(Step)]
    BY <1>1 DEF ServerTypeOK
  <2> QED BY <1>2, <2>1, GotoIs DEF Moves
<1>4. /\ room' \in [Draft -> SUBSET Socket]
      /\ socketDrafts' \in [Socket -> (SUBSET Draft) \cup {None}]
      /\ presence' \subseteq Draft \X Socket
      /\ MapsAgree'
      /\ \A t \in stale : Drafts(t)' = {}
      /\ \A t \in Socket \ stale : Drafts(t)' = Drafts(t)
      /\ \A e \in Draft, t \in Socket : t \in room'[e] <=> t \in room[e] /\ t \notin stale
  BY <1>1, DisconnectMaps
<1>5. /\ link' = link /\ registered' = registered \ stale
      /\ access' = access /\ live' = live /\ changes' = changes /\ overtaken' = overtaken
  BY DEF world, Disconnect
<1>6. /\ lost' \in BOOLEAN /\ (~ lost' => ~ lost)
      /\ queue' \in [Server -> SUBSET Draft] /\ \A v \in Server : queue[v] \subseteq queue'[v]
  <2>1. lost \in BOOLEAN /\ queue \in [Server -> SUBSET Draft]
    BY <1>1 DEF ServerTypeOK
  <2>2. CASE UNCHANGED <<queue, lost>>
    BY <2>1, <2>2
  <2>3. CASE Publish(a, d)
    BY <2>1, <2>3 DEF Publish
  <2> QED BY <2>2, <2>3
<1>7. /\ shared' \subseteq Draft \X Socket /\ crossed' \subseteq Socket
      /\ lost' => shared' = {} /\ crossed' = {}
      /\ \A t \in crossed' : shared' \cap (Draft \X {t}) = {}
      /\ ~ lost' => crossed' = crossed \cup stale
      /\ ~ lost' => \A t \in Socket \ stale, e \in Draft : <<e, t>> \in shared' <=> <<e, t>> \in entries
  <2>1. /\ entries \in SUBSET (Draft \X Socket) /\ stale \in SUBSET Socket
        /\ \A t \in crossed : entries \cap (Draft \X {t}) = {}
    BY DEF EntriesFit
  <2> QED BY ONLY <1>1, <1>6, <2>1, KeepIs, Keep(entries, stale)
<1>8. ServerTypeOK'
  BY <1>1, <1>3, <1>4, <1>5, <1>6, <1>7 DEF ServerTypeOK, Moves
<1>9. Todos'
  BY <1>1, <1>2, <1>3, TodosKept
<1>10. LinksFit'
  <2> SUFFICES ASSUME NEW t \in Socket
               PROVE  /\ link[t] \in {"new", "checked", "done"} =>
                            t \notin registered' /\ Drafts(t)' = {} /\ todo'[t] = <<>>
                      /\ link[t] = "open" => t \in registered'
                      /\ ~ lost' /\ link[t] = "closed" /\ t \notin registered' => t \in crossed'
    BY <1>5 DEF LinksFit
  <2>1. link[t] \in {"new", "checked", "done"} => t # a /\ todo[t] = <<>> /\ Drafts(t) = {} /\ t \notin registered
    BY <1>1 DEF LinksFit
  <2>2. t # a => todo'[t] = todo[t]
    BY <1>3 DEF Moves, Actor
  <2>3. Drafts(t) = {} => Drafts(t)' = {}
    BY <1>4
  <2>4. link[t] = "open" => t \in registered'
    BY <1>1, <1>5 DEF LinksFit
  <2>5. ~ lost' /\ link[t] = "closed" /\ t \notin registered' => t \in crossed'
    BY <1>1, <1>5, <1>6, <1>7 DEF LinksFit
  <2> QED BY <1>5, <2>1, <2>2, <2>3, <2>4, <2>5
<1>11. Sends'
  <2>1. Onward
    BY <1>5 DEF Onward
  <2>2. ASSUME NEW n \in Step, Begins(a, n)'
        PROVE  SendFits(a, n)'
    <3>1. n.do \in Own \cup {"remove", "broadcast"}
      BY <1>2, <1>3, <2>2 DEF Begins
    <3> QED BY <3>1 DEF SendFits, Own
  <2> QED BY <1>1, <1>3, <1>6, <1>7, <2>1, <2>2, SendsKept
<1>12. PresenceFits'
  <2>1. ASSUME a \in Socket \ crossed', ~ lost'
        PROVE  PresenceFit(a)'
    <3>1. \A e \in Draft : ~ Begins(a, WriteOf(a, e))' /\ ~ Begins(a, EraseOf(a, e))'
      BY <1>2, <1>3 DEF Begins, WriteOf, EraseOf, Own
    <3>2. \A e \in Draft : <<e, a>> \in shared' <=> a \in room'[e]
      BY <1>4, <1>6, <1>7, <2>1 DEF EntriesFit
    <3> QED BY <3>1, <3>2 DEF PresenceFit
  <2>2. ASSUME ~ lost', NEW e \in Draft, NEW t \in Socket \ crossed', t # a
        PROVE  (t \in room'[e] <=> t \in room[e]) /\ (<<e, t>> \in shared' <=> <<e, t>> \in shared)
    BY <1>4, <1>6, <1>7, <2>2 DEF EntriesFit
  <2> QED BY <1>1, <1>3, <1>6, <1>7, <2>1, <2>2, PresencesKept
<1>13. RoomsDue'
  <2>1. ASSUME NEW e \in Draft, NEW t \in Socket, t \in room'[e], UserOf[t] \notin access[e], ~ lost'
        PROVE  /\ t \in room[e] \/ Due(t, e)'
               /\ \A n \in Left(todo[a]) : Tells(a, n, t, e) => Due(t, e)'
    <3>1. t \in room[e] /\ t \notin stale
      BY <1>4, <2>1
    <3>2. ASSUME NEW n \in Left(todo[a]), Tells(a, n, t, e)
          PROVE  Due(t, e)'
      <4>1. CASE n \in Left(rest)
        <5>1. n \in Left(todo'[a])
          BY <1>3, <4>1
        <5> QED BY <3>2, <5>1, DueFrom
      <4>2. CASE e = d /\ IF ServerOf(a) = Home[t] THEN t \in {} \cup stale ELSE a \notin Listeners
        <5>1. ServerOf(a) # Home[t] /\ a \notin Listeners
          BY <3>1, <4>2
        <5>2. PICK v : v = Home[t]
          OBVIOUS
        <5>3. v \in Server \ {ServerOf(a)} /\ At(v) # {}
          BY <5>1, <5>2, HomeAssumption DEF At
        <5>4. Publish(a, d)
          BY <5>1 DEF Listeners
        <5>5. queue \in [Server -> SUBSET Draft]
          BY <1>1 DEF ServerTypeOK
        <5>6. d \in queue'[v]
          BY <2>1, <5>3, <5>4, <5>5 DEF Publish
        <5> QED BY <4>2, <5>2, <5>6 DEF Due
      <4> QED BY <3>1, <3>2, <4>1, <4>2 DEF Tasks
    <3> QED BY <3>1, <3>2
  <2>2. queue \in [Server -> SUBSET Draft]
    BY <1>1 DEF ServerTypeOK
  <2> QED BY <1>1, <1>3, <1>4, <1>5, <1>6, <2>1, <2>2, RoomsKept
<1>14. ChecksFit'
  BY <1>1, <1>5, ChecksKept
<1> QED BY <1>4, <1>8, <1>9, <1>10, <1>11, <1>12, <1>13, <1>14 DEF IInv

LEMMA DeliverStep ==
  ASSUME IInv, NEW a \in Actor, NEW d \in Draft, NEW to \in SUBSET Socket, NEW stale \in SUBSET Socket,
         NEW rest, RestFits(a, rest), a \in Socket => link[a] \in {"open", "closed"},
         \A t \in to : link[t] \in {"open", "closed", "done"}, \A t \in stale : link[t] \in {"closed", "done"},
         NEW entries, EntriesFit(a, entries), Tasks(a, d, to, stale, rest),
         Deliver(a, d, to, stale, rest, entries), UNCHANGED <<world, overtaken>>
  PROVE  IInv'
<1>1. CASE \E s \in to :
             LET sent == link[s] = "open" /\ Authorized(s, d) IN
             /\ Goto(a, <<Send(d, to \ {s}, IF sent THEN stale ELSE stale \cup {s})>> \o rest)
             /\ link' = [link EXCEPT ![s] = IF sent \/ @ # "open" THEN @ ELSE "closed"]
             /\ UNCHANGED <<maps, queue, lost>>
             /\ Keep(entries, {})
  <2>1. PICK s \in to :
             LET sent == link[s] = "open" /\ Authorized(s, d) IN
             /\ Goto(a, <<Send(d, to \ {s}, IF sent THEN stale ELSE stale \cup {s})>> \o rest)
             /\ link' = [link EXCEPT ![s] = IF sent \/ @ # "open" THEN @ ELSE "closed"]
             /\ UNCHANGED <<maps, queue, lost>>
             /\ Keep(entries, {})
    BY <1>1
  <2>2. PICK sent \in BOOLEAN : sent <=> link[s] = "open" /\ Authorized(s, d)
    OBVIOUS
  <2>3. /\ Goto(a, <<Send(d, to \ {s}, IF sent THEN stale ELSE stale \cup {s})>> \o rest)
        /\ link' = [link EXCEPT ![s] = IF sent \/ @ # "open" THEN @ ELSE "closed"]
    BY <2>1, <2>2
  <2>4. UNCHANGED <<maps, queue, lost>> /\ Keep(entries, {})
    BY <2>1
  <2> QED BY <2>2, <2>3, <2>4, SendOneStep
<1>2. CASE /\ to = {}
           /\ Disconnect(stale)
           /\ IF a \in {Listener(v) : v \in Server} THEN UNCHANGED <<queue, lost>> ELSE Publish(a, d)
           /\ Keep(entries, stale)
           /\ Goto(a, rest)
           /\ UNCHANGED link
  BY <1>2, SentStep
<1> QED BY <1>1, <1>2 DEF Deliver

-----------------------------------------------------------------------------
(* A coroutine goes on and leaves the rooms as they are.                   *)

LEMMA TurnStep ==
  ASSUME IInv, NEW a \in Actor, NEW q \in Seq(Step), TodoFits(a, q), Goto(a, q),
         a \in Socket => link[a] \in {"open", "closed"},
         UNCHANGED <<registered, room, socketDrafts, shared, lost, crossed, overtaken, live>>,
         access' \in [Draft -> SUBSET User], changes' \in 0..MaxChange, queue' \in [Server -> SUBSET Draft],
         link' \in [Socket -> {"new", "checked", "open", "closed", "done"}],
         \A t \in Socket : link'[t] # link[t] => link[t] = "open" /\ link'[t] = "closed",
         presence' \subseteq Draft \X Socket, \A p \in presence' : p[2] \in room[p[1]] \cap registered,
         todo[a] = <<>> \/ Head(todo[a]).do \notin {"write", "erase"},
         q # <<>> => Head(q).do \notin {"send", "erase"},
         \A t \in Socket, d \in Draft : Begins(t, WriteOf(t, d))' /\ t = a => t \in room[d],
         RoomsDue'
  PROVE  IInv'
<1>1. ServerTypeOK /\ MapsAgree /\ Todos /\ LinksFit /\ Sends /\ PresenceFits /\ ChecksFit
  BY DEF IInv
<1>2. Moves(a) /\ todo'[a] = q
  <2>1. todo \in [Actor -> Seq(Step)]
    BY <1>1 DEF ServerTypeOK
  <2> QED BY <2>1, GotoIs DEF Moves
<1>3. /\ registered' = registered /\ room' = room /\ socketDrafts' = socketDrafts /\ shared' = shared
      /\ lost' = lost /\ crossed' = crossed /\ overtaken' = overtaken /\ live' = live
  OBVIOUS
<1>4. ServerTypeOK'
  <2>1. /\ registered' \subseteq {t \in Socket : link'[t] \in {"open", "closed"}}
        /\ overtaken' \subseteq {t \in Socket : link'[t] = "checked"}
    BY <1>1, <1>3 DEF ServerTypeOK
  <2> QED BY <1>1, <1>2, <1>3, <2>1 DEF ServerTypeOK, Moves
<1>5. MapsAgree'
  BY <1>1, <1>3 DEF MapsAgree, Drafts
<1>6. Todos'
  BY <1>1, <1>2, TodosKept
<1>7. LinksFit'
  <2> SUFFICES ASSUME NEW t \in Socket
               PROVE  /\ link'[t] \in {"new", "checked", "done"} =>
                            t \notin registered /\ Drafts(t)' = {} /\ todo'[t] = <<>>
                      /\ link'[t] = "open" => t \in registered
                      /\ ~ lost /\ link'[t] = "closed" /\ t \notin registered => t \in crossed
    BY <1>3 DEF LinksFit
  <2>1. t \in Actor /\ Drafts(t)' = Drafts(t)
    BY <1>3 DEF Drafts, Actor
  <2>2. link'[t] \in {"new", "checked", "done"} => link[t] = link'[t] /\ t # a
    OBVIOUS
  <2>3. t # a => todo'[t] = todo[t]
    BY <1>2, <2>1 DEF Moves
  <2>4. link'[t] = "open" => link[t] = "open"
    OBVIOUS
  <2>5. link'[t] = "closed" => link[t] = "closed" \/ t \in registered
    BY <1>1 DEF LinksFit
  <2> QED BY <1>1, <2>1, <2>2, <2>3, <2>4, <2>5 DEF LinksFit
<1>8. Sends'
  <2>1. Onward
    BY DEF Onward
  <2>2. ASSUME NEW n \in Step, Begins(a, n)'
        PROVE  SendFits(a, n)'
    <3>1. n.do \notin {"send", "erase"}
      BY <1>2, <2>2 DEF Begins
    <3> QED BY <3>1 DEF SendFits
  <2> QED BY <1>1, <1>2, <1>3, <2>1, <2>2, SendsKept
<1>9. PresenceFits'
  <2>1. ASSUME a \in Socket \ crossed, ~ lost
        PROVE  PresenceFit(a)'
    <3>1. \A e \in Draft : <<e, a>> \in shared <=> a \in room[e]
      <4>1. PresenceFit(a)
        BY <1>1, <2>1 DEF PresenceFits
      <4> QED BY <2>1, <4>1, OtherHead DEF PresenceFit
    <3>2. \A e \in Draft : ~ Begins(a, EraseOf(a, e))'
      BY <1>2 DEF Begins, EraseOf
    <3>3. \A e \in Draft : Begins(a, WriteOf(a, e))' => a \in room[e]
      BY <2>1
    <3> SUFFICES ASSUME NEW e \in Draft
                 PROVE  /\ Begins(a, WriteOf(a, e))' => a \in room'[e]
                        /\ Begins(a, EraseOf(a, e))' => a \notin room'[e]
                        /\ ~ Begins(a, WriteOf(a, e))' /\ ~ Begins(a, EraseOf(a, e))' =>
                              (<<e, a>> \in shared' <=> a \in room'[e])
      BY DEF PresenceFit
    <3> QED BY <1>3, <3>1, <3>2, <3>3
  <2> QED BY <1>1, <1>2, <1>3, <2>1, PresencesKept
<1>10. ChecksFit'
  <2>1. \A t \in Socket : link'[t] = "checked" => link[t] = "checked"
    OBVIOUS
  <2> QED BY <1>1, <1>3, <2>1, ChecksKept
<1> QED BY <1>4, <1>5, <1>6, <1>7, <1>8, <1>9, <1>10 DEF IInv

\* A coroutine with something to do is of a server, or its endpoint has begun.
LEMMA Running ==
  ASSUME IInv, NEW a \in Actor, todo[a] # <<>>
  PROVE  /\ a \in Socket => link[a] \in {"open", "closed"}
         /\ Head(todo[a]) \in Step /\ Head(todo[a]) \in Left(todo[a])
         /\ RestFits(a, Tail(todo[a]))
         /\ Left(todo[a]) = {Head(todo[a])} \cup Left(Tail(todo[a]))
         /\ Head(todo[a]).do \in Own =>
               /\ Left(todo[a]) = {Head(todo[a])} /\ Head(todo[a]).socket = a /\ a \in Socket
         /\ Head(todo[a]).do = "write" => Head(todo[a]).socket = a
<1>1. ServerTypeOK /\ Todos /\ LinksFit
  BY DEF IInv
<1>2. todo[a] \in Seq(Step) /\ TodoFits(a, todo[a])
  BY <1>1 DEF ServerTypeOK, Todos
<1>3. PICK q : q = todo[a]
  OBVIOUS
<1>4. q \in Seq(Step) /\ TodoFits(a, q) /\ q # <<>>
  BY <1>2, <1>3
<1>5. /\ Head(q) \in Step /\ Head(q) \in Left(q)
      /\ RestFits(a, Tail(q))
      /\ Left(q) = {Head(q)} \cup Left(Tail(q))
      /\ Head(q).do \in Own => Tail(q) = <<>>
      /\ Head(q).do \in Own \cup {"write"} => Head(q).socket = a
  BY <1>4, RestIs
<1>6. Left(<<>>) = {}
  BY NoRest
<1>7. Head(q).do \in Own => Left(q) = {Head(q)} /\ Head(q).socket = a /\ a \in Socket
  <2> SUFFICES ASSUME Head(q).do \in Own PROVE Left(q) = {Head(q)} /\ Head(q).socket = a /\ a \in Socket
    OBVIOUS
  <2>1. Head(q).socket \in Socket
    BY <1>5, StepKinds DEF Own
  <2> QED BY <1>5, <1>6, <2>1
<1>8. a \in Socket => link[a] \in {"open", "closed"}
  BY <1>1 DEF LinksFit, ServerTypeOK
<1> QED BY <1>3, <1>5, <1>7, <1>8

-----------------------------------------------------------------------------
(* The actions of the endpoint.                                            *)

LEMMA WaitingIs ==
  ASSUME NEW s \in Socket, todo[s] = <<>>
  PROVE  s \in Actor /\ Left(todo[s]) = {}
  BY NoRest DEF Actor

\* An endpoint leaves a room, and goes on with one step of its own, if any.
LEMMA OwnLeaving ==
  ASSUME IInv, NEW s \in Socket, NEW d \in Draft, NEW m \in Step, m.do \in Own, m.socket = s,
         link[s] \in {"open", "closed"}, todo[s] = <<>>,
         Leaving(s, s, d, <<>>) \/ Leaving(s, s, d, <<m>>),
         UNCHANGED <<world, queue, shared, lost, overtaken, crossed>>
  PROVE  IInv'
<1>1. s \in Actor /\ Left(todo[s]) = {}
  BY WaitingIs
<1>2. RestFits(s, <<>>) /\ RestFits(s, <<m>>)
  BY NoRest, Alone
<1>3. UNCHANGED <<world, queue, lost, overtaken>> /\ UNCHANGED <<shared, crossed>>
  OBVIOUS
<1>4. PICK rest : RestFits(s, rest) /\ Leaving(s, s, d, rest)
  BY <1>2
<1> QED BY <1>1, <1>3, <1>4, LeavingStep

LEMMA SubscribeStep ==
  ASSUME IInv, NEW s \in Socket, NEW d \in Draft, Subscribe(s, d)
  PROVE  IInv'
<1>1. /\ link[s] = "open" /\ todo[s] = <<>> /\ UNCHANGED <<world, redis, overtaken, crossed>>
  BY DEF Subscribe, Waiting
<1>2. s \in Actor /\ Left(todo[s]) = {}
  BY <1>1, WaitingIs
<1>3. CASE Ending(s)
  BY <1>1, <1>2, <1>3, EndingStep
<1>4. CASE Entering(s, d)
  BY <1>1, <1>2, <1>4, EnteringStep
<1>5. CASE \E e \in Drafts(s) \ {d} : Leaving(s, s, e, <<Enter(s, d)>>)
  <2>1. PICK e \in Drafts(s) \ {d} : Leaving(s, s, e, <<Enter(s, d)>>)
    BY <1>5
  <2>2. e \in Draft
    BY DraftsIs DEF IInv, ServerTypeOK
  <2>3. Enter(s, d) \in Step /\ Enter(s, d).do \in Own /\ Enter(s, d).socket = s
    BY MadeSteps DEF Own
  <2>4. UNCHANGED <<world, queue, shared, lost, overtaken, crossed>>
    BY <1>1 DEF redis
  <2> QED BY <1>1, <2>1, <2>2, <2>3, <2>4, OwnLeaving
<1> QED BY <1>3, <1>4, <1>5 DEF Subscribe

LEMMA UnsubscribeStep ==
  ASSUME IInv, NEW s \in Socket, NEW d \in Draft, Unsubscribe(s, d)
  PROVE  IInv'
<1>1. /\ link[s] = "open" /\ todo[s] = <<>> /\ UNCHANGED <<world, queue, shared, lost, overtaken, crossed>>
      /\ Leaving(s, s, d, <<>>)
  BY DEF Unsubscribe, Waiting
<1>2. EndOf(s) \in Step /\ EndOf(s).do \in Own /\ EndOf(s).socket = s
  BY MadeSteps DEF Own, EndOf, Step
<1> QED BY <1>1, <1>2, OwnLeaving

LEMMA UpdateStep ==
  ASSUME IInv, NEW s \in Socket, NEW d \in Draft, Update(s, d)
  PROVE  IInv'
<1>1. link[s] = "open" /\ todo[s] = <<>> /\ UNCHANGED <<world, queue, shared, lost, overtaken, crossed>>
  BY DEF Update, Waiting
<1>2. s \in Actor /\ Left(todo[s]) = {}
  BY <1>1, WaitingIs
<1>3. ServerTypeOK /\ MapsAgree /\ LinksFit /\ RoomsDue
  BY DEF IInv
<1>4. CASE Leaving(s, s, d, <<Close(s)>>)
  <2>1. Close(s) \in Step /\ Close(s).do \in Own /\ Close(s).socket = s
    BY MadeSteps DEF Own
  <2> QED BY <1>1, <1>4, <2>1, OwnLeaving
<1>5. CASE /\ d \in Drafts(s) /\ presence' = presence \cup {<<d, s>>} /\ Goto(s, <<WriteOf(s, d)>>)
           /\ UNCHANGED <<link, registered, room, socketDrafts>>
  <2>1. /\ WriteOf(s, d) \in Step /\ WriteOf(s, d).do = "write" /\ WriteOf(s, d).socket = s
        /\ WriteOf(s, d).draft = d
    BY MadeSteps
  <2>2. PICK q : q = <<WriteOf(s, d)>>
    OBVIOUS
  <2>3. q \in Seq(Step) /\ TodoFits(s, q) /\ q # <<>> /\ Head(q) = WriteOf(s, d)
    BY <2>1, <2>2, Alone
  <2>4. /\ access' = access /\ live' = live /\ changes' = changes
        /\ queue' = queue /\ shared' = shared /\ lost' = lost /\ crossed' = crossed /\ overtaken' = overtaken
        /\ link' = link /\ registered' = registered /\ room' = room /\ socketDrafts' = socketDrafts
    BY <1>1, <1>5 DEF world
  <2>5. /\ access' \in [Draft -> SUBSET User] /\ changes' \in 0..MaxChange /\ queue' \in [Server -> SUBSET Draft]
        /\ link' \in [Socket -> {"new", "checked", "open", "closed", "done"}] /\ room' \in [Draft -> SUBSET Socket]
    BY <1>3, <2>4 DEF ServerTypeOK
  <2>6. Moves(s) /\ todo'[s] = q
    <3>1. todo \in [Actor -> Seq(Step)] /\ Goto(s, q)
      BY <1>3, <1>5, <2>2 DEF ServerTypeOK
    <3> QED BY <1>2, <2>3, <3>1, GotoIs DEF Moves
  <2>7. s \in room[d] /\ s \in registered
    BY <1>1, <1>3, <1>5 DEF MapsAgree, LinksFit
  <2>8. presence' \subseteq Draft \X Socket /\ \A p \in presence' : p[2] \in room[p[1]] \cap registered
    BY <1>3, <1>5, <2>7 DEF ServerTypeOK, MapsAgree
  <2>9. \A t \in Socket, e \in Draft : Begins(t, WriteOf(t, e))' /\ t = s => t \in room[e]
    <3> SUFFICES ASSUME NEW e \in Draft, Begins(s, WriteOf(s, e))'
                 PROVE  s \in room[e]
      OBVIOUS
    <3>1. WriteOf(s, e) = WriteOf(s, d)
      BY <2>3, <2>6 DEF Begins, WriteOf
    <3>2. e = d
      BY <3>1 DEF WriteOf
    <3> QED BY <2>7, <3>2
  <2>10. RoomsDue'
    BY <1>2, <1>3, <2>4, <2>5, <2>6, RoomsKept
  <2>11. Goto(s, q) /\ Head(q).do \notin {"send", "erase"}
    BY <1>5, <2>1, <2>2, <2>3
  <2> QED BY <1>1, <1>2, <2>3, <2>4, <2>5, <2>8, <2>9, <2>10, <2>11, TurnStep
<1> QED BY <1>4, <1>5 DEF Update

LEMMA HearStep ==
  ASSUME IInv, NEW s \in Socket, Hear(s)
  PROVE  IInv'
<1>1. /\ link[s] = "closed" /\ todo[s] = <<>> /\ UNCHANGED <<world, redis, overtaken, crossed>> /\ Ending(s)
  BY DEF Hear
<1> QED BY <1>1, WaitingIs, EndingStep

\* The connection is closed and the endpoint ends.
LEMMA CloseStep ==
  ASSUME IInv, NEW s \in Socket, link[s] \in {"open", "closed"},
         todo[s] = <<>> \/ Head(todo[s]).do = "close",
         link' = [link EXCEPT ![s] = "closed"], Goto(s, <<EndOf(s)>>),
         UNCHANGED <<world, maps, redis, overtaken, crossed>>
  PROVE  IInv'
<1>1. ServerTypeOK /\ MapsAgree /\ LinksFit /\ RoomsDue
  BY DEF IInv
<1>2. s \in Actor /\ \A m \in Left(todo[s]) : m.do = "close"
  <2>1. s \in Actor
    BY DEF Actor
  <2>2. CASE todo[s] = <<>>
    BY <2>1, <2>2, WaitingIs
  <2>3. CASE todo[s] # <<>> /\ Head(todo[s]).do = "close"
    BY <2>1, <2>3, Running DEF Own
  <2> QED BY <2>1, <2>2, <2>3
<1>3. EndOf(s) \in Step /\ EndOf(s).do = "end" /\ EndOf(s).socket = s
  BY DEF EndOf, Step
<1>4. PICK q : q = <<EndOf(s)>>
  OBVIOUS
<1>5. q \in Seq(Step) /\ TodoFits(s, q) /\ q # <<>> /\ Head(q) = EndOf(s)
  BY <1>3, <1>4, Alone
<1>6. /\ access' = access /\ live' = live /\ changes' = changes
      /\ queue' = queue /\ shared' = shared /\ lost' = lost /\ crossed' = crossed /\ overtaken' = overtaken
      /\ registered' = registered /\ room' = room /\ socketDrafts' = socketDrafts /\ presence' = presence
  BY DEF world, redis, maps
<1>7. /\ access' \in [Draft -> SUBSET User] /\ changes' \in 0..MaxChange /\ queue' \in [Server -> SUBSET Draft]
      /\ room' \in [Draft -> SUBSET Socket]
  BY <1>1, <1>6 DEF ServerTypeOK
<1>8. /\ link' \in [Socket -> {"new", "checked", "open", "closed", "done"}]
      /\ \A t \in Socket : link'[t] # link[t] => link[t] = "open" /\ link'[t] = "closed"
  BY <1>1 DEF ServerTypeOK
<1>9. Moves(s) /\ todo'[s] = q
  <2>1. todo \in [Actor -> Seq(Step)] /\ Goto(s, q)
    BY <1>1, <1>4 DEF ServerTypeOK
  <2> QED BY <1>2, <1>5, <2>1, GotoIs DEF Moves
<1>10. presence' \subseteq Draft \X Socket /\ \A p \in presence' : p[2] \in room[p[1]] \cap registered
  BY <1>1, <1>6 DEF ServerTypeOK, MapsAgree
<1>11. \A t \in Socket, e \in Draft : Begins(t, WriteOf(t, e))' /\ t = s => t \in room[e]
  BY <1>3, <1>5, <1>9 DEF Begins, WriteOf
<1>12. RoomsDue'
  <2>1. \A n \in Left(todo[s]) : \A t, e : ~ Tells(s, n, t, e)
    BY <1>2 DEF Tells
  <2> QED BY <1>1, <1>2, <1>6, <1>7, <1>9, <2>1, RoomsKept
<1>13. Goto(s, q) /\ Head(q).do \notin {"send", "erase"}
  BY <1>3, <1>4, <1>5
<1>14. todo[s] = <<>> \/ Head(todo[s]).do \notin {"write", "erase"}
  OBVIOUS
<1> QED BY <1>2, <1>5, <1>6, <1>7, <1>8, <1>10, <1>11, <1>12, <1>13, <1>14, TurnStep

LEMMA RejectStep ==
  ASSUME IInv, NEW s \in Socket, Reject(s)
  PROVE  IInv'
  BY CloseStep DEF Reject, Waiting

-----------------------------------------------------------------------------
(* A coroutine goes on after an await.                                     *)

LEMMA RunEnterStep ==
  ASSUME IInv, NEW a \in Actor, RunEnter(a)
  PROVE  IInv'
<1>1. PICK m : m = Head(todo[a])
  OBVIOUS
<1>2. /\ todo[a] # <<>> /\ m.do = "enter" /\ Entering(m.socket, m.draft)
      /\ UNCHANGED <<world, redis, overtaken, crossed>>
  BY <1>1 DEF RunEnter, Resumes
<1>3. /\ m \in Step /\ Left(todo[a]) = {m} /\ m.socket = a /\ a \in Socket /\ link[a] \in {"open", "closed"}
  BY <1>1, <1>2, Running DEF Own
<1>4. m.draft \in Draft
  BY <1>2, <1>3, StepKinds
<1>5. Entering(a, m.draft) /\ \A n \in Left(todo[a]) : n.do = "enter"
  BY <1>2, <1>3
<1> QED BY <1>2, <1>3, <1>4, <1>5, EnteringStep

LEMMA RunEndStep ==
  ASSUME IInv, NEW a \in Actor, RunEnd(a)
  PROVE  IInv'
<1>1. PICK m : m = Head(todo[a])
  OBVIOUS
<1>2. /\ todo[a] # <<>> /\ m.do = "end" /\ Ending(m.socket)
      /\ UNCHANGED <<world, redis, overtaken, crossed>>
  BY <1>1 DEF RunEnd, Resumes
<1>3. /\ m \in Step /\ Left(todo[a]) = {m} /\ m.socket = a /\ a \in Socket /\ link[a] \in {"open", "closed"}
  BY <1>1, <1>2, Running DEF Own
<1>4. m = EndOf(a)
  BY <1>2, <1>3, StepKinds DEF EndOf
<1>5. Ending(a) /\ \A n \in Left(todo[a]) : n = EndOf(a)
  BY <1>2, <1>3, <1>4
<1> QED BY <1>2, <1>3, <1>5, EndingStep

LEMMA RunCloseStep ==
  ASSUME IInv, NEW a \in Actor, RunClose(a)
  PROVE  IInv'
<1>1. PICK m : m = Head(todo[a])
  OBVIOUS
<1>2. /\ todo[a] # <<>> /\ m.do = "close" /\ link' = [link EXCEPT ![m.socket] = "closed"]
      /\ Goto(a, <<EndOf(m.socket)>>)
      /\ UNCHANGED <<world, maps, redis, overtaken, crossed>>
  BY <1>1 DEF RunClose, Resumes
<1>3. m.socket = a /\ a \in Socket /\ link[a] \in {"open", "closed"}
  BY <1>1, <1>2, Running DEF Own
<1> QED BY <1>1, <1>2, <1>3, CloseStep

LEMMA RunBroadcastStep ==
  ASSUME IInv, NEW a \in Actor, RunBroadcast(a)
  PROVE  IInv'
<1>1. ServerTypeOK /\ MapsAgree /\ LinksFit /\ Sends /\ PresenceFits
  BY DEF IInv
<1>2. PICK m : m = Head(todo[a])
  OBVIOUS
<1>3. PICK rest : rest = Tail(todo[a])
  OBVIOUS
<1>4. PICK to : to = room[m.draft] \cap At(ServerOf(a))
  OBVIOUS
<1>5. PICK entries : entries = Entries(m)
  OBVIOUS
<1>6. /\ todo[a] # <<>> /\ m.do \in {"broadcast", "write", "erase"}
      /\ Deliver(a, m.draft, to, {}, rest, entries)
      /\ UNCHANGED <<world, overtaken>>
  BY <1>2, <1>3, <1>4, <1>5 DEF RunBroadcast, Resumes
<1>7. /\ a \in Socket => link[a] \in {"open", "closed"}
      /\ m \in Step /\ RestFits(a, rest) /\ Left(todo[a]) = {m} \cup Left(rest)
      /\ m.do = "write" => m.socket = a
  BY <1>2, <1>3, <1>6, Running
<1>8. /\ m.draft \in Draft
      /\ m.do \in {"write", "erase"} => m.socket \in Socket
      /\ m.do \in {"write", "erase"} => m = [do |-> m.do, socket |-> m.socket, draft |-> m.draft]
  BY <1>6, <1>7, StepKinds
<1>9. to \in SUBSET Socket /\ \A t \in to : t \in room[m.draft]
  BY <1>1, <1>4, <1>8 DEF ServerTypeOK
<1>10. \A t \in to : link[t] \in {"open", "closed", "done"}
  BY <1>1, <1>8, <1>9 DEF LinksFit, MapsAgree, ServerTypeOK
<1>11. EntriesFit(a, entries)
  <2>1. shared \subseteq Draft \X Socket /\ \A t \in crossed : shared \cap (Draft \X {t}) = {}
    BY <1>1 DEF ServerTypeOK
  <2>2. Begins(a, m)
    BY <1>2, <1>6 DEF Begins
  <2>3. ASSUME a \in Socket \ crossed, ~ lost
        PROVE  PresenceFit(a)
    BY <1>1, <2>3 DEF PresenceFits
  <2>4. CASE m.do = "write" /\ m.socket \notin crossed
    <3>1. entries = shared \cup {<<m.draft, a>>} /\ a \in Socket
      BY <1>5, <1>7, <1>8, <2>4 DEF Entries
    <3>2. m = WriteOf(a, m.draft)
      BY <1>7, <1>8, <2>4 DEF WriteOf
    <3>3. \A e \in Draft : /\ Begins(a, WriteOf(a, e)) <=> e = m.draft
                           /\ ~ Begins(a, EraseOf(a, e))
      BY <2>2, <3>2 DEF Begins, WriteOf, EraseOf
    <3>4. ~ lost => \A e \in Draft : <<e, a>> \in entries <=> a \in room[e]
      <4> SUFFICES ASSUME ~ lost, NEW e \in Draft
                   PROVE  <<e, a>> \in entries <=> a \in room[e]
        OBVIOUS
      <4>1. PresenceFit(a)
        BY <1>7, <2>3, <2>4, <3>1
      <4>2. e = m.draft => a \in room[e]
        BY <3>3, <4>1 DEF PresenceFit
      <4>3. e # m.draft => (<<e, a>> \in shared <=> a \in room[e])
        BY <3>3, <4>1 DEF PresenceFit
      <4> QED BY <3>1, <4>2, <4>3
    <3>5. \A t \in Socket \ crossed, e \in Draft : t # a => (<<e, t>> \in entries <=> <<e, t>> \in shared)
      BY <3>1
    <3>6. entries \subseteq Draft \X Socket /\ \A t \in crossed : entries \cap (Draft \X {t}) = {}
      BY <1>7, <1>8, <2>1, <2>4, <3>1
    <3> QED BY <3>4, <3>5, <3>6 DEF EntriesFit
  <2>5. CASE m.do = "erase"
    <3>1. entries = shared \ {<<m.draft, m.socket>>}
      BY <1>5, <2>5 DEF Entries
    <3>2. ~ lost /\ m.socket # a => m.socket \in crossed
      BY <1>1, <1>7, <2>2, <2>5 DEF Sends, SendFits
    <3>3. ~ lost => \A t \in Socket \ crossed, e \in Draft : t # a => (<<e, t>> \in entries <=> <<e, t>> \in shared)
      BY <3>1, <3>2
    <3>4. ASSUME ~ lost, a \in Socket \ crossed, NEW e \in Draft
          PROVE  <<e, a>> \in entries <=> a \in room[e]
      <4>1. PresenceFit(a)
        BY <2>3, <3>4
      <4>2. ~ Begins(a, WriteOf(a, e))
        BY <2>2, <2>5 DEF Begins, WriteOf
      <4>3. CASE m = EraseOf(a, e)
        <5>1. Begins(a, EraseOf(a, e)) /\ m.socket = a /\ m.draft = e
          BY <2>2, <4>3 DEF EraseOf
        <5> QED BY <3>1, <4>1, <5>1 DEF PresenceFit
      <4>4. CASE m # EraseOf(a, e)
        <5>1. ~ Begins(a, EraseOf(a, e))
          BY <2>2, <4>4 DEF Begins
        <5>2. <<e, a>> \in shared <=> a \in room[e]
          BY <4>1, <4>2, <5>1 DEF PresenceFit
        <5>3. ~ (m.socket = a /\ m.draft = e)
          BY <1>8, <2>5, <4>4 DEF EraseOf
        <5> QED BY <3>1, <5>2, <5>3
      <4> QED BY <4>3, <4>4
    <3>5. entries \subseteq Draft \X Socket /\ \A t \in crossed : entries \cap (Draft \X {t}) = {}
      BY <2>1, <3>1
    <3> QED BY <3>3, <3>4, <3>5 DEF EntriesFit
  <2>6. CASE m.do = "broadcast" \/ (m.do = "write" /\ m.socket \in crossed)
    <3>1. entries = shared
      BY <1>5, <2>6 DEF Entries
    <3>2. ASSUME ~ lost, a \in Socket \ crossed, NEW e \in Draft
          PROVE  <<e, a>> \in entries <=> a \in room[e]
      <4>1. PresenceFit(a)
        BY <2>3, <3>2
      <4>2. m.do = "broadcast"
        BY <1>7, <2>6, <3>2
      <4>3. ~ Begins(a, WriteOf(a, e)) /\ ~ Begins(a, EraseOf(a, e))
        BY <2>2, <4>2 DEF Begins, WriteOf, EraseOf
      <4> QED BY <3>1, <4>1, <4>3 DEF PresenceFit
    <3> QED BY <2>1, <3>1, <3>2 DEF EntriesFit
  <2> QED BY <1>6, <2>4, <2>5, <2>6
<1>12. Tasks(a, m.draft, to, {}, rest)
  <2> SUFFICES ASSUME NEW e \in Draft, NEW t \in room[e], NEW n \in Left(todo[a]), Tells(a, n, t, e), n \notin Left(rest)
               PROVE  /\ e = m.draft
                      /\ IF ServerOf(a) = Home[t] THEN t \in to \cup {} ELSE a \notin Listeners
    BY DEF Tasks
  <2>1. n = m
    BY <1>7
  <2>2. e = m.draft /\ (ServerOf(a) = Home[t] \/ a \notin Listeners)
    BY <1>6, <2>1 DEF Tells
  <2>3. ServerOf(a) = Home[t] => t \in to
    BY <1>1, <1>4, <2>2 DEF At, ServerTypeOK
  <2> QED BY <2>2, <2>3
<1> QED BY <1>6, <1>7, <1>8, <1>9, <1>10, <1>11, <1>12, DeliverStep

LEMMA RunSendStep ==
  ASSUME IInv, NEW a \in Actor, RunSend(a)
  PROVE  IInv'
<1>1. ServerTypeOK /\ Sends /\ PresenceFits
  BY DEF IInv
<1>2. PICK m : m = Head(todo[a])
  OBVIOUS
<1>3. PICK rest : rest = Tail(todo[a])
  OBVIOUS
<1>4. /\ todo[a] # <<>> /\ m.do = "send"
      /\ Deliver(a, m.draft, m.to, m.stale, rest, shared)
      /\ UNCHANGED <<world, overtaken>>
  BY <1>2, <1>3 DEF RunSend, Resumes
<1>5. /\ a \in Socket => link[a] \in {"open", "closed"}
      /\ m \in Step /\ RestFits(a, rest) /\ Left(todo[a]) = {m} \cup Left(rest)
  BY <1>2, <1>3, <1>4, Running
<1>6. m.draft \in Draft /\ m.to \in SUBSET Socket /\ m.stale \in SUBSET Socket
  BY <1>4, <1>5, StepKinds
<1>7. Begins(a, m)
  BY <1>2, <1>4 DEF Begins
<1>8. /\ \A t \in m.to : link[t] \in {"open", "closed", "done"}
      /\ \A t \in m.stale : link[t] \in {"closed", "done"}
  BY <1>1, <1>4, <1>5, <1>7 DEF Sends, SendFits
<1>9. EntriesFit(a, shared)
  <2>1. shared \subseteq Draft \X Socket /\ \A t \in crossed : shared \cap (Draft \X {t}) = {}
    BY <1>1 DEF ServerTypeOK
  <2>2. ASSUME ~ lost, a \in Socket \ crossed, NEW e \in Draft
        PROVE  <<e, a>> \in shared <=> a \in room[e]
    <3>1. PresenceFit(a)
      BY <1>1, <2>2 DEF PresenceFits
    <3>2. ~ Begins(a, WriteOf(a, e)) /\ ~ Begins(a, EraseOf(a, e))
      BY <1>4, <1>7 DEF Begins, WriteOf, EraseOf
    <3> QED BY <3>1, <3>2 DEF PresenceFit
  <2> QED BY <2>1, <2>2 DEF EntriesFit
<1>10. Tasks(a, m.draft, m.to, m.stale, rest)
  BY <1>4, <1>5 DEF Tasks, Tells
<1> QED BY <1>4, <1>5, <1>6, <1>8, <1>9, <1>10, DeliverStep

\* An eviction, at its beginning or with the sockets in to left.
LEMMA RemovingStep ==
  ASSUME IInv, NEW a \in Actor, todo[a] # <<>>, Head(todo[a]).do \in {"evict", "remove"},
         NEW d \in Draft, NEW to \in SUBSET Socket, Removing(a, d, to),
         UNCHANGED <<world, queue, lost, overtaken>>
  PROVE  IInv'
<1>1. ServerTypeOK /\ MapsAgree /\ RoomsDue
  BY DEF IInv
<1>2. PICK rest : rest = Tail(todo[a])
  OBVIOUS
<1>3. /\ a \in Socket => link[a] \in {"open", "closed"}
      /\ RestFits(a, rest) /\ Left(todo[a]) = {Head(todo[a])} \cup Left(rest)
  BY <1>2, Running
<1>4. CASE to = {}
  <2>1. Goto(a, rest) /\ UNCHANGED <<link, maps, shared, crossed>>
    BY <1>2, <1>4 DEF Removing
  <2>2. rest \in Seq(Step) /\ TodoFits(a, rest)
        /\ (rest # <<>> => Head(rest).do \in Own \cup {"remove", "broadcast"})
    BY <1>3, RestFitsTodo
  <2>3. /\ access' = access /\ live' = live /\ changes' = changes
        /\ queue' = queue /\ shared' = shared /\ lost' = lost /\ crossed' = crossed /\ overtaken' = overtaken
        /\ link' = link /\ registered' = registered /\ room' = room /\ socketDrafts' = socketDrafts
        /\ presence' = presence
    BY <2>1 DEF world, maps
  <2>4. /\ access' \in [Draft -> SUBSET User] /\ changes' \in 0..MaxChange /\ queue' \in [Server -> SUBSET Draft]
        /\ link' \in [Socket -> {"new", "checked", "open", "closed", "done"}] /\ room' \in [Draft -> SUBSET Socket]
    BY <1>1, <2>3 DEF ServerTypeOK
  <2>5. Moves(a) /\ todo'[a] = rest
    <3>1. todo \in [Actor -> Seq(Step)]
      BY <1>1 DEF ServerTypeOK
    <3> QED BY <2>1, <2>2, <3>1, GotoIs DEF Moves
  <2>6. presence' \subseteq Draft \X Socket /\ \A p \in presence' : p[2] \in room[p[1]] \cap registered
    BY <1>1, <2>3 DEF ServerTypeOK, MapsAgree
  <2>7. \A t \in Socket, e \in Draft : Begins(t, WriteOf(t, e))' /\ t = a => t \in room[e]
    BY <2>2, <2>5 DEF Begins, WriteOf, Own
  <2>8. RoomsDue'
    <3>1. ASSUME NEW e \in Draft, NEW t \in Socket, NEW n \in Left(todo[a]), Tells(a, n, t, e)
          PROVE  Due(t, e)'
      <4>1. n.do \notin {"evict", "remove"}
        BY <3>1 DEF Tells
      <4>2. n \in Left(todo'[a])
        BY <1>3, <2>5, <4>1
      <4> QED BY <3>1, <4>2, DueFrom
    <3> QED BY <1>1, <2>3, <2>4, <2>5, <3>1, RoomsKept
  <2>9. Head(todo[a]).do \notin {"write", "erase"} /\ (rest # <<>> => Head(rest).do \notin {"send", "erase"})
    BY <2>2 DEF Own
  <2> QED BY <1>3, <2>1, <2>2, <2>3, <2>4, <2>6, <2>7, <2>8, <2>9, TurnStep
<1>5. CASE to # {}
  <2>1. PICK s \in to : /\ Leaving(a, s, d, <<Remove(d, to \ {s})>> \o rest)
                        /\ Keep(shared, {s})
    BY <1>2, <1>5 DEF Removing
  <2>2. PICK others : others = to \ {s}
    OBVIOUS
  <2>3. PICK m : m = Remove(d, others)
    OBVIOUS
  <2>4. m \in Step /\ m.do = "remove"
    <3>1. others \in SUBSET Socket
      BY <2>2
    <3> QED BY <2>3, <3>1, MadeRemovals
  <2>5. PICK q : q = <<m>> \o rest
    OBVIOUS
  <2>6. RestFits(a, q) /\ Left(q) = {m} \cup Left(rest)
    <3>1. /\ m.do \in Own => rest = <<>>
          /\ m.do \in Own \cup {"write"} => m.socket = a
          /\ m.do \in {"remove", "broadcast"} \cup Own
      BY <2>4 DEF Own
    <3>2. /\ Left(<<m>> \o rest) = {m} \cup Left(rest)
          /\ m.do \in {"remove", "broadcast"} \cup Own => RestFits(a, <<m>> \o rest)
      BY ONLY <1>3, <2>4, <3>1, Pushed
    <3> QED BY <2>5, <3>1, <3>2
  <2>7. Leaving(a, s, d, q)
    BY <2>1, <2>2, <2>3, <2>5
  <2>8. \A n \in Left(todo[a]) : n.do \in {"evict", "remove"} \/ n \in Left(q)
    BY <1>3, <2>6
  <2> QED BY <1>3, <2>1, <2>6, <2>7, <2>8, LeavingStep
<1> QED BY <1>4, <1>5

LEMMA RunEvictStep ==
  ASSUME IInv, NEW a \in Actor, RunEvict(a) \/ RunRemove(a)
  PROVE  IInv'
<1>1. PICK m : m = Head(todo[a])
  OBVIOUS
<1>2. /\ todo[a] # <<>> /\ m.do \in {"evict", "remove"}
      /\ UNCHANGED <<world, queue, lost, overtaken>>
  BY <1>1 DEF RunEvict, RunRemove, Resumes
<1>3. m \in Step
  BY <1>1, <1>2, Running
<1>4. m.draft \in Draft
  BY <1>2, <1>3, StepKinds
<1>5. \E to \in SUBSET Socket : Removing(a, m.draft, to)
  <2>1. CASE RunEvict(a)
    <3>1. Removing(a, m.draft, Targets(a, m.user, m.draft))
      BY <1>1, <2>1 DEF RunEvict
    <3>2. Targets(a, m.user, m.draft) \in SUBSET Socket
      BY <1>4 DEF Targets, IInv, ServerTypeOK
    <3> QED BY <3>1, <3>2
  <2>2. CASE RunRemove(a)
    <3>1. Removing(a, m.draft, m.to) /\ m.do = "remove"
      BY <1>1, <2>2 DEF RunRemove, Resumes
    <3>2. m.to \in SUBSET Socket
      BY <1>3, <3>1, StepKinds
    <3> QED BY <3>1, <3>2
  <2> QED BY <2>1, <2>2
<1> QED BY <1>1, <1>2, <1>4, <1>5, RemovingStep

-----------------------------------------------------------------------------
(* The relay and the routes.                                               *)

LEMMA ActorsApart ==
  ASSUME NEW v \in Server
  PROVE  /\ Route(v) \in Actor /\ Route(v) \notin Socket /\ Route(v) \notin Listeners
         /\ Listener(v) \in Actor /\ Listener(v) \notin Socket /\ ServerOf(Listener(v)) = v
<1>1. Route(v) \in {"route", "listen"} \X Server /\ Listener(v) \in {"route", "listen"} \X Server
  BY DEF Route, Listener
<1>2. Route(v) \notin Socket /\ Listener(v) \notin Socket
  BY <1>1, ActorAssumption
<1>3. Route(v) \notin Listeners
  BY DEF Route, Listener, Listeners
<1>4. ServerOf(Listener(v)) = v
  BY <1>2 DEF ServerOf, Listener
<1> QED BY <1>1, <1>2, <1>3, <1>4 DEF Actor

\* A coroutine that is no endpoint is given something to do.
LEMMA CallStep ==
  ASSUME IInv, NEW a \in Actor, a \notin Socket, todo[a] = <<>>, NEW q \in Seq(Step), TodoFits(a, q), Goto(a, q),
         q # <<>> => Head(q).do \notin {"send", "erase"},
         UNCHANGED <<link, maps, shared, lost, crossed, overtaken, live>>,
         access' \in [Draft -> SUBSET User], changes' \in 0..MaxChange, queue' \in [Server -> SUBSET Draft],
         RoomsDue'
  PROVE  IInv'
<1>1. ServerTypeOK /\ MapsAgree
  BY DEF IInv
<1>2. /\ registered' = registered /\ room' = room /\ socketDrafts' = socketDrafts /\ presence' = presence
      /\ link' = link
  BY DEF maps
<1>3. /\ link' \in [Socket -> {"new", "checked", "open", "closed", "done"}]
      /\ presence' \subseteq Draft \X Socket /\ \A p \in presence' : p[2] \in room[p[1]] \cap registered
  BY <1>1, <1>2 DEF ServerTypeOK, MapsAgree
<1>4. \A t \in Socket, d \in Draft : Begins(t, WriteOf(t, d))' /\ t = a => t \in room[d]
  OBVIOUS
<1> QED BY <1>2, <1>3, <1>4, TurnStep

LEMMA RelayStep ==
  ASSUME IInv, NEW v \in Server, Relay(v)
  PROVE  IInv'
<1>1. ServerTypeOK /\ RoomsDue
  BY DEF IInv
<1>2. PICK a : a = Listener(v)
  OBVIOUS
<1>3. a \in Actor /\ a \notin Socket /\ ServerOf(a) = v
  BY <1>2, ActorsApart
<1>4. PICK d \in queue[v] : queue' = [queue EXCEPT ![v] = @ \ {d}] /\ Goto(a, <<Broadcast(d)>>)
  BY <1>2 DEF Relay
<1>5. todo[a] = <<>> /\ UNCHANGED <<world, link, maps, shared, lost, overtaken, crossed>>
  BY <1>2 DEF Relay
<1>6. queue \in [Server -> SUBSET Draft] /\ d \in Draft /\ room \in [Draft -> SUBSET Socket]
  BY <1>1, <1>4 DEF ServerTypeOK
<1>7. PICK m : m = Broadcast(d)
  OBVIOUS
<1>8. m \in Step /\ m.do = "broadcast" /\ m.draft = d
  BY <1>6, <1>7 DEF Broadcast, Step
<1>9. <<m>> \in Seq(Step) /\ TodoFits(a, <<m>>) /\ Head(<<m>>) = m /\ Left(<<m>>) = {m}
  <2>1. m.do \in Own \cup {"write"} => m.socket = a
    BY <1>8 DEF Own
  <2> QED BY <1>8, <2>1, Alone
<1>10. Goto(a, <<m>>)
  BY <1>4, <1>7
<1>11. todo'[a] = <<m>> /\ \A b \in Actor \ {a} : todo'[b] = todo[b]
  <2>1. todo \in [Actor -> Seq(Step)]
    BY <1>1 DEF ServerTypeOK
  <2> QED BY <1>3, <1>9, <1>10, <2>1, GotoIs
<1>12. /\ access' \in [Draft -> SUBSET User] /\ changes' \in 0..MaxChange /\ queue' \in [Server -> SUBSET Draft]
       /\ access' = access /\ live' = live /\ lost' = lost /\ room' = room
  BY <1>1, <1>4, <1>5, <1>6 DEF ServerTypeOK, world, maps
<1>13. RoomsDue'
  <2> SUFFICES ASSUME ~ lost, NEW e \in Draft, NEW t \in room[e], UserOf[t] \notin access[e]
               PROVE  Due(t, e)'
    BY <1>12 DEF RoomsDue
  <2>1. Due(t, e)
    BY <1>1 DEF RoomsDue
  <2>2. CASE \E b \in Actor : \E n \in Left(todo[b]) : Tells(b, n, t, e)
    <3>1. PICK b \in Actor : \E n \in Left(todo[b]) : Tells(b, n, t, e)
      BY <2>2
    <3>2. PICK n \in Left(todo[b]) : Tells(b, n, t, e)
      BY <3>1
    <3>3. b # a
      BY <1>5, <3>2, NoRest
    <3>4. n \in Left(todo'[b])
      BY <1>11, <3>2, <3>3
    <3> QED BY <3>2, <3>4, DueFrom
  <2>3. CASE e \in queue[Home[t]]
    <3>1. CASE Home[t] = v /\ e = d
      <4>1. Tells(a, m, t, e) /\ m \in Left(todo'[a])
        BY <1>3, <1>8, <1>9, <1>11, <3>1 DEF Tells
      <4> QED BY <1>3, <4>1, DueFrom
    <3>2. CASE ~ (Home[t] = v /\ e = d)
      <4>1. Home[t] \in Server
        BY <1>6, HomeAssumption
      <4>2. e \in queue'[Home[t]]
        BY <1>4, <1>6, <2>3, <3>2, <4>1
      <4> QED BY <4>2 DEF Due
    <3> QED BY <3>1, <3>2
  <2> QED BY <2>1, <2>2, <2>3 DEF Due
<1>14. Head(<<m>>).do \notin {"send", "erase"}
  BY <1>8, <1>9
<1>15. UNCHANGED <<link, maps, shared, lost, crossed, overtaken, live>>
  BY <1>5, <1>12
<1> QED BY <1>3, <1>5, <1>9, <1>10, <1>12, <1>13, <1>14, <1>15, CallStep

\* A route is at its first task after the commit; a broadcast of the draft follows.
LEMMA ChangeStep ==
  ASSUME IInv, NEW v \in Server, NEW d \in Draft, NEW q, NEW m \in Step,
         q = <<Broadcast(d)>> \/ (q = <<m, Broadcast(d)>> /\ m.do = "evict"),
         Change(v, q), access' \in [Draft -> SUBSET User],
         \A e \in Draft \ {d} : access'[e] = access[e]
  PROVE  IInv'
<1>1. ServerTypeOK /\ RoomsDue
  BY DEF IInv
<1>2. PICK a : a = Route(v)
  OBVIOUS
<1>3. a \in Actor /\ a \notin Socket /\ a \notin Listeners
  BY <1>2, ActorsApart
<1>4. todo[a] = <<>> /\ changes' \in 0..MaxChange /\ Goto(a, q) /\ UNCHANGED <<live, link, maps, redis, overtaken, crossed>>
  BY <1>1, <1>2, ChangeAssumption DEF Change, ServerTypeOK
<1>5. PICK b : b = Broadcast(d)
  OBVIOUS
<1>6. b \in Step /\ b.do = "broadcast" /\ b.draft = d
  BY <1>5 DEF Broadcast, Step
<1>7. RestFits(a, <<b>>) /\ Left(<<b>>) = {b} /\ <<b>> \in Seq(Step) /\ TodoFits(a, <<b>>) /\ Head(<<b>>) = b
  <2>1. (b.do \in Own \cup {"write"} => b.socket = a) /\ b.do \in {"remove", "broadcast"} \cup Own
    BY <1>6 DEF Own
  <2> QED BY <1>6, <2>1, Alone
<1>8. q \in Seq(Step) /\ TodoFits(a, q) /\ b \in Left(q) /\ Head(q).do \notin {"send", "erase"}
  <2>1. CASE q = <<b>>
    BY <1>6, <1>7, <2>1
  <2>2. CASE q = <<m, b>> /\ m.do = "evict"
    <3>1. (m.do \in Own => <<b>> = <<>>) /\ (m.do \in Own \cup {"write"} => m.socket = a)
      BY <2>2 DEF Own
    <3>2. /\ <<m>> \o <<b>> \in Seq(Step) /\ Head(<<m>> \o <<b>>) = m
          /\ TodoFits(a, <<m>> \o <<b>>) /\ Left(<<m>> \o <<b>>) = {m} \cup Left(<<b>>)
      BY ONLY m \in Step, <1>7, <3>1, Pushed
    <3>3. <<m, b>> = <<m>> \o <<b>>
      OBVIOUS
    <3> QED BY <1>7, <2>2, <3>2, <3>3
  <2> QED BY <1>5, <2>1, <2>2
<1>9. todo'[a] = q /\ \A c \in Actor \ {a} : todo'[c] = todo[c]
  <2>1. todo \in [Actor -> Seq(Step)]
    BY <1>1 DEF ServerTypeOK
  <2> QED BY <1>3, <1>4, <1>8, <2>1, GotoIs
<1>10. queue' = queue /\ lost' = lost /\ room' = room /\ queue' \in [Server -> SUBSET Draft]
       /\ room \in [Draft -> SUBSET Socket]
  BY <1>1, <1>4 DEF redis, maps, ServerTypeOK
<1>11. RoomsDue'
  <2> SUFFICES ASSUME ~ lost, NEW e \in Draft, NEW t \in room[e], UserOf[t] \notin access'[e]
               PROVE  Due(t, e)'
    BY <1>10 DEF RoomsDue
  <2>1. CASE e = d
    <3>1. Tells(a, b, t, e) /\ b \in Left(todo'[a])
      BY <1>3, <1>6, <1>8, <1>9, <2>1 DEF Tells
    <3> QED BY <1>3, <3>1, DueFrom
  <2>2. CASE e # d
    <3>1. Due(t, e)
      BY <1>1, <2>2 DEF RoomsDue
    <3>2. CASE e \in queue[Home[t]]
      BY <1>10, <3>2 DEF Due
    <3>3. CASE \E c \in Actor : \E n \in Left(todo[c]) : Tells(c, n, t, e)
      <4>1. PICK c \in Actor : \E n \in Left(todo[c]) : Tells(c, n, t, e)
        BY <3>3
      <4>2. PICK n \in Left(todo[c]) : Tells(c, n, t, e)
        BY <4>1
      <4>3. c # a
        BY <1>4, <4>2, NoRest
      <4>4. n \in Left(todo'[c])
        BY <1>9, <4>2, <4>3
      <4> QED BY <4>2, <4>4, DueFrom
    <3> QED BY <3>1, <3>2, <3>3 DEF Due
  <2> QED BY <2>1, <2>2
<1>12. UNCHANGED <<link, maps, shared, lost, crossed, overtaken, live>>
  BY <1>4 DEF redis
<1> QED BY <1>3, <1>4, <1>8, <1>10, <1>11, <1>12, CallStep

LEMMA CollaboratorStep ==
  ASSUME IInv, NEW v \in Server, NEW u \in User, NEW d \in Draft,
         RemoveCollaborator(v, u, d) \/ AddCollaborator(v, u, d)
  PROVE  IInv'
<1>1. access \in [Draft -> SUBSET User]
  BY DEF IInv, ServerTypeOK
<1>2. access' \in [Draft -> SUBSET User] /\ \A e \in Draft \ {d} : access'[e] = access[e]
  BY <1>1 DEF RemoveCollaborator, AddCollaborator
<1>3. PICK m : m = Evict(u, d)
  OBVIOUS
<1>4. m \in Step /\ m.do = "evict"
  BY <1>3 DEF Evict, Step
<1>5. Change(v, <<Broadcast(d)>>) \/ Change(v, <<m, Broadcast(d)>>)
  BY <1>3 DEF RemoveCollaborator, AddCollaborator
<1> QED BY <1>2, <1>4, <1>5, ChangeStep

-----------------------------------------------------------------------------
(* Connections, tokens, and failures of Redis.                             *)

\* Every coroutine stays where it is.
LEMMA StillStep ==
  ASSUME IInv, UNCHANGED <<todo, room, presence, access, changes, redis, crossed>>, live' \subseteq Socket, Onward,
         link' \in [Socket -> {"new", "checked", "open", "closed", "done"}],
         registered \subseteq registered', registered' \subseteq {t \in Socket : link'[t] \in {"open", "closed"}},
         socketDrafts' \in [Socket -> (SUBSET Draft) \cup {None}], \A t \in Socket : Drafts(t)' = Drafts(t),
         overtaken' \subseteq {t \in Socket : link'[t] = "checked"},
         LinksFit', ChecksFit'
  PROVE  IInv'
<1>1. ServerTypeOK /\ MapsAgree /\ Todos /\ Sends /\ PresenceFits /\ RoomsDue
  BY DEF IInv
<1>2. /\ todo' = todo /\ room' = room /\ presence' = presence /\ access' = access /\ changes' = changes
      /\ queue' = queue /\ shared' = shared /\ lost' = lost /\ crossed' = crossed
  BY DEF redis
<1>3. ServerTypeOK'
  BY <1>1, <1>2 DEF ServerTypeOK
<1>4. MapsAgree'
  BY <1>1, <1>2 DEF MapsAgree
<1>5. Todos'
  BY <1>1, <1>2 DEF Todos, TodoFits
<1>6. Sends'
  <2> SUFFICES ASSUME NEW b \in Actor, NEW m \in Step, Begins(b, m)'
               PROVE  SendFits(b, m)'
    BY DEF Sends
  <2>1. Begins(b, m)
    BY <1>2 DEF Begins
  <2>2. SendFits(b, m)
    BY <1>1, <2>1 DEF Sends
  <2> QED BY <1>2, <2>2, SendKept
<1>7. PresenceFits'
  BY <1>1, <1>2 DEF PresenceFits, PresenceFit, Begins, WriteOf, EraseOf
<1>8. RoomsDue'
  BY <1>1, <1>2 DEF RoomsDue, Due, Tells
<1> QED BY <1>3, <1>4, <1>5, <1>6, <1>7, <1>8 DEF IInv

LEMMA CheckStep ==
  ASSUME IInv, NEW s \in Socket, Check(s)
  PROVE  IInv'
<1>1. ServerTypeOK /\ LinksFit /\ ChecksFit
  BY DEF IInv
<1>2. /\ link[s] = "new" /\ link \in [Socket -> {"new", "checked", "open", "closed", "done"}]
      /\ link' = [link EXCEPT ![s] = IF s \in live /\ CanConnect(s) THEN "checked" ELSE "done"]
      /\ UNCHANGED <<world, maps, todo, redis, overtaken, crossed>>
  BY <1>1 DEF Check, ServerTypeOK
<1>3. /\ registered' = registered /\ room' = room /\ socketDrafts' = socketDrafts /\ presence' = presence
      /\ access' = access /\ live' = live /\ changes' = changes /\ todo' = todo
      /\ lost' = lost /\ overtaken' = overtaken /\ crossed' = crossed
  BY <1>2 DEF world, maps, redis
<1>4. /\ link' \in [Socket -> {"new", "checked", "open", "closed", "done"}]
      /\ link'[s] \in {"checked", "done"} /\ (link'[s] = "checked" => CanConnect(s))
      /\ \A t \in Socket \ {s} : link'[t] = link[t]
  BY <1>2
<1>5. \A t \in Socket : Drafts(t)' = Drafts(t)
  BY <1>3 DEF Drafts
<1>6. LinksFit'
  <2> SUFFICES ASSUME NEW t \in Socket
               PROVE  /\ link'[t] \in {"new", "checked", "done"} =>
                            t \notin registered /\ Drafts(t) = {} /\ todo[t] = <<>>
                      /\ link'[t] = "open" => t \in registered
                      /\ ~ lost /\ link'[t] = "closed" /\ t \notin registered => t \in crossed
    BY <1>3, <1>5 DEF LinksFit
  <2>1. CASE t = s
    BY <1>1, <1>2, <1>4, <2>1 DEF LinksFit
  <2>2. CASE t # s
    BY <1>1, <1>4, <2>2 DEF LinksFit
  <2> QED BY <2>1, <2>2
<1>7. ChecksFit'
  <2>1. \A t \in Socket : CanConnect(t)' <=> CanConnect(t)
    BY <1>3 DEF CanConnect, Connections
  <2>2. \A t \in Socket : link'[t] = "checked" => t = s \/ link[t] = "checked"
    BY <1>4
  <2> QED BY <1>1, <1>3, <1>4, <2>1, <2>2 DEF ChecksFit
<1>8. Onward
  BY <1>2, <1>4 DEF Onward
<1>9. /\ registered' \subseteq {t \in Socket : link'[t] \in {"open", "closed"}}
      /\ overtaken' \subseteq {t \in Socket : link'[t] = "checked"}
      /\ socketDrafts' \in [Socket -> (SUBSET Draft) \cup {None}] /\ live' \subseteq Socket
  BY <1>1, <1>2, <1>3, <1>4 DEF ServerTypeOK
<1>10. UNCHANGED <<todo, room, presence, access, changes, redis, crossed>> /\ registered \subseteq registered'
  BY <1>2, <1>3
<1> QED BY <1>4, <1>5, <1>6, <1>7, <1>8, <1>9, <1>10, StillStep

LEMMA AcceptStep ==
  ASSUME IInv, NEW s \in Socket, Accept(s)
  PROVE  IInv'
<1>1. ServerTypeOK /\ LinksFit /\ ChecksFit
  BY DEF IInv
<1>2. /\ link[s] = "checked" /\ link \in [Socket -> {"new", "checked", "open", "closed", "done"}]
      /\ link' = [link EXCEPT ![s] = "open"]
      /\ registered' = registered \cup {s}
      /\ socketDrafts' = [socketDrafts EXCEPT ![s] = {}]
      /\ overtaken' = (overtaken \cup {t \in At(Home[s]) : link[t] = "checked"}) \ {s}
      /\ UNCHANGED <<world, room, presence, todo, redis, crossed>>
  BY <1>1 DEF Accept, ServerTypeOK
<1>3. /\ access' = access /\ live' = live /\ changes' = changes /\ lost' = lost
  BY <1>2 DEF world, redis
<1>4. /\ link' \in [Socket -> {"new", "checked", "open", "closed", "done"}]
      /\ link'[s] = "open" /\ \A t \in Socket \ {s} : link'[t] = link[t]
  BY <1>2
<1>5. Drafts(s) = {} /\ s \notin registered
  BY <1>1, <1>2 DEF LinksFit
<1>6. /\ socketDrafts' \in [Socket -> (SUBSET Draft) \cup {None}]
      /\ \A t \in Socket : Drafts(t)' = Drafts(t)
  <2>1. socketDrafts \in [Socket -> (SUBSET Draft) \cup {None}]
    BY <1>1 DEF ServerTypeOK
  <2>2. Drafts(s)' = {}
    BY <1>2, <2>1 DEF Drafts
  <2> QED BY <1>2, <1>5, <2>1, <2>2 DEF Drafts
<1>7. LinksFit'
  <2> SUFFICES ASSUME NEW t \in Socket
               PROVE  /\ link'[t] \in {"new", "checked", "done"} =>
                            t \notin registered' /\ Drafts(t) = {} /\ todo[t] = <<>>
                      /\ link'[t] = "open" => t \in registered'
                      /\ ~ lost /\ link'[t] = "closed" /\ t \notin registered' => t \in crossed
    BY <1>2, <1>3, <1>6 DEF LinksFit
  <2>1. CASE t = s
    BY <1>2, <1>4, <2>1
  <2>2. CASE t # s
    BY <1>1, <1>2, <1>4, <2>2 DEF LinksFit
  <2> QED BY <2>1, <2>2
<1>8. ChecksFit'
  <2>1. IsFiniteSet(registered')
    BY <1>1, <1>2, FS_AddElement DEF ChecksFit
  <2>2. ASSUME NEW t \in Socket, link'[t] = "checked", t \notin overtaken'
        PROVE  CanConnect(t)'
    <3>1. t # s /\ link[t] = "checked" /\ t \notin overtaken /\ t \notin At(Home[s])
      BY <1>2, <1>4, <2>2
    <3>2. s \notin At(Home[t])
      BY <3>1 DEF At
    <3>3. registered' \cap At(Home[t]) = registered \cap At(Home[t])
      BY <1>2, <3>2
    <3>4. CanConnect(t)
      BY <1>1, <3>1 DEF ChecksFit
    <3> QED BY <3>3, <3>4 DEF CanConnect, Connections
  <2> QED BY <2>1, <2>2 DEF ChecksFit
<1>9. Onward
  BY <1>2, <1>4 DEF Onward
<1>10. /\ registered' \subseteq {t \in Socket : link'[t] \in {"open", "closed"}}
       /\ overtaken' \subseteq {t \in Socket : link'[t] = "checked"} /\ live' \subseteq Socket
  BY <1>1, <1>2, <1>3, <1>4 DEF ServerTypeOK, At
<1>11. UNCHANGED <<todo, room, presence, access, changes, redis, crossed>> /\ registered \subseteq registered'
  BY <1>2, <1>3
<1> QED BY <1>4, <1>6, <1>7, <1>8, <1>9, <1>10, <1>11, StillStep

LEMMA HangupStep ==
  ASSUME IInv, NEW s \in Socket, Hangup(s)
  PROVE  IInv'
<1>1. ServerTypeOK /\ LinksFit /\ ChecksFit
  BY DEF IInv
<1>2. /\ link[s] \in {"checked", "open"} /\ link \in [Socket -> {"new", "checked", "open", "closed", "done"}]
      /\ link' = [link EXCEPT ![s] = IF @ = "open" THEN "closed" ELSE "done"]
      /\ overtaken' = overtaken \ {s}
      /\ UNCHANGED <<world, maps, todo, redis, crossed>>
  BY <1>1 DEF Hangup, ServerTypeOK
<1>3. /\ registered' = registered /\ room' = room /\ socketDrafts' = socketDrafts /\ presence' = presence
      /\ access' = access /\ live' = live /\ changes' = changes /\ todo' = todo
      /\ lost' = lost /\ crossed' = crossed
  BY <1>2 DEF world, maps, redis
<1>4. /\ link' \in [Socket -> {"new", "checked", "open", "closed", "done"}]
      /\ link[s] = "open" => link'[s] = "closed"
      /\ link[s] = "checked" => link'[s] = "done"
      /\ \A t \in Socket \ {s} : link'[t] = link[t]
  BY <1>2
<1>5. \A t \in Socket : Drafts(t)' = Drafts(t)
  BY <1>3 DEF Drafts
<1>6. LinksFit'
  <2> SUFFICES ASSUME NEW t \in Socket
               PROVE  /\ link'[t] \in {"new", "checked", "done"} =>
                            t \notin registered /\ Drafts(t) = {} /\ todo[t] = <<>>
                      /\ link'[t] = "open" => t \in registered
                      /\ ~ lost /\ link'[t] = "closed" /\ t \notin registered => t \in crossed
    BY <1>3, <1>5 DEF LinksFit
  <2>1. CASE t = s
    BY <1>1, <1>2, <1>4, <2>1 DEF LinksFit
  <2>2. CASE t # s
    BY <1>1, <1>4, <2>2 DEF LinksFit
  <2> QED BY <2>1, <2>2
<1>7. ChecksFit'
  <2>1. \A t \in Socket : link'[t] = "checked" => t # s /\ link[t] = "checked"
    BY <1>2, <1>4
  <2> QED BY <1>1, <1>2, <1>3, <2>1, ChecksKept
<1>8. Onward
  BY <1>2, <1>4 DEF Onward
<1>9. /\ registered' \subseteq {t \in Socket : link'[t] \in {"open", "closed"}}
      /\ overtaken' \subseteq {t \in Socket : link'[t] = "checked"}
      /\ socketDrafts' \in [Socket -> (SUBSET Draft) \cup {None}] /\ live' \subseteq Socket
  BY <1>1, <1>2, <1>3, <1>4 DEF ServerTypeOK
<1>10. UNCHANGED <<todo, room, presence, access, changes, redis, crossed>> /\ registered \subseteq registered'
  BY <1>2, <1>3
<1> QED BY <1>4, <1>5, <1>6, <1>7, <1>8, <1>9, <1>10, StillStep

LEMMA LogoutStep ==
  ASSUME IInv, NEW s \in Socket, Logout(s)
  PROVE  IInv'
<1>1. ServerTypeOK /\ LinksFit /\ ChecksFit
  BY DEF IInv
<1>2. live' = live \ {s} /\ UNCHANGED <<access, changes, link, maps, todo, redis, overtaken, crossed>>
  BY DEF Logout
<1>3. /\ registered' = registered /\ room' = room /\ socketDrafts' = socketDrafts /\ presence' = presence
      /\ todo' = todo /\ link' = link /\ lost' = lost /\ overtaken' = overtaken /\ crossed' = crossed
  BY <1>2 DEF maps, redis
<1>4. \A t \in Socket : Drafts(t)' = Drafts(t)
  BY <1>3 DEF Drafts
<1>5. LinksFit'
  BY <1>1, <1>3, <1>4 DEF LinksFit
<1>6. ChecksFit'
  BY <1>1, <1>3, ChecksKept
<1>7. Onward
  BY <1>3 DEF Onward
<1>8. UNCHANGED <<todo, room, presence, access, changes, redis, crossed>>
  BY <1>2, <1>3
<1>9. live' \subseteq Socket
  BY <1>1, <1>2 DEF ServerTypeOK
<1>10. /\ link' \in [Socket -> {"new", "checked", "open", "closed", "done"}]
       /\ registered \subseteq registered'
       /\ registered' \subseteq {t \in Socket : link'[t] \in {"open", "closed"}}
       /\ overtaken' \subseteq {t \in Socket : link'[t] = "checked"}
       /\ socketDrafts' \in [Socket -> (SUBSET Draft) \cup {None}]
  BY <1>1, <1>3 DEF ServerTypeOK
<1> QED BY <1>4, <1>5, <1>6, <1>7, <1>8, <1>9, <1>10, StillStep

LEMMA RedisForgetsStep ==
  ASSUME IInv, RedisForgets
  PROVE  IInv'
<1>1. ServerTypeOK /\ MapsAgree /\ Todos /\ LinksFit /\ Sends /\ ChecksFit
  BY DEF IInv
<1>2. lost' = TRUE /\ Keep({}, {}) /\ UNCHANGED <<world, link, maps, todo, queue, overtaken>>
  BY DEF RedisForgets
<1>3. shared' = {} /\ crossed' = {}
  BY <1>2 DEF Keep
<1>4. /\ registered' = registered /\ room' = room /\ socketDrafts' = socketDrafts /\ presence' = presence
      /\ access' = access /\ live' = live /\ changes' = changes /\ todo' = todo /\ link' = link
      /\ queue' = queue /\ overtaken' = overtaken
  BY <1>2 DEF world, maps
<1>5. ServerTypeOK'
  BY <1>1, <1>2, <1>3, <1>4 DEF ServerTypeOK
<1>6. MapsAgree' /\ Todos' /\ LinksFit'
  BY <1>1, <1>2, <1>4 DEF MapsAgree, Drafts, Todos, TodoFits, LinksFit
<1>7. Sends'
  <2> SUFFICES ASSUME NEW b \in Actor, NEW m \in Step, Begins(b, m)'
               PROVE  SendFits(b, m)'
    BY DEF Sends
  <2>1. SendFits(b, m)
    BY <1>1, <1>4 DEF Begins, Sends
  <2>2. Onward
    BY <1>4 DEF Onward
  <2> QED BY <1>2, <2>1, <2>2, SendKept
<1>8. PresenceFits' /\ RoomsDue'
  BY <1>2 DEF PresenceFits, RoomsDue
<1>9. ChecksFit'
  BY <1>1, <1>4, ChecksKept
<1> QED BY <1>5, <1>6, <1>7, <1>8, <1>9 DEF IInv

LEMMA IdleStep ==
  ASSUME IInv, UNCHANGED vars
  PROVE  IInv'
<1>1. ServerTypeOK /\ LinksFit /\ ChecksFit
  BY DEF IInv
<1>2. /\ registered' = registered /\ room' = room /\ socketDrafts' = socketDrafts /\ presence' = presence
      /\ access' = access /\ live' = live /\ changes' = changes /\ todo' = todo /\ link' = link
      /\ queue' = queue /\ shared' = shared /\ lost' = lost /\ overtaken' = overtaken /\ crossed' = crossed
  BY DEF vars, world, maps, redis
<1>3. \A t \in Socket : Drafts(t)' = Drafts(t)
  BY <1>2 DEF Drafts
<1>4. LinksFit'
  BY <1>1, <1>2, <1>3 DEF LinksFit
<1>5. ChecksFit'
  BY <1>1, <1>2, ChecksKept
<1>6. Onward
  BY <1>2 DEF Onward
<1>7. /\ UNCHANGED <<todo, room, presence, access, changes, redis, crossed>>
      /\ live' \subseteq Socket /\ registered \subseteq registered'
      /\ link' \in [Socket -> {"new", "checked", "open", "closed", "done"}]
      /\ registered' \subseteq {t \in Socket : link'[t] \in {"open", "closed"}}
      /\ overtaken' \subseteq {t \in Socket : link'[t] = "checked"}
      /\ socketDrafts' \in [Socket -> (SUBSET Draft) \cup {None}]
  <2>1. UNCHANGED redis
    BY DEF vars
  <2> QED BY <1>1, <1>2, <2>1 DEF ServerTypeOK
<1> QED BY <1>3, <1>4, <1>5, <1>6, <1>7, StillStep

-----------------------------------------------------------------------------
(* The invariant.                                                          *)

LEMMA InitInv == Init => IInv
<1> SUFFICES ASSUME Init
             PROVE  IInv
  OBVIOUS
<1>1. /\ access \in [Draft -> SUBSET User] /\ live = Socket /\ changes = 0
      /\ link = [s \in Socket |-> "new"] /\ registered = {} /\ room = [d \in Draft |-> {}]
      /\ socketDrafts = [s \in Socket |-> None] /\ presence = {} /\ shared = {}
      /\ todo = [a \in Actor |-> <<>>] /\ queue = [v \in Server |-> {}] /\ lost = FALSE
      /\ overtaken = {} /\ crossed = {}
  BY DEF Init
<1>2. \A s \in Socket : Drafts(s) = {} /\ link[s] = "new" /\ s \in Actor /\ todo[s] = <<>>
  BY <1>1 DEF Drafts, Actor
<1>3. ServerTypeOK
  <2>1. <<>> \in Seq(Step) /\ todo \in [Actor -> Seq(Step)]
    BY <1>1
  <2>2. changes \in 0..MaxChange
    BY <1>1, ChangeAssumption
  <2> QED BY <1>1, <2>1, <2>2 DEF ServerTypeOK
<1>4. MapsAgree
  BY <1>1, <1>2 DEF MapsAgree
<1>5. Todos
  BY <1>1, NoRest DEF Todos
<1>6. LinksFit
  BY <1>1, <1>2 DEF LinksFit
<1>7. Sends
  BY <1>1 DEF Sends, Begins
<1>8. PresenceFits
  BY <1>1, <1>2 DEF PresenceFits, PresenceFit, Begins
<1>9. RoomsDue
  BY <1>1 DEF RoomsDue
<1>10. ChecksFit
  BY <1>1, <1>2, FS_EmptySet DEF ChecksFit
<1> QED BY <1>3, <1>4, <1>5, <1>6, <1>7, <1>8, <1>9, <1>10 DEF IInv

LEMMA SocketStep ==
  ASSUME IInv, NEW s \in Socket, Check(s) \/ Accept(s) \/ Hangup(s) \/ Serve(s) \/ Logout(s)
  PROVE  IInv'
<1>1. CASE Check(s)
  BY <1>1, CheckStep
<1>2. CASE Accept(s)
  BY <1>2, AcceptStep
<1>3. CASE Hangup(s)
  BY <1>3, HangupStep
<1>4. CASE Logout(s)
  BY <1>4, LogoutStep
<1>5. CASE Serve(s)
  <2>1. CASE Reject(s)
    BY <2>1, RejectStep
  <2>2. CASE Hear(s)
    BY <2>2, HearStep
  <2>3. ASSUME NEW d \in Draft, Subscribe(s, d)
        PROVE  IInv'
    BY <2>3, SubscribeStep
  <2>4. ASSUME NEW d \in Draft, Unsubscribe(s, d)
        PROVE  IInv'
    BY <2>4, UnsubscribeStep
  <2>5. ASSUME NEW d \in Draft, Update(s, d)
        PROVE  IInv'
    BY <2>5, UpdateStep
  <2> QED BY <1>5, <2>1, <2>2, <2>3, <2>4, <2>5 DEF Serve
<1> QED BY <1>1, <1>2, <1>3, <1>4, <1>5

LEMMA RunStep ==
  ASSUME IInv, NEW a \in Actor, Run(a)
  PROVE  IInv'
<1>1. CASE RunEnter(a)
  BY <1>1, RunEnterStep
<1>2. CASE RunBroadcast(a)
  BY <1>2, RunBroadcastStep
<1>3. CASE RunSend(a)
  BY <1>3, RunSendStep
<1>4. CASE RunEvict(a) \/ RunRemove(a)
  BY <1>4, RunEvictStep
<1>5. CASE RunClose(a)
  BY <1>5, RunCloseStep
<1>6. CASE RunEnd(a)
  BY <1>6, RunEndStep
<1> QED BY <1>1, <1>2, <1>3, <1>4, <1>5, <1>6 DEF Run

LEMMA NextInv == IInv /\ [Next]_vars => IInv'
<1> SUFFICES ASSUME IInv, [Next]_vars
             PROVE  IInv'
  OBVIOUS
<1>1. ASSUME NEW s \in Socket, Check(s) \/ Accept(s) \/ Hangup(s) \/ Serve(s) \/ Logout(s)
      PROVE  IInv'
  BY <1>1, SocketStep
<1>2. ASSUME NEW a \in Actor, Run(a)
      PROVE  IInv'
  BY <1>2, RunStep
<1>3. ASSUME NEW v \in Server, Relay(v)
      PROVE  IInv'
  BY <1>3, RelayStep
<1>4. CASE RedisForgets
  BY <1>4, RedisForgetsStep
<1>5. ASSUME NEW v \in Server, NEW u \in User, NEW d \in Draft,
             RemoveCollaborator(v, u, d) \/ AddCollaborator(v, u, d)
      PROVE  IInv'
  BY <1>5, CollaboratorStep
<1>6. CASE UNCHANGED vars
  BY <1>6, IdleStep
<1> QED BY <1>1, <1>2, <1>3, <1>4, <1>5, <1>6 DEF Next

\* In every behaviour a coroutine's own step is its last, registered sockets are
\* those whose endpoint runs, the entries in Redis are those of the rooms but for the
\* command in flight, and whoever lost a draft is about to leave its room
\* (services/realtime.py, routes/websocket.py).
THEOREM Invariance == Spec => []IInv
<1>1. Init => IInv
  BY InitInv
<1>2. IInv /\ [Next]_vars => IInv'
  BY NextInv
<1> QED BY <1>1, <1>2, PTL DEF Spec

-----------------------------------------------------------------------------
(* The session keys.                                                       *)

\* A socket is in one room at most, and in none before it enters the next.
OneRoom ==
    \A s \in Socket : /\ \A d, e \in Drafts(s) : d = e
                      /\ \A m \in Left(todo[s]) : m.do = "enter" => Drafts(s) = {}

\* A socket in a room has its session key or is about to write it, and its endpoint
\* removes the key of a socket in no room, unless the client has strayed.
KeyFit(s) ==
    /\ Drafts(s) # {} => s \in sessions \cup strayed \/ \E d \in Draft : Begins(s, WriteOf(s, d))
    /\ \A d \in Draft : Begins(s, EraseOf(s, d)) => Drafts(s) = {} \/ s \in strayed

KeysFit == ~lost => \A s \in Socket \ crossed : KeyFit(s)

KeyInv == /\ sessions \subseteq Socket /\ strayed \subseteq Socket
          /\ OneRoom /\ KeysFit

LEMMA OneRoomKept ==
  ASSUME OneRoom, \A t \in Socket : Drafts(t)' \subseteq Drafts(t),
         \A t \in Socket : \A m \in Left(todo'[t]) : m.do = "enter" => m \in Left(todo[t]) \/ Drafts(t)' = {}
  PROVE  OneRoom'
<1> SUFFICES ASSUME NEW t \in Socket
             PROVE  /\ \A d, e \in Drafts(t)' : d = e
                    /\ \A m \in Left(todo'[t]) : m.do = "enter" => Drafts(t)' = {}
  BY DEF OneRoom, Left
<1>1. /\ \A d, e \in Drafts(t) : d = e
      /\ \A m \in Left(todo[t]) : m.do = "enter" => Drafts(t) = {}
  BY DEF OneRoom
<1> QED BY <1>1

\* What others do to a socket leaves its key as it is.
LEMMA KeyKept ==
  ASSUME NEW t \in Socket, KeyFit(t), Drafts(t)' \subseteq Drafts(t), todo'[t] = todo[t],
         t \in sessions => t \in sessions', t \in strayed => t \in strayed' \/ Drafts(t)' = {}
  PROVE  KeyFit(t)'
<1>1. ASSUME NEW d \in Draft
      PROVE  /\ Begins(t, WriteOf(t, d))' <=> Begins(t, WriteOf(t, d))
             /\ Begins(t, EraseOf(t, d))' <=> Begins(t, EraseOf(t, d))
  BY DEF Begins, WriteOf, EraseOf
<1>2. Drafts(t)' # {} => t \in sessions' \cup strayed' \/ \E d \in Draft : Begins(t, WriteOf(t, d))'
  BY <1>1 DEF KeyFit
<1>3. \A d \in Draft : Begins(t, EraseOf(t, d))' => Drafts(t)' = {} \/ t \in strayed'
  BY <1>1 DEF KeyFit
<1> QED BY <1>2, <1>3 DEF KeyFit

\* A step that removes no key and begins no removal.
LEMMA KeyOf ==
  ASSUME NEW t \in Socket,
         \/ Drafts(t)' = {}
         \/ t \in strayed'
         \/ t \in sessions' /\ \A d \in Draft : ~Begins(t, EraseOf(t, d))'
         \/ \E d \in Draft : Begins(t, WriteOf(t, d))'
  PROVE  KeyFit(t)'
<1>1. ASSUME NEW d \in Draft, Begins(t, WriteOf(t, d))', NEW e \in Draft
      PROVE  ~Begins(t, EraseOf(t, e))'
  BY <1>1 DEF Begins, WriteOf, EraseOf
<1> QED BY <1>1 DEF KeyFit

\* The key of a socket in a room whose endpoint awaits no command for it.
LEMMA KeyThere ==
  ASSUME NEW t \in Socket, KeyFit(t), Drafts(t) # {}, todo[t] = <<>> \/ Head(todo[t]).do \notin {"write", "erase"}
  PROVE  t \in sessions \cup strayed
<1>1. \A d \in Draft : ~Begins(t, WriteOf(t, d))
  BY OtherHead
<1> QED BY <1>1 DEF KeyFit

\* A step of the endpoint of s that writes and removes no key.
LEMMA OwnKeysKept ==
  ASSUME KeyInv, NEW s \in Socket, lost' = lost, crossed' = crossed, sessions' = sessions,
         strayed \subseteq strayed', strayed' \subseteq Socket,
         \A t \in Socket \ {s} : Drafts(t)' \subseteq Drafts(t) /\ todo'[t] = todo[t],
         OneRoom', ~lost /\ s \notin crossed => KeyFit(s)'
  PROVE  KeyInv'
<1>1. ASSUME ~lost', NEW t \in Socket \ crossed'
      PROVE  KeyFit(t)'
  <2>1. CASE t = s
    BY <1>1, <2>1
  <2>2. CASE t # s
    <3>1. KeyFit(t)
      BY <1>1 DEF KeyInv, KeysFit
    <3> QED BY <2>2, <3>1, KeyKept
  <2> QED BY <2>1, <2>2
<1>2. KeysFit'
  <2> SUFFICES ASSUME ~lost', NEW t \in Socket \ crossed'
               PROVE  KeyFit(t)'
    BY DEF KeysFit, KeyFit
  <2> QED BY <1>1
<1> QED BY <1>2 DEF KeyInv

\* unsubscribe_draft by the endpoint: no room is left, or the client has strayed.
LEMMA LeavingKeys ==
  ASSUME IInv, KeyInv, NEW s \in Socket, NEW d \in Draft, NEW rest, RestFits(s, rest), Leaving(s, s, d, rest),
         lost' = lost, crossed' = crossed, sessions' = sessions, strayed \subseteq strayed', strayed' \subseteq Socket,
         \A m \in Left(rest) : m.do = "enter" => Drafts(s) \subseteq {d},
         lost \/ Drafts(s) \subseteq {d} \/ s \in strayed'
  PROVE  KeyInv'
<1>1. ServerTypeOK /\ MapsAgree /\ s \in Actor /\ OneRoom
  BY DEF IInv, Actor, KeyInv
<1>2. /\ Drafts(s)' \subseteq Drafts(s) /\ \A t \in Socket \ {s} : Drafts(t)' = Drafts(t)
  BY <1>1, LeavingMaps
<1>3. Drafts(s)' = Drafts(s) \ {d}
  <2>1. socketDrafts \in [Socket -> (SUBSET Draft) \cup {None}]
    BY <1>1 DEF ServerTypeOK
  <2>2. socketDrafts' = [socketDrafts EXCEPT ![s] = Drafts(s) \ {d}]
    BY DEF Leaving
  <2>3. socketDrafts'[s] = Drafts(s) \ {d} /\ socketDrafts' \in [Socket -> (SUBSET Draft) \cup {None}]
    BY <2>1, <2>2, DraftsIs
  <2>4. socketDrafts'[s] \in SUBSET Draft
    BY <2>1, <2>3, DraftsIs
  <2>5. socketDrafts'[s] # None
    BY <2>4, NoneAssumption
  <2> QED BY <2>3, <2>5 DEF Drafts
<1>4. PICK m : m = IF s \in registered THEN EraseOf(s, d) ELSE Broadcast(d)
  OBVIOUS
<1>5. m \in Step /\ m.do \in {"erase", "broadcast"}
  BY <1>4, MadeSteps
<1>6. <<m>> \o rest \in Seq(Step) /\ Left(<<m>> \o rest) = {m} \cup Left(rest)
  <2>1. (m.do \in Own => rest = <<>>) /\ (m.do \in Own \cup {"write"} => m.socket = s)
    BY <1>5 DEF Own
  <2> QED BY ONLY RestFits(s, rest), <1>5, <2>1, Pushed
<1>7. todo'[s] = <<m>> \o rest /\ \A b \in Actor \ {s} : todo'[b] = todo[b]
  <2>1. todo \in [Actor -> Seq(Step)] /\ Goto(s, <<m>> \o rest)
    BY <1>1, <1>4 DEF ServerTypeOK, Leaving
  <2> QED BY <1>1, <1>6, <2>1, GotoIs
<1>8. \A t \in Socket \ {s} : Drafts(t)' = Drafts(t) /\ todo'[t] = todo[t]
  BY <1>2, <1>7 DEF Actor
<1>9. OneRoom'
  <2>1. \A n \in Left(todo'[s]) : n.do = "enter" => Drafts(s)' = {}
    BY <1>3, <1>5, <1>6, <1>7
  <2>2. \A t \in Socket : \A n \in Left(todo'[t]) : n.do = "enter" => n \in Left(todo[t]) \/ Drafts(t)' = {}
    BY <1>8, <2>1
  <2> QED BY <1>1, <1>2, <1>8, <2>2, OneRoomKept
<1>10. ~lost => KeyFit(s)'
  <2>1. ~lost => Drafts(s)' = {} \/ s \in strayed'
    BY <1>3
  <2> QED BY <2>1, KeyOf
<1> QED BY <1>8, <1>9, <1>10, OwnKeysKept

\* subscribe_draft without another room.
LEMMA EnteringKeys ==
  ASSUME IInv, KeyInv, NEW s \in Socket, NEW d \in Draft, Entering(s, d), Drafts(s) \subseteq {d},
         link[s] \in {"open", "closed"}, UNCHANGED <<redis, crossed>>
  PROVE  KeyInv'
<1>1. ServerTypeOK /\ MapsAgree /\ LinksFit /\ s \in Actor /\ OneRoom
  BY DEF IInv, Actor, KeyInv
<1>2. lost' = lost /\ crossed' = crossed /\ sessions' = sessions /\ strayed' = strayed /\ strayed \subseteq Socket
  BY DEF redis, KeyInv
<1>3. \A t \in Socket \ {s} : Drafts(t)' = Drafts(t)
  BY <1>1, EnteringMaps
<1>4. Drafts(s)' \subseteq {d}
  <2>1. socketDrafts \in [Socket -> (SUBSET Draft) \cup {None}]
    BY <1>1 DEF ServerTypeOK
  <2>2. socketDrafts'[s] = Drafts(s) \cup {d}
    BY <2>1 DEF Entering
  <2>3. socketDrafts'[s] \subseteq {d}
    BY <2>2
  <2> QED BY <2>3 DEF Drafts
<1>5. PICK m : m = IF s \in registered THEN WriteOf(s, d) ELSE EndOf(s)
  OBVIOUS
<1>6. m \in Step /\ m.do \in {"write", "end"} /\ m.socket = s
  BY <1>5, MadeSteps
<1>7. <<m>> \in Seq(Step) /\ <<m>> # <<>> /\ Head(<<m>>) = m /\ Left(<<m>>) = {m}
  BY <1>6, Alone
<1>8. todo'[s] = <<m>> /\ \A b \in Actor \ {s} : todo'[b] = todo[b]
  <2>1. todo \in [Actor -> Seq(Step)] /\ Goto(s, <<m>>)
    BY <1>1, <1>5 DEF ServerTypeOK, Entering
  <2> QED BY <1>1, <1>7, <2>1, GotoIs
<1>9. \A t \in Socket \ {s} : Drafts(t)' = Drafts(t) /\ todo'[t] = todo[t]
  BY <1>3, <1>8 DEF Actor
<1>10. OneRoom'
  <2> SUFFICES ASSUME NEW t \in Socket
               PROVE  /\ \A e, f \in Drafts(t)' : e = f
                      /\ \A n \in Left(todo'[t]) : n.do = "enter" => Drafts(t)' = {}
    BY DEF OneRoom, Left
  <2>1. CASE t = s
    BY <1>4, <1>6, <1>7, <1>8, <2>1
  <2>2. CASE t # s
    BY <1>1, <1>9, <2>2 DEF OneRoom
  <2> QED BY <2>1, <2>2
<1>11. ~lost /\ s \notin crossed => KeyFit(s)'
  <2>1. ~lost /\ s \notin crossed => s \in registered
    BY <1>1 DEF LinksFit
  <2>2. s \in registered => Begins(s, WriteOf(s, d))'
    <3>1. s \in registered => m = WriteOf(s, d)
      BY <1>5
    <3> QED BY <1>7, <1>8, <3>1 DEF Begins, WriteOf
  <2> QED BY <2>1, <2>2, KeyOf
<1> QED BY <1>2, <1>9, <1>10, <1>11, OwnKeysKept

\* The finally of the endpoint.
LEMMA EndingKeys ==
  ASSUME IInv, KeyInv, NEW s \in Socket, Ending(s), UNCHANGED <<redis, crossed>>
  PROVE  KeyInv'
<1>1. ServerTypeOK /\ MapsAgree /\ s \in Actor /\ OneRoom
  BY DEF IInv, Actor, KeyInv
<1>2. lost' = lost /\ crossed' = crossed /\ sessions' = sessions /\ strayed' = strayed /\ strayed \subseteq Socket
  BY DEF redis, KeyInv
<1>3. CASE \E d \in Drafts(s) : Leaving(s, s, d, <<EndOf(s)>>)
  <2>1. PICK d \in Drafts(s) : Leaving(s, s, d, <<EndOf(s)>>)
    BY <1>3
  <2>2. d \in Draft
    BY <1>1, DraftsIs DEF ServerTypeOK
  <2>3. Drafts(s) \subseteq {d}
    BY <1>1 DEF OneRoom
  <2>4. EndOf(s) \in Step /\ EndOf(s).do = "end" /\ EndOf(s).socket = s
    BY <2>2, MadeSteps
  <2>5. RestFits(s, <<EndOf(s)>>)
    BY <2>4, Alone DEF Own
  <2> QED BY <1>2, <2>1, <2>2, <2>3, <2>5, LeavingKeys
<1>4. CASE Disconnect({s}) /\ Goto(s, <<>>)
  <2>1. Drafts(s)' = {} /\ \A t \in Socket \ {s} : Drafts(t)' = Drafts(t)
    BY <1>1, <1>4, DisconnectMaps
  <2>2. todo'[s] = <<>> /\ \A b \in Actor \ {s} : todo'[b] = todo[b]
    <3>1. todo \in [Actor -> Seq(Step)]
      BY <1>1 DEF ServerTypeOK
    <3> QED BY <1>1, <1>4, <3>1 DEF Goto
  <2>3. \A t \in Socket \ {s} : Drafts(t)' = Drafts(t) /\ todo'[t] = todo[t]
    BY <2>1, <2>2 DEF Actor
  <2>4. OneRoom'
    BY <1>1, <2>1, <2>3, OneRoomKept
  <2>5. KeyFit(s)'
    BY <2>1, KeyOf
  <2> QED BY <1>2, <2>3, <2>4, <2>5, OwnKeysKept
<1> QED BY <1>3, <1>4 DEF Ending

\* What touches no room and starts no step that removes a key.
LEMMA StillKeys ==
  ASSUME IInv, KeyInv, UNCHANGED <<sessions, strayed, lost, crossed>>,
         \A t \in Socket : Drafts(t)' \subseteq Drafts(t),
         \A t \in Socket : \/ todo'[t] = todo[t]
                           \/ /\ todo'[t] # <<>> => Head(todo'[t]).do # "erase"
                              /\ \A m \in Left(todo'[t]) : m.do # "enter"
                              /\ todo[t] = <<>> \/ Head(todo[t]).do \notin {"write", "erase"}
  PROVE  KeyInv'
<1>1. lost' = lost /\ crossed' = crossed /\ sessions' = sessions /\ strayed' = strayed
  OBVIOUS
<1>2. OneRoom /\ KeysFit /\ sessions \subseteq Socket /\ strayed \subseteq Socket
  BY DEF KeyInv
<1>3. OneRoom'
  BY <1>2, OneRoomKept
<1>4. ASSUME ~lost', NEW t \in Socket \ crossed'
      PROVE  KeyFit(t)'
  <2>1. KeyFit(t)
    BY <1>1, <1>2, <1>4 DEF KeysFit
  <2>2. CASE todo'[t] = todo[t]
    BY <1>1, <2>1, <2>2, KeyKept
  <2>3. CASE /\ todo'[t] # <<>> => Head(todo'[t]).do # "erase"
             /\ todo[t] = <<>> \/ Head(todo[t]).do \notin {"write", "erase"}
    <3>1. \A d \in Draft : ~Begins(t, EraseOf(t, d))'
      BY <2>3 DEF Begins, EraseOf
    <3>2. Drafts(t) # {} => t \in sessions \cup strayed
      BY <2>1, <2>3, KeyThere
    <3> QED BY <1>1, <3>1, <3>2, KeyOf
  <2> QED BY <2>2, <2>3
<1>5. KeysFit'
  <2> SUFFICES ASSUME ~lost', NEW t \in Socket \ crossed'
               PROVE  KeyFit(t)'
    BY DEF KeysFit, KeyFit
  <2> QED BY <1>4
<1> QED BY <1>1, <1>2, <1>3, <1>5 DEF KeyInv

\* A step of any coroutine.
LEMMA TurnKeys ==
  ASSUME KeyInv, NEW a \in Actor, \A b \in Actor \ {a} : todo'[b] = todo[b],
         ~lost' => ~lost /\ crossed \subseteq crossed', sessions' \subseteq Socket, strayed' \subseteq Socket,
         \A t \in Socket : Drafts(t)' \subseteq Drafts(t),
         \A m \in Left(todo'[a]) : m.do = "enter" => m \in Left(todo[a]),
         ~lost' => \A t \in Socket \ crossed' : t # a =>
             /\ t \in sessions => t \in sessions'
             /\ t \in strayed => t \in strayed' \/ Drafts(t) = {},
         ~lost' /\ a \in Socket \ crossed' => KeyFit(a)'
  PROVE  KeyInv'
<1>1. OneRoom /\ KeysFit
  BY DEF KeyInv
<1>2. OneRoom'
  <2>1. ASSUME NEW t \in Socket, NEW m \in Left(todo'[t]), m.do = "enter"
        PROVE  m \in Left(todo[t])
    BY <2>1 DEF Actor
  <2> QED BY <1>1, <2>1, OneRoomKept
<1>3. ASSUME ~lost', NEW t \in Socket \ crossed'
      PROVE  KeyFit(t)'
  <2>1. CASE t = a
    BY <1>3, <2>1
  <2>2. CASE t # a
    <3>1. KeyFit(t)
      BY <1>1, <1>3 DEF KeysFit
    <3>2. todo'[t] = todo[t]
      BY <2>2 DEF Actor
    <3> QED BY <1>3, <2>2, <3>1, <3>2, KeyKept
  <2> QED BY <2>1, <2>2
<1>4. KeysFit'
  <2> SUFFICES ASSUME ~lost', NEW t \in Socket \ crossed'
               PROVE  KeyFit(t)'
    BY DEF KeysFit, KeyFit
  <2> QED BY <1>3
<1> QED BY <1>2, <1>4 DEF KeyInv

\* _local_send after the command to Redis has left the given keys.
LEMMA DeliverKeys ==
  ASSUME IInv, KeyInv, NEW a \in Actor, NEW d \in Draft, NEW to \in SUBSET Socket, NEW stale \in SUBSET Socket,
         NEW rest, RestFits(a, rest), Left(rest) \subseteq Left(todo[a]),
         NEW entries, Deliver(a, d, to, stale, rest, entries),
         NEW keys \in SUBSET Socket, NEW astray \in SUBSET Socket, KeepKeys(keys, astray),
         ~lost => \A t \in Socket \ crossed : t # a =>
             /\ t \in sessions => t \in keys
             /\ t \in strayed => t \in astray \/ Drafts(t) = {},
         ~lost /\ a \in Socket \ crossed => Drafts(a) = {} \/ a \in astray \cup keys
  PROVE  KeyInv'
<1>1. ServerTypeOK /\ MapsAgree
  BY DEF IInv
<1>2. /\ sessions' = IF lost' THEN {} ELSE keys \ crossed'
      /\ strayed' = IF lost' THEN {} ELSE astray \ crossed'
  BY DEF KeepKeys
<1>3. sessions' \subseteq Socket /\ strayed' \subseteq Socket
  BY <1>2
<1> DEFINE Takes(q) == /\ Goto(a, q)
                       /\ q # <<>> => Head(q).do # "erase"
                       /\ \A n \in Left(q) : n.do = "enter" => n \in Left(todo[a])
           Harmless == /\ ~lost' => ~lost /\ crossed \subseteq crossed'
                       /\ \A t \in Socket : Drafts(t)' \subseteq Drafts(t)
                       /\ \E q \in Seq(Step) : Takes(q)
<1>4. Harmless
  <2>1. ASSUME NEW s \in to,
               LET sent == link[s] = "open" /\ Authorized(s, d) IN
               /\ Goto(a, <<Send(d, to \ {s}, IF sent THEN stale ELSE stale \cup {s})>> \o rest)
               /\ UNCHANGED <<maps, queue, lost>>
               /\ Keep(entries, {})
        PROVE  Harmless
    <3>1. ~lost' => ~lost /\ crossed \subseteq crossed'
      BY <2>1 DEF Keep
    <3>2. \A t \in Socket : Drafts(t)' = Drafts(t)
      BY <2>1 DEF maps, Drafts
    <3>3. PICK left : left = IF link[s] = "open" /\ Authorized(s, d) THEN stale ELSE stale \cup {s}
      OBVIOUS
    <3>4. PICK m : m = Send(d, to \ {s}, left)
      OBVIOUS
    <3>5. m \in Step /\ m.do = "send"
      BY <3>3, <3>4, MadeSends
    <3>6. PICK q : q = <<m>> \o rest
      OBVIOUS
    <3>7. Goto(a, q)
      BY <2>1, <3>3, <3>4, <3>6
    <3>8. q \in Seq(Step) /\ q # <<>> /\ Head(q) = m /\ Left(q) = {m} \cup Left(rest)
      <4>1. (m.do \in Own => rest = <<>>) /\ (m.do \in Own \cup {"write"} => m.socket = a)
        BY <3>5 DEF Own
      <4>2. /\ <<m>> \o rest \in Seq(Step) /\ <<m>> \o rest # <<>> /\ Head(<<m>> \o rest) = m
            /\ Left(<<m>> \o rest) = {m} \cup Left(rest)
        BY ONLY RestFits(a, rest), <3>5, <4>1, Pushed
      <4> QED BY <3>6, <4>2
    <3>9. Head(q).do # "erase" /\ \A n \in Left(q) : n.do = "enter" => n \in Left(todo[a])
      BY <3>5, <3>8
    <3> QED BY <3>1, <3>2, <3>7, <3>8, <3>9
  <2>2. CASE /\ Disconnect(stale)
             /\ IF a \in {Listener(v) : v \in Server} THEN UNCHANGED <<queue, lost>> ELSE Publish(a, d)
             /\ Keep(entries, stale)
             /\ Goto(a, rest)
    <3>1. ~lost' => ~lost
      BY <2>2 DEF Publish
    <3>2. ~lost' => crossed \subseteq crossed'
      BY <2>2 DEF Keep
    <3>3. \A t \in Socket : Drafts(t)' \subseteq Drafts(t)
      BY <1>1, <2>2, DisconnectMaps
    <3>4. rest \in Seq(Step) /\ (rest # <<>> => Head(rest).do # "erase")
      BY RestFitsTodo DEF Own
    <3> QED BY <2>2, <3>1, <3>2, <3>3, <3>4
  <2> QED BY <2>1, <2>2 DEF Deliver
<1>5. PICK q \in Seq(Step) : Takes(q)
  BY <1>4
<1>6. todo'[a] = q /\ \A b \in Actor \ {a} : todo'[b] = todo[b]
  BY <1>1, <1>5, GotoIs DEF ServerTypeOK
<1>7. ~lost' => \A t \in Socket \ crossed' : t # a =>
          /\ t \in sessions => t \in sessions'
          /\ t \in strayed => t \in strayed' \/ Drafts(t) = {}
  BY <1>2, <1>4
<1>8. ~lost' /\ a \in Socket \ crossed' => KeyFit(a)'
  <2> SUFFICES ASSUME ~lost', a \in Socket \ crossed'
               PROVE  KeyFit(a)'
    OBVIOUS
  <2>1. Drafts(a)' = {} \/ a \in strayed' \/ a \in sessions'
    BY <1>2, <1>4
  <2>2. \A e \in Draft : ~Begins(a, EraseOf(a, e))'
    BY <1>5, <1>6 DEF Begins, EraseOf
  <2> QED BY <2>1, <2>2, KeyOf
<1>9. \A n \in Left(todo'[a]) : n.do = "enter" => n \in Left(todo[a])
  BY <1>5, <1>6
<1> QED BY <1>3, <1>4, <1>6, <1>7, <1>8, <1>9, TurnKeys

LEMMA RunBroadcastKeys ==
  ASSUME IInv, KeyInv, NEW a \in Actor, RunBroadcast(a)
  PROVE  KeyInv'
<1>1. ServerTypeOK /\ Sends /\ KeysFit /\ sessions \subseteq Socket /\ strayed \subseteq Socket
  BY DEF IInv, KeyInv
<1>2. PICK m : m = Head(todo[a])
  OBVIOUS
<1>3. PICK rest : rest = Tail(todo[a])
  OBVIOUS
<1>4. PICK to : to = room[m.draft] \cap At(ServerOf(a))
  OBVIOUS
<1>5. PICK entries : entries = Entries(m)
  OBVIOUS
<1>6. PICK keys : keys = Sessions(m)
  OBVIOUS
<1>7. PICK astray : astray = {s \in strayed : Drafts(s) # {} /\ m # WriteOf(s, m.draft)}
  OBVIOUS
<1>8. /\ todo[a] # <<>> /\ m.do \in {"broadcast", "write", "erase"}
      /\ Deliver(a, m.draft, to, {}, rest, entries) /\ KeepKeys(keys, astray)
  BY <1>2, <1>3, <1>4, <1>5, <1>6, <1>7 DEF RunBroadcast, Resumes
<1>9. /\ m \in Step /\ RestFits(a, rest) /\ Left(rest) \subseteq Left(todo[a])
      /\ m.do = "write" => m.socket = a
  BY <1>2, <1>3, <1>8, Running
<1>10. m.draft \in Draft /\ (m.do \in {"write", "erase"} => m.socket \in Socket /\ m.draft \in Draft)
  BY <1>8, <1>9, StepKinds
<1>11. to \in SUBSET Socket
  BY <1>4 DEF At
<1>12. /\ m.do = "write" => keys = sessions \cup {m.socket}
       /\ m.do = "erase" => keys = sessions \ {m.socket}
       /\ m.do = "broadcast" => keys = sessions
  BY <1>6 DEF Sessions
<1>13. keys \in SUBSET Socket /\ astray \in SUBSET Socket
  BY <1>1, <1>7, <1>8, <1>10, <1>12
<1>14. Begins(a, m)
  BY <1>2, <1>8 DEF Begins
<1>15. ~lost /\ m.do = "erase" /\ m.socket # a => m.socket \in crossed
  BY <1>1, <1>9, <1>14 DEF Sends, SendFits
<1>16. ASSUME ~lost, NEW t \in Socket \ crossed, t # a
       PROVE  /\ t \in sessions => t \in keys
              /\ t \in strayed => t \in astray \/ Drafts(t) = {}
  <2>1. t \in sessions => t \in keys
    BY <1>8, <1>12, <1>15, <1>16
  <2>2. m # WriteOf(t, m.draft)
    BY <1>9, <1>16 DEF WriteOf
  <2> QED BY <1>7, <2>1, <2>2
<1>17. ASSUME ~lost, a \in Socket \ crossed
       PROVE  Drafts(a) = {} \/ a \in astray \cup keys
  <2>1. KeyFit(a)
    BY <1>1, <1>17 DEF KeysFit
  <2>2. CASE m.do = "write"
    BY <1>9, <1>12, <2>2
  <2>3. CASE m.do = "erase" /\ m.socket = a
    <3>1. m = EraseOf(a, m.draft)
      BY <1>9, <2>3, StepKinds DEF EraseOf
    <3>2. Drafts(a) = {} \/ a \in strayed
      BY <1>10, <1>14, <2>1, <3>1 DEF KeyFit
    <3>3. m # WriteOf(a, m.draft)
      BY <2>3 DEF WriteOf
    <3> QED BY <1>7, <3>2, <3>3
  <2>4. CASE m.do = "broadcast" \/ (m.do = "erase" /\ m.socket # a)
    <3>1. \A e \in Draft : ~Begins(a, WriteOf(a, e))
      BY <1>2, <2>4 DEF Begins, WriteOf
    <3>2. Drafts(a) # {} => a \in sessions \cup strayed
      BY <2>1, <3>1 DEF KeyFit
    <3>3. m # WriteOf(a, m.draft)
      BY <2>4 DEF WriteOf
    <3>4. a \in sessions => a \in keys
      BY <1>12, <2>4
    <3> QED BY <1>7, <3>2, <3>3, <3>4
  <2> QED BY <1>8, <2>2, <2>3, <2>4
<1> QED BY <1>8, <1>9, <1>10, <1>11, <1>13, <1>16, <1>17, DeliverKeys

LEMMA RunSendKeys ==
  ASSUME IInv, KeyInv, NEW a \in Actor, RunSend(a)
  PROVE  KeyInv'
<1>1. KeysFit /\ sessions \in SUBSET Socket /\ strayed \in SUBSET Socket
  BY DEF KeyInv
<1>2. PICK m : m = Head(todo[a])
  OBVIOUS
<1>3. PICK rest : rest = Tail(todo[a])
  OBVIOUS
<1>4. /\ todo[a] # <<>> /\ m.do = "send" /\ Deliver(a, m.draft, m.to, m.stale, rest, shared)
      /\ KeepKeys(sessions, strayed)
  BY <1>2, <1>3 DEF RunSend, Resumes
<1>5. m \in Step /\ RestFits(a, rest) /\ Left(rest) \subseteq Left(todo[a])
  BY <1>2, <1>3, <1>4, Running
<1>6. m.draft \in Draft /\ m.to \in SUBSET Socket /\ m.stale \in SUBSET Socket
  BY <1>4, <1>5, StepKinds
<1>7. ASSUME ~lost, a \in Socket \ crossed
      PROVE  Drafts(a) = {} \/ a \in strayed \cup sessions
  <2>1. KeyFit(a)
    BY <1>1, <1>7 DEF KeysFit
  <2> QED BY <1>2, <1>4, <1>7, <2>1, KeyThere
<1> QED BY <1>1, <1>4, <1>5, <1>6, <1>7, DeliverKeys

\* An eviction takes only the socket out of the room whose key it will remove.
LEMMA RemovingKeys ==
  ASSUME IInv, KeyInv, NEW a \in Actor, todo[a] # <<>>, Head(todo[a]).do \in {"evict", "remove"},
         NEW d \in Draft, NEW to \in SUBSET Socket, Removing(a, d, to), lost' = lost
  PROVE  KeyInv'
<1>1. ServerTypeOK /\ MapsAgree /\ KeysFit /\ sessions \subseteq Socket /\ strayed \subseteq Socket
  BY DEF IInv, KeyInv
<1>2. PICK rest : rest = Tail(todo[a])
  OBVIOUS
<1>3. RestFits(a, rest) /\ Left(rest) \subseteq Left(todo[a])
  BY <1>2, Running
<1>4. ASSUME ~lost, a \in Socket \ crossed
      PROVE  Drafts(a) = {} \/ a \in strayed \cup sessions
  <2>1. KeyFit(a)
    BY <1>1, <1>4 DEF KeysFit
  <2> QED BY <1>4, <2>1, KeyThere
<1>5. CASE to = {}
  <2>1. Goto(a, rest) /\ UNCHANGED <<link, maps, shared, crossed, sessions, strayed>>
    BY <1>2, <1>5 DEF Removing
  <2>2. rest \in Seq(Step) /\ (rest # <<>> => Head(rest).do # "erase")
    BY <1>3, RestFitsTodo DEF Own
  <2>3. todo'[a] = rest /\ \A b \in Actor \ {a} : todo'[b] = todo[b]
    BY <1>1, <2>1, <2>2, GotoIs DEF ServerTypeOK
  <2>4. \A t \in Socket : Drafts(t)' = Drafts(t)
    BY <2>1 DEF maps, Drafts
  <2>5. ~lost' /\ a \in Socket \ crossed' => KeyFit(a)'
    <3> SUFFICES ASSUME ~lost', a \in Socket \ crossed'
                 PROVE  KeyFit(a)'
      OBVIOUS
    <3>1. Drafts(a)' = {} \/ a \in strayed' \/ a \in sessions'
      BY <1>4, <2>1, <2>4
    <3>2. \A e \in Draft : ~Begins(a, EraseOf(a, e))'
      BY <2>2, <2>3 DEF Begins, EraseOf
    <3> QED BY <3>1, <3>2, KeyOf
  <2>6. \A n \in Left(todo'[a]) : n \in Left(todo[a])
    BY <1>3, <2>3
  <2> QED BY <1>1, <2>1, <2>3, <2>4, <2>5, <2>6, TurnKeys
<1>6. CASE to # {}
  <2>1. PICK s \in to : /\ Leaving(a, s, d, <<Remove(d, to \ {s})>> \o rest)
                        /\ Keep(shared, {s}) /\ KeepKeys(sessions, strayed)
    BY <1>2, <1>6 DEF Removing
  <2>2. PICK n : n = Remove(d, to \ {s})
    OBVIOUS
  <2>3. n \in Step /\ n.do = "remove"
    BY <2>2, MadeRemovals
  <2>4. RestFits(a, <<n>> \o rest) /\ Left(<<n>> \o rest) = {n} \cup Left(rest)
    <3>1. /\ n.do \in Own => rest = <<>>
          /\ n.do \in Own \cup {"write"} => n.socket = a
          /\ n.do \in {"remove", "broadcast"} \cup Own
      BY <2>3 DEF Own
    <3> QED BY ONLY <1>3, <2>3, <3>1, Pushed
  <2>5. PICK q : q = <<n>> \o rest
    OBVIOUS
  <2>6. RestFits(a, q) /\ Left(q) = {n} \cup Left(rest) /\ Leaving(a, s, d, q)
    BY <2>1, <2>2, <2>4, <2>5
  <2>7. PICK m : m = IF s \in registered THEN EraseOf(s, d) ELSE Broadcast(d)
    OBVIOUS
  <2>8. m \in Step /\ m.do \in {"erase", "broadcast"} /\ (m.do = "erase" => m.socket = s)
    BY <2>7, MadeSteps
  <2>9. <<m>> \o q \in Seq(Step) /\ Head(<<m>> \o q) = m /\ Left(<<m>> \o q) = {m} \cup Left(q)
    <3>1. (m.do \in Own => q = <<>>) /\ (m.do \in Own \cup {"write"} => m.socket = a)
      BY <2>8 DEF Own
    <3> QED BY ONLY <2>6, <2>8, <3>1, Pushed
  <2>10. todo'[a] = <<m>> \o q /\ \A b \in Actor \ {a} : todo'[b] = todo[b]
    <3>1. todo \in [Actor -> Seq(Step)] /\ Goto(a, <<m>> \o q)
      BY <1>1, <2>6, <2>7 DEF ServerTypeOK, Leaving
    <3> QED BY <2>9, <3>1, GotoIs
  <2>11. \A t \in Socket : Drafts(t)' \subseteq Drafts(t)
    BY <1>1, <2>6, LeavingMaps
  <2>12. ~lost' => /\ crossed' = crossed \cup {s}
                   /\ sessions' = sessions \ crossed' /\ strayed' = strayed \ crossed'
    BY <2>1 DEF Keep, KeepKeys
  <2>13. sessions' \subseteq Socket /\ strayed' \subseteq Socket
    BY <1>1, <2>1 DEF KeepKeys
  <2>14. ~lost' /\ a \in Socket \ crossed' => KeyFit(a)'
    <3> SUFFICES ASSUME ~lost', a \in Socket \ crossed'
                 PROVE  KeyFit(a)'
      OBVIOUS
    <3>1. Drafts(a)' = {} \/ a \in strayed' \/ a \in sessions'
      BY <1>4, <2>11, <2>12
    <3>2. a # s
      BY <2>12
    <3>3. \A e \in Draft : ~Begins(a, EraseOf(a, e))'
      BY <2>8, <2>9, <2>10, <3>2 DEF Begins, EraseOf
    <3> QED BY <3>1, <3>3, KeyOf
  <2>15. \A l \in Left(todo'[a]) : l.do = "enter" => l \in Left(todo[a])
    BY <1>3, <2>3, <2>6, <2>8, <2>9, <2>10
  <2> QED BY <2>10, <2>11, <2>12, <2>13, <2>14, <2>15, TurnKeys
<1> QED BY <1>5, <1>6

LEMMA RunKeys ==
  ASSUME IInv, KeyInv, NEW a \in Actor, Run(a)
  PROVE  KeyInv'
<1>1. PICK m : m = Head(todo[a])
  OBVIOUS
<1>2. OneRoom /\ ServerTypeOK
  BY DEF KeyInv, IInv
<1>3. CASE RunEnter(a)
  <2>1. todo[a] # <<>> /\ m.do = "enter" /\ Entering(m.socket, m.draft) /\ UNCHANGED <<redis, crossed>>
    BY <1>1, <1>3 DEF RunEnter, Resumes
  <2>2. m \in Step /\ m \in Left(todo[a]) /\ m.socket = a /\ a \in Socket /\ link[a] \in {"open", "closed"}
    BY <1>1, <2>1, Running DEF Own
  <2>3. m.draft \in Draft /\ Drafts(a) = {}
    BY <1>2, <2>1, <2>2, StepKinds DEF OneRoom
  <2> QED BY <2>1, <2>2, <2>3, EnteringKeys
<1>4. CASE RunBroadcast(a)
  BY <1>4, RunBroadcastKeys
<1>5. CASE RunSend(a)
  BY <1>5, RunSendKeys
<1>6. CASE RunEvict(a)
  <2>1. todo[a] # <<>> /\ m.do = "evict" /\ Removing(a, m.draft, Targets(a, m.user, m.draft)) /\ lost' = lost
    BY <1>1, <1>6 DEF RunEvict, Resumes
  <2>2. m \in Step
    BY <1>1, <2>1, Running
  <2>3. m.draft \in Draft
    BY <2>1, <2>2, StepKinds
  <2>4. Targets(a, m.user, m.draft) \in SUBSET Socket
    BY <1>2, <2>3 DEF Targets, ServerTypeOK
  <2> QED BY <1>1, <2>1, <2>3, <2>4, RemovingKeys
<1>7. CASE RunRemove(a)
  <2>1. todo[a] # <<>> /\ m.do = "remove" /\ Removing(a, m.draft, m.to) /\ lost' = lost
    BY <1>1, <1>7 DEF RunRemove, Resumes
  <2>2. m \in Step
    BY <1>1, <2>1, Running
  <2>3. m.draft \in Draft /\ m.to \in SUBSET Socket
    BY <2>1, <2>2, StepKinds
  <2> QED BY <1>1, <2>1, <2>3, RemovingKeys
<1>8. CASE RunClose(a)
  <2>1. todo[a] # <<>> /\ m.do = "close" /\ Goto(a, <<EndOf(m.socket)>>) /\ UNCHANGED <<maps, redis, crossed>>
    BY <1>1, <1>8 DEF RunClose, Resumes
  <2>2. m.socket = a /\ a \in Socket
    BY <1>1, <2>1, Running DEF Own
  <2>3. EndOf(a) \in Step /\ EndOf(a).do = "end" /\ EndOf(a).socket = a
    BY <2>2 DEF Step, EndOf
  <2>4. <<EndOf(a)>> \in Seq(Step) /\ Head(<<EndOf(a)>>) = EndOf(a) /\ Left(<<EndOf(a)>>) = {EndOf(a)}
    BY <2>3, Alone
  <2>5. todo'[a] = <<EndOf(a)>> /\ \A b \in Actor \ {a} : todo'[b] = todo[b]
    BY <1>2, <2>1, <2>2, <2>4, GotoIs DEF ServerTypeOK
  <2>6. \A t \in Socket : Drafts(t)' = Drafts(t)
    BY <2>1 DEF maps, Drafts
  <2>7. \A t \in Socket \ {a} : todo'[t] = todo[t]
    BY <2>5 DEF Actor
  <2> QED BY <1>1, <2>1, <2>3, <2>4, <2>5, <2>6, <2>7, StillKeys DEF redis
<1>9. CASE RunEnd(a)
  <2>1. todo[a] # <<>> /\ m.do = "end" /\ Ending(m.socket) /\ UNCHANGED <<redis, crossed>>
    BY <1>1, <1>9 DEF RunEnd, Resumes
  <2>2. m.socket = a /\ a \in Socket
    BY <1>1, <2>1, Running DEF Own
  <2> QED BY <2>1, <2>2, EndingKeys
<1> QED BY <1>3, <1>4, <1>5, <1>6, <1>7, <1>8, <1>9 DEF Run

LEMMA SocketKeys ==
  ASSUME IInv, KeyInv, NEW s \in Socket, Check(s) \/ Accept(s) \/ Hangup(s) \/ Serve(s) \/ Logout(s)
  PROVE  KeyInv'
<1>1. OneRoom /\ ServerTypeOK /\ s \in Actor /\ strayed \subseteq Socket
  BY DEF KeyInv, IInv, Actor
<1>2. todo \in [Actor -> Seq(Step)] /\ socketDrafts \in [Socket -> (SUBSET Draft) \cup {None}]
  BY <1>1 DEF ServerTypeOK
<1>3. CASE Check(s) \/ Accept(s) \/ Hangup(s) \/ Logout(s)
  <2>1. todo' = todo /\ UNCHANGED <<redis, crossed>>
    BY <1>3 DEF Check, Accept, Hangup, Logout
  <2>2. socketDrafts' = socketDrafts \/ socketDrafts' = [socketDrafts EXCEPT ![s] = {}]
    BY <1>3 DEF Check, Accept, Hangup, Logout, maps
  <2>3. \A t \in Socket : Drafts(t)' \subseteq Drafts(t)
    BY <1>2, <2>2 DEF Drafts
  <2> QED BY <2>1, <2>3, StillKeys DEF redis
<1>4. CASE Reject(s)
  <2>1. todo[s] = <<>> /\ Goto(s, <<EndOf(s)>>) /\ UNCHANGED <<maps, redis, crossed>>
    BY <1>4 DEF Reject, Waiting
  <2>2. EndOf(s) \in Step /\ EndOf(s).do = "end" /\ EndOf(s).socket = s
    BY DEF Step, EndOf
  <2>3. <<EndOf(s)>> \in Seq(Step) /\ Head(<<EndOf(s)>>) = EndOf(s) /\ Left(<<EndOf(s)>>) = {EndOf(s)}
    BY <2>2, Alone
  <2>4. todo'[s] = <<EndOf(s)>> /\ \A b \in Actor \ {s} : todo'[b] = todo[b]
    BY <1>1, <1>2, <2>1, <2>3, GotoIs
  <2>5. \A t \in Socket : Drafts(t)' = Drafts(t)
    BY <2>1 DEF maps, Drafts
  <2>6. \A t \in Socket \ {s} : todo'[t] = todo[t]
    BY <2>4 DEF Actor
  <2> QED BY <2>1, <2>2, <2>3, <2>4, <2>5, <2>6, StillKeys DEF redis
<1>5. CASE Hear(s)
  BY <1>5, EndingKeys DEF Hear, redis
<1>6. ASSUME NEW d \in Draft, Subscribe(s, d)
      PROVE  KeyInv'
  <2>1. link[s] = "open" /\ todo[s] = <<>> /\ UNCHANGED <<redis, crossed>>
    BY <1>6 DEF Subscribe, Waiting
  <2>2. CASE Ending(s)
    BY <2>1, <2>2, EndingKeys
  <2>3. CASE Drafts(s) \subseteq {d} /\ Entering(s, d)
    BY <2>1, <2>3, EnteringKeys
  <2>4. CASE \E e \in Drafts(s) \ {d} : Leaving(s, s, e, <<Enter(s, d)>>)
    <3>1. PICK e \in Drafts(s) \ {d} : Leaving(s, s, e, <<Enter(s, d)>>)
      BY <2>4
    <3>2. e \in Draft
      BY <1>2, <3>1, DraftsIs
    <3>3. Drafts(s) \subseteq {e}
      BY <1>1, <3>1 DEF OneRoom
    <3>4. Enter(s, d) \in Step /\ Enter(s, d).do = "enter" /\ Enter(s, d).socket = s
      BY MadeSteps
    <3>5. RestFits(s, <<Enter(s, d)>>)
      BY <3>4, Alone DEF Own
    <3> QED BY <1>1, <2>1, <3>1, <3>2, <3>3, <3>5, LeavingKeys DEF redis
  <2> QED BY <1>6, <2>2, <2>3, <2>4 DEF Subscribe
<1>7. ASSUME NEW d \in Draft, NEW rest, Leaving(s, s, d, rest), rest \in {<<>>, <<Close(s)>>}, Strays(s, d),
             UNCHANGED <<sessions, lost, crossed>>
      PROVE  KeyInv'
  <2>1. strayed \subseteq strayed' /\ strayed' \subseteq Socket /\ (lost \/ Drafts(s) \subseteq {d} \/ s \in strayed')
    BY <1>1, <1>7 DEF Strays
  <2>2. Close(s) \in Step /\ Close(s).do = "close" /\ Close(s).socket = s
    BY MadeSteps, <1>7
  <2>3. RestFits(s, <<Close(s)>>) /\ Left(<<Close(s)>>) = {Close(s)}
    BY <2>2, Alone DEF Own
  <2>4. RestFits(s, <<>>) /\ Left(<<>>) = {}
    BY NoRest
  <2>5. RestFits(s, rest) /\ \A m \in Left(rest) : m.do # "enter"
    BY <1>7, <2>2, <2>3, <2>4
  <2> QED BY <1>7, <2>1, <2>5, LeavingKeys
<1>8. ASSUME NEW d \in Draft, Unsubscribe(s, d)
      PROVE  KeyInv'
  BY <1>7, <1>8 DEF Unsubscribe
<1>9. ASSUME NEW d \in Draft, Update(s, d)
      PROVE  KeyInv'
  <2>1. CASE Leaving(s, s, d, <<Close(s)>>) /\ Strays(s, d)
    BY <1>7, <1>9, <2>1 DEF Update
  <2>2. CASE Goto(s, <<WriteOf(s, d)>>) /\ UNCHANGED <<socketDrafts, strayed>>
    <3>1. todo[s] = <<>> /\ UNCHANGED <<sessions, lost, crossed>>
      BY <1>9 DEF Update, Waiting
    <3>2. WriteOf(s, d) \in Step /\ WriteOf(s, d).do = "write" /\ WriteOf(s, d).socket = s
      BY MadeSteps
    <3>3. /\ <<WriteOf(s, d)>> \in Seq(Step) /\ Head(<<WriteOf(s, d)>>) = WriteOf(s, d)
          /\ Left(<<WriteOf(s, d)>>) = {WriteOf(s, d)}
      BY <3>2, Alone
    <3>4. todo'[s] = <<WriteOf(s, d)>> /\ \A b \in Actor \ {s} : todo'[b] = todo[b]
      BY <1>1, <1>2, <2>2, <3>3, GotoIs
    <3>5. \A t \in Socket : Drafts(t)' = Drafts(t)
      BY <2>2 DEF Drafts
    <3>6. \A t \in Socket \ {s} : todo'[t] = todo[t]
      BY <3>4 DEF Actor
    <3> QED BY <2>2, <3>1, <3>2, <3>3, <3>4, <3>5, <3>6, StillKeys
  <2> QED BY <1>9, <2>1, <2>2 DEF Update
<1> QED BY <1>3, <1>4, <1>5, <1>6, <1>8, <1>9 DEF Serve

\* The relay and the routes are no endpoints.
LEMMA OthersKeys ==
  ASSUME IInv, KeyInv, NEW a \in Actor, a \notin Socket, NEW q, Goto(a, q),
         UNCHANGED <<maps, sessions, strayed, lost, crossed>>
  PROVE  KeyInv'
<1>1. todo \in [Actor -> Seq(Step)]
  BY DEF IInv, ServerTypeOK
<1>2. \A t \in Socket : todo'[t] = todo[t]
  BY <1>1 DEF Goto, Actor
<1>3. \A t \in Socket : Drafts(t)' = Drafts(t)
  BY DEF maps, Drafts
<1> QED BY <1>2, <1>3, StillKeys

LEMMA NextKeys == IInv /\ KeyInv /\ [Next]_vars => KeyInv'
<1> SUFFICES ASSUME IInv, KeyInv, [Next]_vars
             PROVE  KeyInv'
  OBVIOUS
<1>1. ASSUME NEW s \in Socket, Check(s) \/ Accept(s) \/ Hangup(s) \/ Serve(s) \/ Logout(s)
      PROVE  KeyInv'
  BY <1>1, SocketKeys
<1>2. ASSUME NEW a \in Actor, Run(a)
      PROVE  KeyInv'
  BY <1>2, RunKeys
<1>3. ASSUME NEW v \in Server, Relay(v)
      PROVE  KeyInv'
  <2>1. PICK d : Goto(Listener(v), <<Broadcast(d)>>)
    BY <1>3 DEF Relay
  <2>2. UNCHANGED <<maps, sessions, strayed, lost, crossed>>
    BY <1>3 DEF Relay
  <2> QED BY <2>1, <2>2, ActorsApart, OthersKeys
<1>4. CASE RedisForgets
  <2>1. lost' /\ UNCHANGED <<maps, todo>> /\ sessions' = {} /\ strayed' = {}
    BY <1>4 DEF RedisForgets, KeepKeys
  <2>2. \A t \in Socket : Drafts(t)' = Drafts(t)
    BY <2>1 DEF maps, Drafts
  <2>3. OneRoom'
    BY <2>1, <2>2, OneRoomKept DEF KeyInv
  <2> QED BY <2>1, <2>3 DEF KeyInv, KeysFit
<1>5. ASSUME NEW v \in Server, NEW u \in User, NEW d \in Draft,
             RemoveCollaborator(v, u, d) \/ AddCollaborator(v, u, d)
      PROVE  KeyInv'
  <2>1. PICK q : Goto(Route(v), q)
    BY <1>5 DEF RemoveCollaborator, AddCollaborator, Change
  <2>2. UNCHANGED <<maps, sessions, strayed, lost, crossed>>
    BY <1>5 DEF RemoveCollaborator, AddCollaborator, Change, redis
  <2> QED BY <2>1, <2>2, ActorsApart, OthersKeys
<1>6. CASE UNCHANGED vars
  <2>1. UNCHANGED <<maps, todo, sessions, strayed, lost, crossed>>
    BY <1>6 DEF vars, redis
  <2>2. \A t \in Socket : Drafts(t)' = Drafts(t)
    BY <2>1 DEF maps, Drafts
  <2> QED BY <2>1, <2>2, StillKeys
<1> QED BY <1>1, <1>2, <1>3, <1>4, <1>5, <1>6 DEF Next

\* In every behaviour a socket is in one room at most, and while it is in one its
\* session key is in Redis, unless its endpoint is about to write it or the client
\* gave up another draft (unsubscribe_draft and _remove_redis_presence of
\* services/realtime.py).
THEOREM KeysAlways == Spec => []KeyInv
<1>1. Init => KeyInv
  <2> SUFFICES ASSUME Init
               PROVE  KeyInv
    OBVIOUS
  <2>1. \A s \in Socket : Drafts(s) = {} /\ todo[s] = <<>>
    BY DEF Init, Drafts, Actor
  <2>2. \A s \in Socket : KeyFit(s)
    BY <2>1 DEF KeyFit, Begins
  <2>3. OneRoom
    BY <2>1 DEF OneRoom
  <2> QED BY <2>2, <2>3 DEF KeyInv, KeysFit, Init
<1>2. IInv /\ KeyInv /\ [Next]_vars => KeyInv'
  BY NextKeys
<1> QED BY <1>1, <1>2, Invariance, PTL DEF Spec

-----------------------------------------------------------------------------
(* What follows from it.                                                   *)

\* At every await each variable has its type, the room of a draft and the drafts
\* of a socket name each other, presence is of registered members, and an endpoint
\* that is over is in no map (RealtimeManager in services/realtime.py).
THEOREM ConsistentAlways == Spec => []Consistent
<1>1. IInv /\ KeyInv => Consistent
  <2> SUFFICES ASSUME IInv, KeyInv
               PROVE  Consistent
    OBVIOUS
  <2>1. TypeOK /\ MapsAgree /\ LinksFit
    BY DEF IInv, KeyInv, TypeOK
  <2>2. NothingLeft
    BY <2>1 DEF NothingLeft, MapsAgree, LinksFit
  <2> QED BY <2>1, <2>2 DEF Consistent
<1> QED BY <1>1, Invariance, KeysAlways, PTL

\* When no coroutine has anything left to do, no message waits and Redis has lost
\* nothing, nobody is in a room without access to its draft, and Redis shows who is
\* in it (subscribe_draft, evict_user_from_draft and the relay of services/realtime.py).
THEOREM SettlesRightAlways == Spec => []SettlesRight
<1>1. IInv /\ KeyInv => SettlesRight
  <2> SUFFICES ASSUME IInv, KeyInv, ~lost, \A a \in Actor : todo[a] = <<>>, \A v \in Server : queue[v] = {}
               PROVE  RemovedLeaveRoom /\ PresenceTrue
    BY DEF SettlesRight
  <2>1. ServerTypeOK /\ PresenceFits /\ RoomsDue
    BY DEF IInv
  <2>2. \A a \in Actor : Left(todo[a]) = {}
    BY NoRest
  <2>3. \A s \in Socket : s \in Actor /\ Home[s] \in Server
    BY HomeAssumption DEF Actor
  <2>4. RemovedLeaveRoom
    BY <2>1, <2>2, <2>3 DEF RemovedLeaveRoom, RoomsDue, Due, ServerTypeOK
  <2>5. PresenceTrue
    <3> SUFFICES ASSUME NEW d \in Draft, NEW s \in Socket \ crossed
                 PROVE  /\ Shown(s, d) => s \in room[d]
                        /\ s \in room[d] => Shown(s, d) \/ s \in strayed
      BY DEF PresenceTrue
    <3>1. PresenceFit(s)
      BY <2>1 DEF PresenceFits
    <3>2. ~ Begins(s, WriteOf(s, d)) /\ ~ Begins(s, EraseOf(s, d))
      BY <2>3 DEF Begins
    <3>3. <<d, s>> \in shared <=> s \in room[d]
      BY <3>1, <3>2 DEF PresenceFit
    <3>4. s \in room[d] => Drafts(s) # {}
      BY DEF IInv, MapsAgree
    <3>5. Drafts(s) # {} => s \in sessions \cup strayed
      <4>1. KeyFit(s) /\ todo[s] = <<>>
        BY <2>3 DEF KeyInv, KeysFit
      <4> QED BY <4>1, KeyThere
    <3> QED BY <3>3, <3>4, <3>5 DEF Shown
  <2> QED BY <2>4, <2>5
<1> QED BY <1>1, Invariance, KeysAlways, PTL

\* Only an accept registers a socket.
LEMMA OnlyAccepted ==
  ASSUME Next, NEW s \in registered' \ registered
  PROVE  Accept(s)
<1>1. ASSUME NEW t \in Socket, Check(t) \/ Accept(t) \/ Hangup(t) \/ Serve(t) \/ Logout(t)
      PROVE  Accept(s)
  <2>1. CASE Accept(t)
    BY <2>1 DEF Accept
  <2>2. CASE Check(t) \/ Hangup(t) \/ Logout(t)
    BY <2>2 DEF Check, Hangup, Logout, maps
  <2>3. CASE Serve(t)
    <3>1. CASE Reject(t)
      BY <3>1 DEF Reject, maps
    <3>2. CASE Hear(t)
      BY <3>2 DEF Hear, Ending, Leaving, Disconnect
    <3>3. ASSUME NEW d \in Draft, Subscribe(t, d)
          PROVE  FALSE
      BY <3>3 DEF Subscribe, Ending, Entering, Leaving, Disconnect
    <3>4. ASSUME NEW d \in Draft, Unsubscribe(t, d) \/ Update(t, d)
          PROVE  FALSE
      BY <3>4 DEF Unsubscribe, Update, Leaving
    <3> QED BY <2>3, <3>1, <3>2, <3>3, <3>4 DEF Serve
  <2> QED BY <1>1, <2>1, <2>2, <2>3
<1>2. ASSUME NEW a \in Actor, Run(a)
      PROVE  FALSE
  <2>1. CASE RunEnter(a)
    BY <2>1 DEF RunEnter, Entering
  <2>2. CASE RunBroadcast(a)
    BY <2>2 DEF RunBroadcast, Deliver, Disconnect, maps
  <2>3. CASE RunSend(a)
    BY <2>3 DEF RunSend, Deliver, Disconnect, maps
  <2>4. CASE RunEvict(a) \/ RunRemove(a)
    BY <2>4 DEF RunEvict, RunRemove, Removing, Leaving, maps
  <2>5. CASE RunClose(a)
    BY <2>5 DEF RunClose, maps
  <2>6. CASE RunEnd(a)
    BY <2>6 DEF RunEnd, Ending, Leaving, Disconnect
  <2> QED BY <1>2, <2>1, <2>2, <2>3, <2>4, <2>5, <2>6 DEF Run
<1>3. ASSUME NEW v \in Server, Relay(v)
      PROVE  FALSE
  BY <1>3 DEF Relay, maps
<1>4. CASE RedisForgets
  BY <1>4 DEF RedisForgets, maps
<1>5. ASSUME NEW v \in Server, NEW u \in User, NEW d \in Draft,
             RemoveCollaborator(v, u, d) \/ AddCollaborator(v, u, d)
      PROVE  FALSE
  BY <1>5 DEF RemoveCollaborator, AddCollaborator, Change, maps
<1> QED BY <1>1, <1>2, <1>3, <1>4, <1>5 DEF Next

\* A socket that is registered above the limit of its address was overtaken by
\* another between its check and its accept (can_connect and connect in
\* services/realtime.py).
THEOREM OverLimitAlwaysByRaces == Spec => OverLimitByRacesOnly
<1>1. IInv /\ [Next]_vars =>
         [\A s \in registered' \ registered :
             Cardinality(Connections(s)) < Limit \/ s \in overtaken]_vars
  <2> SUFFICES ASSUME IInv, Next, NEW s \in registered' \ registered
               PROVE  Cardinality(Connections(s)) < Limit \/ s \in overtaken
    OBVIOUS
  <2>1. Accept(s)
    BY OnlyAccepted
  <2>2. s \in Socket /\ link[s] = "checked"
    <3>1. registered \subseteq Socket /\ link \in [Socket -> {"new", "checked", "open", "closed", "done"}]
      BY DEF IInv, ServerTypeOK
    <3>2. IInv'
      BY NextInv
    <3>3. registered' \subseteq Socket
      BY <3>2 DEF IInv, ServerTypeOK
    <3> QED BY <2>1, <3>3 DEF Accept
  <2>3. s \in overtaken \/ CanConnect(s)
    BY <2>2 DEF IInv, ChecksFit
  <2> QED BY <2>3 DEF CanConnect
<1> QED BY <1>1, Invariance, PTL DEF Spec, OverLimitByRacesOnly

\* No step but that of a delivery leaves a coroutine at a message it sends.
LEMMA NoSendFrom ==
  ASSUME ServerTypeOK, NEW b \in Actor, NEW q, Goto(b, q), q # <<>> => Head(q).do # "send",
         NEW a \in Actor, todo'[a] # todo[a], todo'[a] # <<>>
  PROVE  Head(todo'[a]).do # "send"
<1>1. todo \in [Actor -> Seq(Step)] /\ todo' = [todo EXCEPT ![b] = q]
  BY DEF ServerTypeOK, Goto
<1> QED BY <1>1

LEMMA LeavingSendsNot ==
  ASSUME ServerTypeOK, NEW b \in Actor, NEW s \in Socket, NEW d \in Draft, NEW rest, RestFits(b, rest),
         Leaving(b, s, d, rest), NEW a \in Actor, todo'[a] # todo[a], todo'[a] # <<>>
  PROVE  Head(todo'[a]).do # "send"
<1>1. PICK m : m = IF s \in registered THEN EraseOf(s, d) ELSE Broadcast(d)
  OBVIOUS
<1>2. m \in Step /\ m.do \in {"erase", "broadcast"}
  BY <1>1, MadeSteps
<1>3. Head(<<m>> \o rest) = m
  <2>1. (m.do \in Own => rest = <<>>) /\ (m.do \in Own \cup {"write"} => m.socket = b)
    BY <1>2 DEF Own
  <2> QED BY ONLY RestFits(b, rest), <1>2, <2>1, Pushed
<1>4. Goto(b, <<m>> \o rest)
  BY <1>1 DEF Leaving
<1>5. <<m>> \o rest # <<>> => Head(<<m>> \o rest).do # "send"
  BY <1>2, <1>3
<1> QED BY <1>4, <1>5, NoSendFrom

LEMMA EndingSendsNot ==
  ASSUME ServerTypeOK, NEW s \in Socket, Ending(s), NEW a \in Actor, todo'[a] # todo[a], todo'[a] # <<>>
  PROVE  Head(todo'[a]).do # "send"
<1>1. s \in Actor
  BY DEF Actor
<1>2. CASE \E d \in Drafts(s) : Leaving(s, s, d, <<EndOf(s)>>)
  <2>1. PICK d \in Drafts(s) : Leaving(s, s, d, <<EndOf(s)>>)
    BY <1>2
  <2>2. d \in Draft
    BY DraftsIs DEF ServerTypeOK
  <2>3. EndOf(s) \in Step /\ EndOf(s).do = "end" /\ EndOf(s).socket = s
    BY DEF Step, EndOf
  <2>4. RestFits(s, <<EndOf(s)>>)
    BY <1>1, <2>3, Alone DEF Own
  <2> QED BY <1>1, <2>1, <2>2, <2>4, LeavingSendsNot
<1>3. CASE Goto(s, <<>>)
  BY <1>1, <1>3, NoSendFrom
<1> QED BY <1>2, <1>3 DEF Ending

LEMMA EnteringSendsNot ==
  ASSUME ServerTypeOK, NEW s \in Socket, NEW d \in Draft, Entering(s, d),
         NEW a \in Actor, todo'[a] # todo[a], todo'[a] # <<>>
  PROVE  Head(todo'[a]).do # "send"
<1>1. s \in Actor
  BY DEF Actor
<1>2. PICK m : m = IF s \in registered THEN WriteOf(s, d) ELSE EndOf(s)
  OBVIOUS
<1>3. m.do \in {"write", "end"}
  BY <1>2 DEF WriteOf, EndOf
<1>4. Goto(s, <<m>>)
  BY <1>2 DEF Entering
<1>5. Head(<<m>>) = m
  OBVIOUS
<1> QED BY <1>1, <1>3, <1>4, <1>5, NoSendFrom

LEMMA AloneSendsNot ==
  ASSUME ServerTypeOK, NEW b \in Actor, NEW m, m.do # "send", Goto(b, <<m>>),
         NEW a \in Actor, todo'[a] # todo[a], todo'[a] # <<>>
  PROVE  Head(todo'[a]).do # "send"
<1>1. Head(<<m>>) = m
  OBVIOUS
<1> QED BY <1>1, NoSendFrom

LEMMA SocketSendsNot ==
  ASSUME IInv, NEW s \in Socket, Check(s) \/ Accept(s) \/ Hangup(s) \/ Serve(s) \/ Logout(s),
         NEW a \in Actor, todo'[a] # todo[a], todo'[a] # <<>>
  PROVE  Head(todo'[a]).do # "send"
<1>1. ServerTypeOK /\ s \in Actor
  BY DEF IInv, Actor
<1>2. CASE Check(s) \/ Accept(s) \/ Hangup(s) \/ Logout(s)
  BY <1>2 DEF Check, Accept, Hangup, Logout
<1>3. CASE Reject(s)
  <2>1. EndOf(s).do # "send" /\ Goto(s, <<EndOf(s)>>)
    BY <1>3 DEF Reject, EndOf
  <2> QED BY <1>1, <2>1, AloneSendsNot
<1>4. CASE Hear(s)
  BY <1>1, <1>4, EndingSendsNot DEF Hear
<1>5. ASSUME NEW d \in Draft, Subscribe(s, d)
      PROVE  Head(todo'[a]).do # "send"
  <2>1. CASE Ending(s)
    BY <1>1, <2>1, EndingSendsNot
  <2>2. CASE Entering(s, d)
    BY <1>1, <2>2, EnteringSendsNot
  <2>3. CASE \E e \in Drafts(s) \ {d} : Leaving(s, s, e, <<Enter(s, d)>>)
    <3>1. PICK e \in Drafts(s) \ {d} : Leaving(s, s, e, <<Enter(s, d)>>)
      BY <2>3
    <3>2. e \in Draft
      BY <1>1, DraftsIs DEF ServerTypeOK
    <3>3. Enter(s, d) \in Step /\ Enter(s, d).do = "enter" /\ Enter(s, d).socket = s
      BY MadeSteps
    <3>4. RestFits(s, <<Enter(s, d)>>)
      BY <1>1, <3>3, Alone DEF Own
    <3> QED BY <1>1, <3>1, <3>2, <3>4, LeavingSendsNot
  <2> QED BY <1>5, <2>1, <2>2, <2>3 DEF Subscribe
<1>6. ASSUME NEW d \in Draft, Unsubscribe(s, d)
      PROVE  Head(todo'[a]).do # "send"
  <2>1. RestFits(s, <<>>) /\ Leaving(s, s, d, <<>>)
    BY <1>6, NoRest DEF Unsubscribe
  <2> QED BY <1>1, <2>1, LeavingSendsNot
<1>7. ASSUME NEW d \in Draft, Update(s, d)
      PROVE  Head(todo'[a]).do # "send"
  <2>1. CASE Leaving(s, s, d, <<Close(s)>>)
    <3>1. Close(s) \in Step /\ Close(s).do = "close" /\ Close(s).socket = s
      BY MadeSteps
    <3>2. RestFits(s, <<Close(s)>>)
      BY <1>1, <3>1, Alone DEF Own
    <3> QED BY <1>1, <2>1, <3>2, LeavingSendsNot
  <2>2. CASE Goto(s, <<WriteOf(s, d)>>)
    <3>1. WriteOf(s, d).do # "send"
      BY DEF WriteOf
    <3> QED BY <1>1, <2>2, <3>1, AloneSendsNot
  <2> QED BY <1>7, <2>1, <2>2 DEF Update
<1> QED BY <1>2, <1>3, <1>4, <1>5, <1>6, <1>7 DEF Serve

LEMMA RemovingSendsNot ==
  ASSUME IInv, NEW b \in Actor, RunEvict(b) \/ RunRemove(b),
         NEW a \in Actor, todo'[a] # todo[a], todo'[a] # <<>>
  PROVE  Head(todo'[a]).do # "send"
<1>1. ServerTypeOK
  BY DEF IInv
<1>2. PICK m : m = Head(todo[b])
  OBVIOUS
<1>3. PICK rest : rest = Tail(todo[b])
  OBVIOUS
<1>4. todo[b] # <<>> /\ m.do \in {"evict", "remove"}
  BY <1>2 DEF RunEvict, RunRemove, Resumes
<1>5. m \in Step /\ RestFits(b, rest)
  BY <1>2, <1>3, <1>4, Running
<1>6. m.draft \in Draft /\ (m.do = "remove" => m.to \in SUBSET Socket)
  BY <1>4, <1>5, StepKinds
<1>7. \E to \in SUBSET Socket : Removing(b, m.draft, to)
  <2>1. CASE RunEvict(b)
    <3>1. Removing(b, m.draft, Targets(b, m.user, m.draft))
      BY <1>2, <2>1 DEF RunEvict
    <3>2. Targets(b, m.user, m.draft) \in SUBSET Socket
      BY DEF Targets, At
    <3> QED BY <3>1, <3>2
  <2>2. CASE RunRemove(b)
    BY <1>2, <1>6, <2>2 DEF RunRemove, Resumes
  <2> QED BY <2>1, <2>2
<1>8. PICK to \in SUBSET Socket : Removing(b, m.draft, to)
  BY <1>7
<1>9. CASE Goto(b, rest)
  <2>1. rest # <<>> => Head(rest).do \in Own \cup {"remove", "broadcast"}
    BY <1>5, RestFitsTodo
  <2>2. rest # <<>> => Head(rest).do # "send"
    BY <2>1 DEF Own
  <2> QED BY <1>1, <1>9, <2>2, NoSendFrom
<1>10. CASE \E s \in to : Leaving(b, s, m.draft, <<Remove(m.draft, to \ {s})>> \o rest)
  <2>1. PICK s \in to : Leaving(b, s, m.draft, <<Remove(m.draft, to \ {s})>> \o rest)
    BY <1>10
  <2>2. PICK n : n = Remove(m.draft, to \ {s})
    OBVIOUS
  <2>3. n \in Step /\ n.do = "remove"
    BY <1>6, <2>2, MadeRemovals
  <2>4. RestFits(b, <<n>> \o rest)
    <3>1. (n.do \in Own => rest = <<>>) /\ (n.do \in Own \cup {"write"} => n.socket = b)
          /\ n.do \in {"remove", "broadcast"} \cup Own
      BY <2>3 DEF Own
    <3> QED BY ONLY <1>5, <2>3, <3>1, Pushed
  <2>5. Leaving(b, s, m.draft, <<n>> \o rest) /\ s \in Socket
    BY <2>1, <2>2
  <2> QED BY <1>1, <1>6, <2>4, <2>5, LeavingSendsNot
<1> QED BY <1>3, <1>8, <1>9, <1>10 DEF Removing

LEMMA OthersSendNot ==
  ASSUME IInv, Next, NEW a \in Actor, todo'[a] # todo[a], todo'[a] # <<>>, Head(todo'[a]).do = "send"
  PROVE  \E b \in Actor : RunBroadcast(b) \/ RunSend(b)
<1>1. ServerTypeOK
  BY DEF IInv
<1>2. ASSUME NEW s \in Socket, Check(s) \/ Accept(s) \/ Hangup(s) \/ Serve(s) \/ Logout(s)
      PROVE  FALSE
  BY <1>2, SocketSendsNot
<1>3. ASSUME NEW b \in Actor, Run(b)
      PROVE  RunBroadcast(b) \/ RunSend(b)
  <2>1. PICK m : m = Head(todo[b])
    OBVIOUS
  <2>2. todo[b] # <<>>
    BY <1>3 DEF Run, RunEnter, RunBroadcast, RunSend, RunEvict, RunRemove, RunClose, RunEnd, Resumes
  <2>3. m \in Step /\ (m.do \in Own => m.socket = b /\ b \in Socket)
    BY <2>1, <2>2, Running
  <2>4. CASE RunEnter(b)
    <3>1. m.do = "enter" /\ Entering(m.socket, m.draft)
      BY <2>1, <2>4 DEF RunEnter, Resumes
    <3>2. m.socket \in Socket /\ m.draft \in Draft
      BY <2>3, <3>1, StepKinds
    <3> QED BY <1>1, <3>1, <3>2, EnteringSendsNot
  <2>5. CASE RunEvict(b) \/ RunRemove(b)
    BY <2>5, RemovingSendsNot
  <2>6. CASE RunClose(b)
    <3>1. Goto(b, <<EndOf(m.socket)>>) /\ EndOf(m.socket).do # "send"
      BY <2>1, <2>6 DEF RunClose, EndOf
    <3> QED BY <1>1, <3>1, AloneSendsNot
  <2>7. CASE RunEnd(b)
    <3>1. m.do = "end" /\ Ending(m.socket)
      BY <2>1, <2>7 DEF RunEnd, Resumes
    <3>2. m.socket \in Socket
      BY <2>3, <3>1, StepKinds
    <3> QED BY <1>1, <3>1, <3>2, EndingSendsNot
  <2> QED BY <1>3, <2>4, <2>5, <2>6, <2>7 DEF Run
<1>4. ASSUME NEW v \in Server, Relay(v)
      PROVE  FALSE
  <2>1. Listener(v) \in Actor
    BY ActorsApart
  <2>2. PICK d : Goto(Listener(v), <<Broadcast(d)>>)
    BY <1>4 DEF Relay
  <2>3. Broadcast(d).do # "send"
    BY DEF Broadcast
  <2> QED BY <1>1, <2>1, <2>2, <2>3, AloneSendsNot
<1>5. CASE RedisForgets
  BY <1>5 DEF RedisForgets
<1>6. ASSUME NEW v \in Server, NEW u \in User, NEW d \in Draft,
             RemoveCollaborator(v, u, d) \/ AddCollaborator(v, u, d)
      PROVE  FALSE
  <2>1. Route(v) \in Actor
    BY ActorsApart
  <2>2. Broadcast(d).do # "send" /\ Evict(u, d).do # "send"
    BY DEF Broadcast, Evict
  <2>3. CASE Goto(Route(v), <<Broadcast(d)>>)
    BY <1>1, <2>1, <2>2, <2>3, AloneSendsNot
  <2>4. CASE Goto(Route(v), <<Evict(u, d), Broadcast(d)>>)
    <3>1. Head(<<Evict(u, d), Broadcast(d)>>) = Evict(u, d)
      OBVIOUS
    <3> QED BY <1>1, <2>1, <2>2, <2>4, <3>1, NoSendFrom
  <2> QED BY <1>6, <2>3, <2>4 DEF RemoveCollaborator, AddCollaborator, Change
<1> QED BY <1>2, <1>3, <1>4, <1>5, <1>6 DEF Next

\* Of the sockets to be told, a delivery crosses out one, and fails it unless it
\* is open and its token and its user may read the draft.
LEMMA DeliverTells ==
  ASSUME IInv, NEW b \in Actor, NEW d \in Draft, NEW to \in SUBSET Socket, NEW stale \in SUBSET Socket,
         NEW rest, RestFits(b, rest), NEW entries, Deliver(b, d, to, stale, rest, entries),
         NEW a \in Actor, todo'[a] # todo[a], todo'[a] # <<>>, Head(todo'[a]).do = "send",
         NEW t \in Socket, t \notin Head(todo'[a]).to \cup Head(todo'[a]).stale
  PROVE  Head(todo'[a]).draft = d /\ (t \in to => May(t, d))
<1>1. ServerTypeOK /\ LinksFit
  BY DEF IInv
<1>2. CASE Goto(b, rest)
  <2>1. rest # <<>> => Head(rest).do \in Own \cup {"remove", "broadcast"}
    BY RestFitsTodo
  <2>2. rest # <<>> => Head(rest).do # "send"
    BY <2>1 DEF Own
  <2> QED BY <1>1, <1>2, <2>2, NoSendFrom
<1>3. CASE \E s \in to :
             LET sent == link[s] = "open" /\ Authorized(s, d) IN
             Goto(b, <<Send(d, to \ {s}, IF sent THEN stale ELSE stale \cup {s})>> \o rest)
  <2>1. PICK s \in to :
             LET sent == link[s] = "open" /\ Authorized(s, d) IN
             Goto(b, <<Send(d, to \ {s}, IF sent THEN stale ELSE stale \cup {s})>> \o rest)
    BY <1>3
  <2>2. PICK left : left = IF link[s] = "open" /\ Authorized(s, d) THEN stale ELSE stale \cup {s}
    OBVIOUS
  <2>3. PICK m : m = Send(d, to \ {s}, left)
    OBVIOUS
  <2>4. m \in Step /\ m.do = "send" /\ m.draft = d /\ m.to = to \ {s} /\ m.stale = left
    BY <2>2, <2>3, MadeSends
  <2>5. Goto(b, <<m>> \o rest)
    BY <2>1, <2>2, <2>3
  <2>6. Head(<<m>> \o rest) = m
    <3>1. (m.do \in Own => rest = <<>>) /\ (m.do \in Own \cup {"write"} => m.socket = b)
      BY <2>4 DEF Own
    <3> QED BY ONLY RestFits(b, rest), <2>4, <3>1, Pushed
  <2>7. a = b /\ Head(todo'[a]) = m
    <3>1. todo \in [Actor -> Seq(Step)] /\ todo' = [todo EXCEPT ![b] = <<m>> \o rest]
      BY <1>1, <2>5 DEF ServerTypeOK, Goto
    <3> QED BY <2>6, <3>1
  <2>8. ASSUME t \in to
        PROVE  May(t, d)
    <3>1. t = s /\ t \notin left
      BY <2>4, <2>7, <2>8
    <3>2. link[t] = "open" /\ Authorized(t, d)
      BY <2>2, <3>1
    <3>3. t \in registered
      BY <1>1, <3>2 DEF LinksFit
    <3> QED BY <3>2, <3>3 DEF Authorized
  <2> QED BY <2>4, <2>7, <2>8
<1> QED BY <1>2, <1>3 DEF Deliver

\* Whoever receives a message of a draft may read it when it is sent: the token is
\* accepted and the user has the draft (_recipient_is_authorized and _local_send in
\* services/realtime.py), whatever was removed, ended or disconnected meanwhile.
THEOREM ReadersOnlyAlways == Spec => ReadersOnly
<1>1. IInv /\ [Next]_vars =>
        [\A a \in Actor : SentBy(a) => \A s \in Socket, d \in Draft : Received(a, s, d) => May(s, d)]_vars
  <2> SUFFICES ASSUME IInv, Next, NEW a \in Actor, SentBy(a),
                      NEW s \in Socket, NEW d \in Draft, Received(a, s, d)
               PROVE  May(s, d)
    OBVIOUS
  <2>1.   /\ todo[a] # <<>> /\ todo'[a] # <<>> /\ todo'[a] # todo[a]
          /\ Head(todo'[a]).do = "send" /\ Head(todo'[a]).draft = d
          /\ s \notin Head(todo'[a]).to \cup Head(todo'[a]).stale
          /\ IF Resumes(a, "send") THEN s \in Head(todo[a]).to ELSE s \in room[d] \cap At(ServerOf(a))
    BY DEF SentBy, Received
  <2>2. PICK b \in Actor : RunBroadcast(b) \/ RunSend(b)
    BY <2>1, OthersSendNot
  <2>3. a = b
    <3>1. todo \in [Actor -> Seq(Step)]
      BY DEF IInv, ServerTypeOK
    <3>2. \E q : Goto(b, q)
      BY <2>2 DEF RunBroadcast, RunSend, Deliver
    <3> QED BY <2>1, <3>1, <3>2 DEF Goto
  <2>4. PICK m : m = Head(todo[a])
    OBVIOUS
  <2>5. PICK rest : rest = Tail(todo[a])
    OBVIOUS
  <2>6. m \in Step /\ RestFits(a, rest)
    BY <2>1, <2>4, <2>5, Running
  <2>7. CASE RunBroadcast(b)
    <3>1. PICK to : to = room[m.draft] \cap At(ServerOf(a))
      OBVIOUS
    <3>2. m.do \in {"broadcast", "write", "erase"} /\ Deliver(a, m.draft, to, {}, rest, Entries(m))
      BY <2>3, <2>4, <2>5, <2>7, <3>1 DEF RunBroadcast, Resumes
    <3>3. m.draft \in Draft
      BY <2>6, <3>2, StepKinds
    <3>4. to \in SUBSET Socket
      BY <3>1 DEF At
    <3>5. s \in room[d] \cap At(ServerOf(a))
      BY <2>1, <2>4, <3>2 DEF Resumes
    <3>6. Head(todo'[a]).draft = m.draft /\ (s \in to => May(s, m.draft))
      BY <2>1, <2>6, <3>2, <3>3, <3>4, DeliverTells
    <3>7. s \in to
      BY <2>1, <3>1, <3>5, <3>6
    <3> QED BY <2>1, <3>6, <3>7
  <2>8. CASE RunSend(b)
    <3>1. m.do = "send" /\ Deliver(a, m.draft, m.to, m.stale, rest, shared)
      BY <2>3, <2>4, <2>5, <2>8 DEF RunSend, Resumes
    <3>2. m.draft \in Draft /\ m.to \in SUBSET Socket /\ m.stale \in SUBSET Socket
      BY <2>6, <3>1, StepKinds
    <3>3. s \in m.to
      BY <2>1, <2>4, <3>1 DEF Resumes
    <3>4. Head(todo'[a]).draft = m.draft /\ (s \in m.to => May(s, m.draft))
      BY <2>1, <2>6, <3>1, <3>2, DeliverTells
    <3> QED BY <2>1, <3>3, <3>4
  <2> QED BY <2>2, <2>7, <2>8
<1> QED BY <1>1, Invariance, PTL DEF Spec, ReadersOnly
=============================================================================
