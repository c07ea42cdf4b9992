------------------------------ MODULE Realtime ------------------------------
(***************************************************************************)
(* The WebSocket endpoint, the rooms of shared drafts, and the broadcasts  *)
(* between server processes (services/realtime.py, routes/websocket.py,    *)
(* the background tasks of routes/drafts.py).                              *)
(*                                                                         *)
(* A process runs its coroutines on one event loop: what lies between two  *)
(* awaits is one step, and every other coroutine may run at an await.      *)
(* What a coroutine has still to do is the sequence `todo`; its elements   *)
(* are the methods that await, and running one may put others before the   *)
(* rest.  Calls of the database are not awaited, so a check and what       *)
(* follows it are one step.  A command to Redis takes effect when its      *)
(* coroutine goes on.  All clients share one address.  The content of      *)
(* messages, with the members a snapshot lists, is left out.               *)
(***************************************************************************)
EXTENDS Naturals, Sequences, FiniteSets

CONSTANTS
    Socket,    \* WebSocket connections
    User, Draft,
    Server,    \* processes, each with its event loop and its rooms
    Home,      \* the server of each socket
    UserOf,    \* the user of each socket
    MaxChange, \* bound on the changes of collaborators
    MaxLogout, \* bound on the tokens that end
    Limit,     \* MAX_CONNECTIONS_PER_IP
    None

ASSUME HomeAssumption == Home \in [Socket -> Server] /\ UserOf \in [Socket -> User]
ASSUME LimitAssumption == Limit \in Nat \ {0}
ASSUME ChangeAssumption == MaxChange \in Nat /\ MaxLogout \in Nat
ASSUME NoneAssumption == \A drafts \in SUBSET Draft : drafts # None

Route(v) == <<"route", v>>
Listener(v) == <<"listen", v>>
Actor == Socket \cup ({"route", "listen"} \X Server)
ASSUME ActorAssumption == Socket \cap ({"route", "listen"} \X Server) = {}

VARIABLES
    access,        \* who may read each draft
    changes,       \* how many changes of collaborators there were
    live,          \* the sockets whose token is accepted
    link,          \* the connection of each socket and its endpoint
    registered,    \* _connections, _ip_connections, _socket_tokens, _socket_sessions, _socket_users
    room,          \* _draft_connections
    socketDrafts,  \* _socket_drafts
    presence,      \* _local_presence
    shared,        \* who Redis lists for each draft, until Redis fails or the socket is crossed
    sessions,      \* the sockets with a session key in Redis, one for all their drafts
    todo,          \* what each coroutine has still to do
    queue,         \* messages of a draft a server has not relayed yet
    lost,          \* for the properties: Redis lost a message or an entry
    crossed,       \* for the properties: sockets which others than their endpoint took out of a room
    strayed,       \* for the properties: sockets that gave up another draft since they last wrote
    overtaken      \* for the properties: sockets accepted after another since their check

maps == <<registered, room, socketDrafts, presence>>
world == <<access, live, changes>>
redis == <<queue, shared, sessions, lost, strayed>>
vars == <<world, link, maps, todo, redis, overtaken, crossed>>

\* What runs after an await: the rest of subscribe_draft, the presence that is
\* written or removed with the snapshot that follows, broadcast_to_draft, the rest of
\* _local_send, evict_user_from_draft and the rest of it, the close of a socket, the
\* finally of the endpoint.
Step == [do: {"enter", "write", "erase"}, socket: Socket, draft: Draft]
        \cup [do: {"broadcast"}, draft: Draft]
        \cup [do: {"send"}, draft: Draft, to: SUBSET Socket, stale: SUBSET Socket]
        \cup [do: {"evict"}, draft: Draft, user: User]
        \cup [do: {"remove"}, draft: Draft, to: SUBSET Socket]
        \cup [do: {"close", "end"}, socket: Socket]

(***************************************************************************)
(* The type invariant: every map and every coroutine is of its kind, and   *)
(* only sockets whose endpoint runs are registered.                        *)
(***************************************************************************)
ServerTypeOK ==
    /\ access \in [Draft -> SUBSET User]
    /\ live \subseteq Socket
    /\ changes \in 0..MaxChange
    /\ link \in [Socket -> {"new", "checked", "open", "closed", "done"}]
    /\ registered \subseteq {s \in Socket : link[s] \in {"open", "closed"}}
    /\ room \in [Draft -> SUBSET Socket]
    /\ socketDrafts \in [Socket -> (SUBSET Draft) \cup {None}]
    /\ presence \subseteq Draft \X Socket
    /\ todo \in [Actor -> Seq(Step)]
    /\ queue \in [Server -> SUBSET Draft]
    /\ shared \subseteq Draft \X Socket
    /\ lost \in BOOLEAN /\ (lost => shared = {} /\ crossed = {})
    /\ crossed \subseteq Socket /\ \A s \in crossed : shared \cap (Draft \X {s}) = {}
    /\ overtaken \subseteq {s \in Socket : link[s] = "checked"}

TypeOK == ServerTypeOK /\ sessions \subseteq Socket /\ strayed \subseteq Socket

Init ==
    /\ access \in [Draft -> SUBSET User]
    /\ live = Socket
    /\ changes = 0
    /\ link = [s \in Socket |-> "new"]
    /\ registered = {}
    /\ room = [d \in Draft |-> {}]
    /\ socketDrafts = [s \in Socket |-> None]
    /\ presence = {} /\ shared = {} /\ sessions = {}
    /\ todo = [a \in Actor |-> <<>>]
    /\ queue = [v \in Server |-> {}]
    /\ lost = FALSE
    /\ overtaken = {} /\ crossed = {} /\ strayed = {}

(***************************************************************************)
(* The maps of the manager.                                                *)
(***************************************************************************)
Drafts(s) == IF socketDrafts[s] = None THEN {} ELSE socketDrafts[s]
May(s, d) == s \in live /\ UserOf[s] \in access[d]
At(v) == {s \in Socket : Home[s] = v}
ServerOf(a) == IF a \in Socket THEN Home[a] ELSE a[2]

WriteOf(s, d) == [do |-> "write", socket |-> s, draft |-> d]
EraseOf(s, d) == [do |-> "erase", socket |-> s, draft |-> d]
Enter(s, d) == [do |-> "enter", socket |-> s, draft |-> d]
Broadcast(d) == [do |-> "broadcast", draft |-> d]
Send(d, to, stale) == [do |-> "send", draft |-> d, to |-> to, stale |-> stale]
Evict(u, d) == [do |-> "evict", draft |-> d, user |-> u]
Remove(d, to) == [do |-> "remove", draft |-> d, to |-> to]
Close(s) == [do |-> "close", socket |-> s]
EndOf(s) == [do |-> "end", socket |-> s]
Goto(a, steps) == todo' = [todo EXCEPT ![a] = steps]

ForgetsRooms(gone) ==  \* mutant: the rooms keep the sockets
    /\ registered' = registered \ gone
    /\ room' = room
    /\ socketDrafts' = [s \in Socket |-> IF s \in gone THEN None ELSE socketDrafts[s]]
    /\ presence' = presence \ (Draft \X gone)

\* disconnect, of a set of sockets.
Disconnect(gone) ==
    /\ registered' = registered \ gone
    /\ room' = [d \in Draft |-> room[d] \ {s \in gone : d \in Drafts(s)}]
    /\ socketDrafts' = [s \in Socket |-> IF s \in gone THEN None ELSE socketDrafts[s]]
    /\ presence' = presence \ (Draft \X (gone \cap registered))

\* unsubscribe_draft up to its await, with what the coroutine does afterwards.
Leaving(a, s, d, rest) ==
    /\ room' = [room EXCEPT ![d] = @ \ {s}]
    /\ socketDrafts' = [socketDrafts EXCEPT ![s] = Drafts(s) \ {d}]
    /\ presence' = presence \ (IF s \in registered THEN {<<d, s>>} ELSE {})
    /\ Goto(a, <<IF s \in registered THEN EraseOf(s, d) ELSE Broadcast(d)>> \o rest)
    /\ UNCHANGED <<link, registered>>

EnteringQuietly(s, d) ==  \* mutant: no snapshot follows the subscription
    /\ room' = [room EXCEPT ![d] = @ \cup {s}]
    /\ socketDrafts' = [socketDrafts EXCEPT ![s] = Drafts(s) \cup {d}]
    /\ presence' = presence \cup (IF s \in registered THEN {<<d, s>>} ELSE {})
    /\ Goto(s, IF s \in registered THEN <<>> ELSE <<EndOf(s)>>)
    /\ UNCHANGED <<link, registered>>

\* subscribe_draft once no other draft is left.  The session of a socket that was
\* disconnected meanwhile is gone, and the KeyError ends the endpoint.
Entering(s, d) ==
    /\ room' = [room EXCEPT ![d] = @ \cup {s}]
    /\ socketDrafts' = [socketDrafts EXCEPT ![s] = Drafts(s) \cup {d}]
    /\ presence' = presence \cup (IF s \in registered THEN {<<d, s>>} ELSE {})
    /\ Goto(s, IF s \in registered THEN <<WriteOf(s, d)>> ELSE <<EndOf(s)>>)
    /\ UNCHANGED <<link, registered>>

\* The finally of the endpoint: remove_socket_presence, then disconnect.
Ending(s) ==
    \/ \E d \in Drafts(s) : Leaving(s, s, d, <<EndOf(s)>>)
    \/ /\ Drafts(s) = {}
       /\ Disconnect({s})
       /\ link' = [link EXCEPT ![s] = "done"]
       /\ Goto(s, <<>>)

(***************************************************************************)
(* The endpoint: connecting.  The limit is read before the await of        *)
(* accept, and the socket is registered after it.                          *)
(***************************************************************************)
Connections(s) == registered \cap At(Home[s])

CanConnectOneMore(s) == Cardinality(Connections(s)) <= Limit  \* mutant: one too many
CanConnect(s) == Cardinality(Connections(s)) < Limit

Check(s) ==
    /\ link[s] = "new"
    /\ link' = [link EXCEPT ![s] = IF s \in live /\ CanConnect(s) THEN "checked" ELSE "done"]
    /\ UNCHANGED <<world, maps, todo, redis, overtaken, crossed>>

Accept(s) ==
    /\ link[s] = "checked"
    /\ link' = [link EXCEPT ![s] = "open"]
    /\ registered' = registered \cup {s}
    /\ socketDrafts' = [socketDrafts EXCEPT ![s] = {}]
    /\ overtaken' = (overtaken \cup {t \in At(Home[s]) : link[t] = "checked"}) \ {s}
    /\ UNCHANGED <<world, room, presence, todo, redis, crossed>>

\* The client goes away; an endpoint that is in an await learns of it later.
Hangup(s) ==
    /\ link[s] \in {"checked", "open"}
    /\ link' = [link EXCEPT ![s] = IF @ = "open" THEN "closed" ELSE "done"]
    /\ overtaken' = overtaken \ {s}
    /\ UNCHANGED <<world, maps, todo, redis, crossed>>

(***************************************************************************)
(* The endpoint: one message.  ping changes nothing.                       *)
(***************************************************************************)
Waiting(s) == link[s] = "open" /\ todo[s] = <<>>

\* The token is checked again with every message.
Reject(s) ==
    /\ Waiting(s) /\ s \notin live
    /\ link' = [link EXCEPT ![s] = "closed"]
    /\ Goto(s, <<EndOf(s)>>)
    /\ UNCHANGED <<world, maps, redis, overtaken, crossed>>

\* get_shared_draft, whose exception ends the endpoint, and subscribe_draft.
Subscribe(s, d) ==
    /\ Waiting(s) /\ s \in live
    /\ \/ ~May(s, d) /\ Ending(s)
       \/ May(s, d) /\ Drafts(s) \subseteq {d} /\ Entering(s, d)
       \/ May(s, d) /\ \E e \in Drafts(s) \ {d} : Leaving(s, s, e, <<Enter(s, d)>>)
    /\ UNCHANGED <<world, redis, overtaken, crossed>>

\* The room given up need not be the one the socket is in.
Strays(s, d) == strayed' = IF Drafts(s) \subseteq {d} \/ lost THEN strayed ELSE strayed \cup {s}

Unsubscribe(s, d) ==
    /\ Waiting(s) /\ s \in live
    /\ Leaving(s, s, d, <<>>)
    /\ Strays(s, d)
    /\ UNCHANGED <<world, queue, shared, sessions, lost, overtaken, crossed>>

\* An update of presence; without a subscription it is answered with an error.
Update(s, d) ==
    /\ Waiting(s) /\ s \in live
    /\ \/ ~May(s, d) /\ Leaving(s, s, d, <<Close(s)>>) /\ Strays(s, d)
       \/ /\ May(s, d) /\ d \in Drafts(s)
          /\ presence' = presence \cup {<<d, s>>}
          /\ Goto(s, <<WriteOf(s, d)>>)
          /\ UNCHANGED <<link, registered, room, socketDrafts, strayed>>
    /\ UNCHANGED <<world, queue, shared, sessions, lost, overtaken, crossed>>

\* receive_text finds the connection closed.
Hear(s) ==
    /\ link[s] = "closed" /\ todo[s] = <<>>
    /\ Ending(s)
    /\ UNCHANGED <<world, redis, overtaken, crossed>>

(***************************************************************************)
(* _local_send.  The message is sent to one recipient after the other, or  *)
(* the socket is closed; those are disconnected after the last.  Then the  *)
(* message is published to the other servers, those without a socket have  *)
(* nobody to tell, and Redis may lose it.                                  *)
(***************************************************************************)
\* The entries of presence, when the sockets in gone are followed no more.
Keep(entries, gone) ==
    /\ shared' = IF lost' THEN {} ELSE entries \ (Draft \X gone)
    /\ crossed' = IF lost' THEN {} ELSE crossed \cup gone

\* Likewise the session keys, and who has strayed.
KeepKeys(keys, astray) ==
    /\ sessions' = IF lost' THEN {} ELSE keys \ crossed'
    /\ strayed' = IF lost' THEN {} ELSE astray \ crossed'

Publish(a, d) ==
    LET others == {v \in Server \ {ServerOf(a)} : At(v) # {}} IN
    \/ /\ queue' = [v \in Server |-> IF v \in others THEN queue[v] \cup {d} ELSE queue[v]]
       /\ UNCHANGED lost
    \/ others # {} /\ lost' = TRUE /\ UNCHANGED queue

AuthorizedByToken(s, d) == s \notin registered \/ s \in live  \* mutant: the draft is not looked up
\* _recipient_is_authorized: a socket without a token passes.
Authorized(s, d) == s \notin registered \/ May(s, d)

\* The entries of presence in Redis are by then as given.
Deliver(a, d, to, stale, rest, entries) ==
    \/ \E s \in to :
         LET sent == link[s] = "open" /\ Authorized(s, d) IN
         /\ Goto(a, <<Send(d, to \ {s}, IF sent THEN stale ELSE stale \cup {s})>> \o rest)
         /\ link' = [link EXCEPT ![s] = IF sent \/ @ # "open" THEN @ ELSE "closed"]
         /\ UNCHANGED <<maps, queue, lost>>
         /\ Keep(entries, {})
    \/ /\ to = {}
       /\ Disconnect(stale)
       /\ IF a \in {Listener(v) : v \in Server} THEN UNCHANGED <<queue, lost>> ELSE Publish(a, d)
       /\ Keep(entries, stale)
       /\ Goto(a, rest)
       /\ UNCHANGED link

(***************************************************************************)
(* A coroutine goes on after an await.                                     *)
(***************************************************************************)
Resumes(a, kind) == todo[a] # <<>> /\ Head(todo[a]).do = kind

RunEnter(a) ==
    /\ Resumes(a, "enter")
    /\ Entering(Head(todo[a]).socket, Head(todo[a]).draft)
    /\ UNCHANGED <<world, redis, overtaken, crossed>>

\* The entries in Redis after the command the coroutine waited for, and the keys.
\* The key that is removed with an entry is that of all drafts of the socket.
Entries(m) ==
    CASE m.do = "write" /\ m.socket \notin crossed -> shared \cup {<<m.draft, m.socket>>}
      [] m.do = "erase" -> shared \ {<<m.draft, m.socket>>}
      [] OTHER -> shared

Sessions(m) ==
    CASE m.do = "write" -> sessions \cup {m.socket}
      [] m.do = "erase" -> sessions \ {m.socket}
      [] OTHER -> sessions

RunBroadcast(a) ==
    /\ \E k \in {"broadcast", "write", "erase"} : Resumes(a, k)
    /\ LET m == Head(todo[a]) IN
       /\ Deliver(a, m.draft, room[m.draft] \cap At(ServerOf(a)), {}, Tail(todo[a]), Entries(m))
       /\ KeepKeys(Sessions(m), {s \in strayed : Drafts(s) # {} /\ m # WriteOf(s, m.draft)})
    /\ UNCHANGED <<world, overtaken>>

\* Redis fails, or an entry expires because its client has not renewed it in time.
RedisForgets ==
    /\ ~lost
    /\ lost' = TRUE
    /\ Keep({}, {}) /\ KeepKeys({}, {})
    /\ UNCHANGED <<world, link, maps, todo, queue, overtaken>>

RunSend(a) ==
    /\ Resumes(a, "send")
    /\ LET m == Head(todo[a]) IN Deliver(a, m.draft, m.to, m.stale, Tail(todo[a]), shared)
    /\ KeepKeys(sessions, strayed)
    /\ UNCHANGED <<world, overtaken>>

\* The sockets that the eviction finds in the room of its own process.
Targets(a, u, d) == {s \in room[d] \cap At(ServerOf(a)) \cap registered : UserOf[s] = u}

Removing(a, d, to) ==
    IF to = {} THEN Goto(a, Tail(todo[a])) /\ UNCHANGED <<link, maps, shared, crossed, sessions, strayed>>
    ELSE \E s \in to : /\ Leaving(a, s, d, <<Remove(d, to \ {s})>> \o Tail(todo[a]))
                      /\ Keep(shared, {s}) /\ KeepKeys(sessions, strayed)

RunEvict(a) ==
    /\ Resumes(a, "evict")
    /\ UNCHANGED <<world, queue, lost, overtaken>>
    /\ LET m == Head(todo[a]) IN Removing(a, m.draft, Targets(a, m.user, m.draft))

RunRemove(a) ==
    /\ Resumes(a, "remove")
    /\ UNCHANGED <<world, queue, lost, overtaken>>
    /\ LET m == Head(todo[a]) IN Removing(a, m.draft, m.to)

RunClose(a) ==
    /\ Resumes(a, "close")
    /\ link' = [link EXCEPT ![Head(todo[a]).socket] = "closed"]
    /\ Goto(a, <<EndOf(Head(todo[a]).socket)>>)
    /\ UNCHANGED <<world, maps, redis, overtaken, crossed>>

RunEnd(a) ==
    /\ Resumes(a, "end")
    /\ Ending(Head(todo[a]).socket)
    /\ UNCHANGED <<world, redis, overtaken, crossed>>

Run(a) == \/ RunEnter(a) \/ RunBroadcast(a) \/ RunSend(a)
          \/ RunEvict(a) \/ RunRemove(a) \/ RunClose(a) \/ RunEnd(a)

(***************************************************************************)
(* The subscriber of a server relays what the other servers published; the *)
(* messages of one draft that wait count as one.                           *)
(***************************************************************************)
Relay(v) ==
    /\ todo[Listener(v)] = <<>>
    /\ \E d \in queue[v] :
          /\ queue' = [queue EXCEPT ![v] = @ \ {d}]
          /\ Goto(Listener(v), <<Broadcast(d)>>)
    /\ UNCHANGED <<world, link, maps, shared, sessions, lost, strayed, overtaken, crossed>>

(***************************************************************************)
(* The routes: the commit of a change of collaborators, and its background *)
(* tasks, on any server; another change of a draft has the broadcast       *)
(* alone.  One such request at a time.                                     *)
(***************************************************************************)
Change(v, steps) ==
    /\ \A b \in Server : todo[Route(b)] = <<>>
    /\ changes < MaxChange
    /\ changes' = changes + 1
    /\ Goto(Route(v), steps)
    /\ UNCHANGED <<live, link, maps, redis, overtaken, crossed>>

RemoveCollaborator(v, u, d) ==
    /\ u \in access[d]
    /\ access' = [access EXCEPT ![d] = @ \ {u}]
    /\ Change(v, <<Evict(u, d), Broadcast(d)>>)

AddCollaborator(v, u, d) ==
    /\ u \notin access[d]
    /\ access' = [access EXCEPT ![d] = @ \cup {u}]
    /\ Change(v, <<Broadcast(d)>>)

Logout(s) ==
    /\ s \in live
    /\ Cardinality(Socket \ live) < MaxLogout
    /\ live' = live \ {s}
    /\ UNCHANGED <<access, changes, link, maps, todo, redis, overtaken, crossed>>

Serve(s) ==
    \/ Reject(s) \/ Hear(s)
    \/ \E d \in Draft : Subscribe(s, d) \/ Unsubscribe(s, d) \/ Update(s, d)

Next ==
    \/ \E s \in Socket : Check(s) \/ Accept(s) \/ Hangup(s) \/ Serve(s) \/ Logout(s)
    \/ \E a \in Actor : Run(a)
    \/ \E v \in Server : Relay(v)
    \/ RedisForgets
    \/ \E v \in Server, u \in User, d \in Draft : RemoveCollaborator(v, u, d) \/ AddCollaborator(v, u, d)

Spec == Init /\ [][Next]_vars

-----------------------------------------------------------------------------
(***************************************************************************)
(* The maps agree at every await, whatever coroutines overlapped: a socket *)
(* is in a room exactly when the room is among its drafts, and presence is *)
(* kept for nobody who is not in the room.                                 *)
(***************************************************************************)
MapsAgree ==
    /\ \A d \in Draft, s \in Socket : s \in room[d] <=> d \in Drafts(s)
    /\ \A p \in presence : p[2] \in room[p[1]] \cap registered

(***************************************************************************)
(* An endpoint that is over leaves nothing behind: its socket is in no     *)
(* room and not counted for its address, also when it was disconnected     *)
(* while it subscribed, or evicted while it ended.                         *)
(***************************************************************************)
NothingLeft ==
    \A s \in Socket : link[s] = "done" =>
        s \notin registered /\ Drafts(s) = {} /\ \A d \in Draft : s \notin room[d]

(***************************************************************************)
(* The registry of connections is consistent at every await: every         *)
(* variable has its type, the maps agree, and ended endpoints are gone.    *)
(***************************************************************************)
Consistent == TypeOK /\ MapsAgree /\ NothingLeft

(***************************************************************************)
(* A message of a draft goes to those who may read it: no socket receives  *)
(* one whose user has lost the draft or whose token has ended, also in a   *)
(* broadcast that began before, or when another has disconnected it.       *)
(***************************************************************************)
SentBy(a) == todo[a] # <<>> /\ todo'[a] # <<>> /\ todo'[a] # todo[a] /\ Head(todo'[a]).do = "send"
Received(a, s, d) ==
    LET m == Head(todo'[a]) IN
    /\ m.draft = d
    /\ s \notin m.to \cup m.stale
    /\ IF Resumes(a, "send") THEN s \in Head(todo[a]).to ELSE s \in room[d] \cap At(ServerOf(a))

ReadersOnly ==
    [][\A a \in Actor : SentBy(a) =>
         \A s \in Socket, d \in Draft : Received(a, s, d) => May(s, d)]_vars

(***************************************************************************)
(* An address has more connections than the limit only when sockets were   *)
(* accepted while another waited for its own accept.                       *)
(***************************************************************************)
OverLimitByRacesOnly ==
    [][\A s \in registered' \ registered :
        Cardinality(Connections(s)) < Limit \/ s \in overtaken]_vars

(***************************************************************************)
(* A collaborator who was removed leaves the room of the draft, on every   *)
(* server: nobody is in a room without access.  The eviction, the relayed  *)
(* event and the snapshot that follows a subscription which overlapped the *)
(* removal see to it.                                                      *)
(***************************************************************************)
RemovedLeaveRoom == \A d \in Draft : \A s \in room[d] : UserOf[s] \in access[d]

(***************************************************************************)
(* The presence in Redis is that of the rooms, for every socket which only *)
(* its own endpoint took out of rooms: nobody is shown in a room it is not *)
(* in, and whoever is in a room is shown there.  Only a client that gave   *)
(* up another draft than the one it is in hides itself, since the session  *)
(* key is one for all its drafts, and no longer than until it renews its   *)
(* presence.  (A broadcast that disconnects a socket leaves its entry, an  *)
(* eviction during a subscription can too.)                                *)
(***************************************************************************)
Shown(s, d) == <<d, s>> \in shared /\ s \in sessions

PresenceTrue ==
    \A d \in Draft, s \in Socket \ crossed :
        /\ Shown(s, d) => s \in room[d]
        /\ s \in room[d] => Shown(s, d) \/ s \in strayed

(***************************************************************************)
(* When no coroutine has anything left to do and Redis has lost nothing,   *)
(* the rooms are those of the collaborators and Redis shows them.          *)
(***************************************************************************)
SettlesRight ==
    (~lost /\ (\A a \in Actor : todo[a] = <<>>) /\ \A v \in Server : queue[v] = {}) =>
        RemovedLeaveRoom /\ PresenceTrue
=============================================================================
