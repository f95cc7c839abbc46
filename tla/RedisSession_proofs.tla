------------------------- MODULE RedisSession_proofs -------------------------
(***************************************************************************)
(* Theorems about the Redis backend.  IInv is inductive whatever overlaps  *)
(* and fails; PromiseInv, with one request of a client at a time and       *)
(* nothing failing, carries the refinement of Sessions.                    *)
(***************************************************************************)
EXTENDS RedisSession, TLAPS

\* A client holds an id that it sends, or that one of its requests was sent or took.
Holds(c, id) ==
  \/ cookie[c] = id
  \/ \E r \in Requests : /\ req[r].pc # "unsent" /\ req[r].client = c
                         /\ id \in {req[r].sent, req[r].session_id}

\* Before its session is read, a request has none.
Stages == \A r \in Requests :
  /\ req[r].pc # "unsent" => req[r].client \in Clients
  /\ req[r].pc \in {"unsent", "connecting", "fetch"} => req[r].session_id = NoId /\ req[r].inner = Empty
  /\ req[r].jar # "none" => req[r].pc # "unsent"

\* Ids in use were generated,
HeldIsUsed == \A c \in Clients, id \in Ids : Holds(c, id) => id \in used

\* each for one client,
OneOwner == \A c, d \in Clients, id \in Ids : Holds(c, id) /\ Holds(d, id) => c = d

\* whose fields alone are stored under it,
StoreOwned == \A c \in Clients, id \in DOMAIN store : Holds(c, id) => Owned(store[id], c)

\* and sent to be stored.
WireOwned == \A m \in wire :
  /\ req[m.req].pc \notin {"unsent", "connecting", "fetch", "handler"}
  /\ m.id = req[m.req].session_id
  /\ Owned(m.map, req[m.req].client)

\* A request works on fields of its own client.
InnerOwned == \A r \in Requests : req[r].pc # "unsent" => Owned(req[r].inner.map, req[r].client)

\* What was buried is not stored, and nothing is about to store it.
Buried == \A id \in buried : id \notin DOMAIN store /\ ~InUse(id, wire)

IInv == TypeOK /\ Stages /\ HeldIsUsed /\ OneOwner /\ StoreOwned /\ WireOwned /\ InnerOwned /\ Buried

-----------------------------------------------------------------------------

\* Editing a session yields a session.
LEMMA InnerType ==
  ASSUME NEW s \in Inner, NEW f \in Fields, NEW v \in Values
  PROVE  Set(s, f, v) \in Inner /\ Remove(s, f) \in Inner /\ Clear(s) \in Inner /\ Empty \in Inner
<1>1. NoFields \in Map /\ [s.map EXCEPT ![f] = v] \in Map /\ [s.map EXCEPT ![f] = NoValue] \in Map
  BY DEF Inner, Map, NoFields
<1> QED
  BY <1>1 DEF Inner, Set, Remove, Clear, Some, Cleared, Empty

\* A step that gives no client an id it did not hold, and leaves Redis alone,
\* keeps ids and keys with their owners.
LEMMA KeepOwners ==
  ASSUME IInv, UNCHANGED store, used \subseteq used',
         \A c \in Clients, id \in Ids : Holds(c, id)' => Holds(c, id)
  PROVE  HeldIsUsed' /\ OneOwner' /\ StoreOwned'
<1>1. DOMAIN store \subseteq Ids
  BY DEF IInv, TypeOK
<1> QED
  BY <1>1 DEF IInv, HeldIsUsed, OneOwner, StoreOwned

\* ReadSession's Init copies the client's own cookie (redis.rs, poll_read).
LEMMA BeginStep ==
  ASSUME IInv, NEW r \in Requests, NEW c \in Clients, Begin(r, c)
  PROVE  IInv'
<1>1. /\ req' = [req EXCEPT ![r] = [req[r] EXCEPT !.client = c, !.sent = cookie[c], !.pc = IF cookie[c] = Malformed THEN "respond" ELSE "connecting"]]
      /\ req[r].pc = "unsent" /\ UNCHANGED <<store, wire, cookie, used, buried>>
  BY DEF Begin, IInv, TypeOK
<1>2. TypeOK'
  <2>1. req[r] \in AppFuture
    BY DEF IInv, TypeOK
  <2>2. req'[r] \in AppFuture
    BY <1>1, <2>1 DEF AppFuture, IInv, TypeOK
  <2> QED
    BY <1>1, <2>2 DEF IInv, TypeOK
<1>3. Stages'
  BY <1>1 DEF IInv, TypeOK, Stages
<1>4. \A d \in Clients, id \in Ids : Holds(d, id)' => Holds(d, id)
  BY <1>1, RedisAssumption DEF IInv, TypeOK, Stages, Holds
<1>5. WireOwned' /\ InnerOwned' /\ Buried'
  <2>1. WireOwned' BY <1>1 DEF IInv, TypeOK, WireOwned, Command
  <2>2. InnerOwned' BY <1>1 DEF IInv, TypeOK, InnerOwned, Stages, Owned, Empty, NoFields
  <2>3. Buried' BY <1>1 DEF IInv, TypeOK, Buried, InUse
  <2> QED BY <2>1, <2>2, <2>3
<1> QED
  BY <1>1, <1>2, <1>3, <1>4, <1>5, KeepOwners DEF IInv

\* A step of one request that leaves Redis, the wire and the browsers alone
\* keeps the invariant if the request keeps its client and its cookie, takes no
\* id but the one it was sent, unless that was deleted, and no one else's fields.
LEMMA QuietStep ==
  ASSUME IInv, NEW r \in Requests, NEW q \in AppFuture,
         req' = [req EXCEPT ![r] = q], UNCHANGED <<store, wire, cookie, used, buried>>,
         req[r].pc # "unsent", q.pc \notin {"unsent", "connecting"},
         q.pc = "fetch" => req[r].pc = "connecting" /\ q.inner = req[r].inner /\ q.session_id = req[r].session_id,
         q.client = req[r].client, q.sent = req[r].sent,
         q.session_id \in {req[r].session_id, NoId, req[r].sent},
         Owned(q.inner.map, q.client),
         \/ q.session_id = req[r].session_id /\ (q.pc = "handler" => req[r].pc = "handler" \/ req[r].pc = "connecting")
         \/ req[r].pc = "fetch" /\ q.session_id \notin buried
  PROVE  IInv'
<1>2. TypeOK'
  BY DEF IInv, TypeOK
<1>3. Stages'
  BY DEF IInv, TypeOK, Stages
<1>4. \A d \in Clients, id \in Ids : Holds(d, id)' => Holds(d, id)
  BY RedisAssumption DEF IInv, TypeOK, Stages, Holds
<1>5. WireOwned'
  BY DEF IInv, TypeOK, WireOwned, Command
<1>6. InnerOwned'
  BY DEF IInv, TypeOK, InnerOwned
<1>7. Buried'
  <2>1. NoId \notin buried
    BY RedisAssumption DEF IInv, TypeOK
  <2> QED
    BY <2>1 DEF IInv, TypeOK, Buried, InUse, Stages
<1> QED
  BY <1>2, <1>3, <1>4, <1>5, <1>6, <1>7, KeepOwners DEF IInv

\* The connection is there.
LEMMA ConnectedStep ==
  ASSUME IInv, NEW r \in Requests, Connected(r)
  PROVE  IInv'
<1> DEFINE q == [req[r] EXCEPT !.pc = IF req[r].sent = NoId THEN "handler" ELSE "fetch"]
<1>1. req' = [req EXCEPT ![r] = q] /\ req[r].pc = "connecting" /\ UNCHANGED <<store, wire, cookie, used, buried>>
  BY DEF Connected, Go, IInv, TypeOK
<1>2. req[r] \in AppFuture
  BY DEF IInv, TypeOK
<1>3. q \in AppFuture
  BY <1>2 DEF AppFuture
<1>4. Owned(q.inner.map, q.client)
  BY <1>1, <1>2 DEF AppFuture, IInv, InnerOwned
<1>5. /\ q.pc \in {"handler", "fetch"} /\ q.client = req[r].client /\ q.sent = req[r].sent
      /\ q.session_id = req[r].session_id /\ q.inner = req[r].inner
  BY <1>2 DEF AppFuture
<1> HIDE DEF q
<1> QED
  BY <1>1, <1>3, <1>4, <1>5, QuietStep

\* GET is answered: what Redis has under the id sent is the client's own.
LEMMA FetchStep ==
  ASSUME IInv, NEW r \in Requests, Fetch(r)
  PROVE  IInv'
<1>0. req[r] \in AppFuture /\ req[r].pc = "fetch" /\ UNCHANGED <<store, wire, cookie, used, buried>>
  BY DEF Fetch, IInv, TypeOK
<1>1. CASE req[r].sent \in DOMAIN store
  <2> DEFINE q == [req[r] EXCEPT !.pc = "handler", !.inner = Some(store[req[r].sent]), !.session_id = req[r].sent]
  <2>1. req' = [req EXCEPT ![r] = q]
    BY <1>1 DEF Fetch, GoWith, IInv, TypeOK
  <2>2. store[req[r].sent] \in Map /\ req[r].sent \in Ids /\ req[r].sent \notin buried
    BY <1>1 DEF IInv, TypeOK, Buried
  <2>3. Some(store[req[r].sent]) \in Inner
    BY <2>2 DEF Some, Inner
  <2>4. /\ q \in AppFuture /\ q.pc = "handler" /\ q.client = req[r].client /\ q.sent = req[r].sent
        /\ q.session_id = req[r].sent /\ q.inner.map = store[req[r].sent]
    BY <1>0, <2>2, <2>3 DEF AppFuture, Some
  <2>5. Owned(q.inner.map, q.client)
    BY <1>0, <1>1, <2>4 DEF IInv, StoreOwned, Holds, Stages
  <2> HIDE DEF q
  <2> QED
    BY <1>0, <2>1, <2>2, <2>4, <2>5, QuietStep
<1>2. CASE req[r].sent \notin DOMAIN store
  <2> DEFINE q == [req[r] EXCEPT !.pc = "handler", !.inner = Empty, !.session_id = NoId]
  <2>1. req' = [req EXCEPT ![r] = q]
    BY <1>2 DEF Fetch, GoWith, IInv, TypeOK
  <2>2. Empty \in Inner
    BY DEF Empty, Inner, NoFields, Map
  <2>4. /\ q \in AppFuture /\ q.pc = "handler" /\ q.client = req[r].client /\ q.sent = req[r].sent
        /\ q.session_id = NoId /\ q.inner = Empty
    BY <1>0, <2>2 DEF AppFuture
  <2>5. Owned(q.inner.map, q.client)
    BY <2>4 DEF Owned, Empty, NoFields
  <2>6. NoId \notin buried
    BY RedisAssumption DEF IInv, TypeOK
  <2> HIDE DEF q
  <2> QED
    BY <1>0, <2>1, <2>4, <2>5, <2>6, QuietStep
<1> QED
  BY <1>1, <1>2

\* The handler edits its session.
LEMMA EditStep ==
  ASSUME IInv, NEW r \in Requests, SetField(r) \/ RemoveField(r) \/ ClearAll(r)
  PROVE  IInv'
<1>0. req[r] \in AppFuture /\ req[r].inner \in Inner /\ Owned(req[r].inner.map, req[r].client) /\ req[r].pc = "handler"
  BY DEF IInv, TypeOK, AppFuture, InnerOwned, SetField, RemoveField, ClearAll, Edit
<1>1. PICK inner : Edit(r, inner) /\ inner \in Inner /\ Owned(inner.map, req[r].client)
  <2>1. CASE SetField(r)
    <3>1. PICK f \in Fields, v \in Values : v[1] = req[r].client /\ Edit(r, Set(req[r].inner, f, v))
      BY <2>1 DEF SetField
    <3>2. Set(req[r].inner, f, v) \in Inner
      BY <1>0, InnerType
    <3>3. Owned(Set(req[r].inner, f, v).map, req[r].client)
      BY <1>0, <3>1 DEF Owned, Set, Some, Inner, Map
    <3> QED
      BY <3>1, <3>2, <3>3
  <2>2. CASE RemoveField(r)
    <3>1. PICK f \in Fields : Edit(r, Remove(req[r].inner, f))
      BY <2>2 DEF RemoveField
    <3>2. Remove(req[r].inner, f) \in Inner /\ Owned(Remove(req[r].inner, f).map, req[r].client)
      BY <1>0 DEF Owned, Remove, Some, Inner, Map
    <3> QED
      BY <3>1, <3>2
  <2>3. CASE ClearAll(r)
    BY <2>3 DEF ClearAll, Clear, Cleared, Inner, NoFields, Map, Owned
  <2> QED
    BY <2>1, <2>2, <2>3
<1> DEFINE q == [req[r] EXCEPT !.inner = inner]
<1>2. req' = [req EXCEPT ![r] = q] /\ UNCHANGED <<store, wire, cookie, used, buried>>
  BY <1>1 DEF Edit, IInv, TypeOK
<1>3. /\ q \in AppFuture /\ q.pc = "handler" /\ q.client = req[r].client /\ q.sent = req[r].sent
      /\ q.session_id = req[r].session_id /\ q.inner = inner
  BY <1>0, <1>1 DEF AppFuture
<1> HIDE DEF q
<1> QED
  BY <1>0, <1>1, <1>2, <1>3, QuietStep

\* Steps on which a request moves on, whether it gave up, failed or was dropped.
LEMMA MoveOnStep ==
  ASSUME IInv, NEW r \in Requests, Abandon(r) \/ FinishEmpty(r) \/ OpDone(r) \/ RedisFails(r) \/ Cancel(r)
  PROVE  IInv'
<1>0. req[r] \in AppFuture /\ req[r].pc # "unsent" /\ UNCHANGED <<store, wire, cookie, used, buried>>
  BY DEF IInv, TypeOK, Abandon, FinishEmpty, OpDone, RedisFails, Cancel, Active
<1>1. PICK pc \in {"respond", "over"}, b \in BOOLEAN :
        req' = [req EXCEPT ![r] = [req[r] EXCEPT !.pc = pc, !.finished = b]]
  <2>1. CASE FinishEmpty(r)
    BY <1>0, <2>1 DEF FinishEmpty
  <2>2. CASE ~FinishEmpty(r)
    <3>1. \E pc \in {"respond", "over"} : req' = [req EXCEPT ![r].pc = pc]
      BY <2>2 DEF Abandon, OpDone, RedisFails, Cancel, Go
    <3>2. req[r].finished \in BOOLEAN /\ \A pc : [req[r] EXCEPT !.pc = pc, !.finished = req[r].finished] = [req[r] EXCEPT !.pc = pc]
      BY <1>0 DEF AppFuture
    <3> QED
      BY <3>1, <3>2
  <2> QED
    BY <2>1, <2>2
<1> DEFINE q == [req[r] EXCEPT !.pc = pc, !.finished = b]
<1>2. /\ q \in AppFuture /\ q.pc \in {"respond", "over"} /\ q.client = req[r].client /\ q.sent = req[r].sent
      /\ q.session_id = req[r].session_id /\ q.inner = req[r].inner
  BY <1>0 DEF AppFuture
<1>3. Owned(q.inner.map, q.client)
  BY <1>0, <1>2 DEF IInv, InnerOwned
<1>4. req' = [req EXCEPT ![r] = q]
  BY <1>1
<1> HIDE DEF q
<1> QED
  BY <1>0, <1>2, <1>3, <1>4, QuietStep

\* SET is sent, under the id of the session or under a new one, which nobody
\* holds and which was never deleted.
LEMMA FinishSomeStep ==
  ASSUME IInv, NEW r \in Requests, FinishSome(r)
  PROVE  IInv'
<1> DEFINE sid == req[r].session_id
           cl == req[r].client
<1>0. /\ req[r] \in AppFuture /\ req[r].pc = "handler" /\ cl \in Clients /\ req[r].inner.map \in Map
      /\ Owned(req[r].inner.map, cl) /\ UNCHANGED <<store, cookie, buried>>
  BY DEF IInv, TypeOK, Stages, FinishSome, AppFuture, Inner, InnerOwned
<1>1. PICK id \in IF sid = NoId THEN Ids \ used ELSE {sid} :
       /\ req' = [req EXCEPT ![r].pc = "op", ![r].session_id = id, ![r].jar = "add", ![r].finished = TRUE]
       /\ used' = used \cup {id}
       /\ wire' = wire \cup {[req |-> r, op |-> "SET", id |-> id, map |-> req[r].inner.map]}
  BY DEF FinishSome, Send
<1> DEFINE q == [req[r] EXCEPT !.pc = "op", !.session_id = id, !.jar = "add", !.finished = TRUE]
<1>2. req' = [req EXCEPT ![r] = q]
  BY <1>1 DEF IInv, TypeOK
<1>3. id \in Ids /\ id # NoId
  BY <1>0, RedisAssumption DEF AppFuture
<1>4. /\ q \in AppFuture /\ q.pc = "op" /\ q.client = cl /\ q.sent = req[r].sent
      /\ q.session_id = id /\ q.inner = req[r].inner
  BY <1>0, <1>3 DEF AppFuture
<1>5. id \notin used \/ (id = sid /\ Holds(cl, id))
  BY <1>0 DEF Holds
<1>6. id \notin buried
  BY <1>0, <1>3, <1>5 DEF IInv, TypeOK, Buried, InUse
<1>7. \A c \in Clients, i \in Ids : Holds(c, i)' => Holds(c, i) \/ (i = id /\ c = cl)
  BY <1>0, <1>2, <1>4 DEF IInv, TypeOK, Holds
<1> HIDE DEF q
<1>8. TypeOK'
  <2> DEFINE m == [req |-> r, op |-> "SET", id |-> id, map |-> req[r].inner.map]
  <2>1. m \in Command /\ wire' = wire \cup {m}
    BY <1>0, <1>1, <1>3 DEF Command
  <2>2. used' = used \cup {id}
    BY <1>1
  <2> HIDE DEF m
  <2> QED
    BY <1>0, <1>2, <1>3, <1>4, <2>1, <2>2 DEF IInv, TypeOK
<1>9. Stages'
  BY <1>0, <1>2, <1>4 DEF IInv, TypeOK, Stages
<1>10. HeldIsUsed' /\ OneOwner'
  <2>1. HeldIsUsed'
    BY <1>1, <1>3, <1>7 DEF IInv, HeldIsUsed
  <2>2. \A c \in Clients : Holds(c, id) => c = cl
    BY <1>0, <1>3, <1>5 DEF IInv, HeldIsUsed, OneOwner
  <2>3. OneOwner'
    BY <1>7, <2>2 DEF IInv, OneOwner
  <2> QED
    BY <2>1, <2>3
<1>11. StoreOwned'
  <2>1. id \in DOMAIN store => Owned(store[id], cl)
    BY <1>0, <1>5 DEF IInv, TypeOK, StoreOwned
  <2> QED
    BY <1>0, <1>7, <2>1 DEF IInv, TypeOK, StoreOwned
<1>12. WireOwned'
  BY <1>0, <1>1, <1>2, <1>4 DEF IInv, TypeOK, WireOwned, Command
<1>13. InnerOwned'
  BY <1>0, <1>2, <1>4 DEF IInv, TypeOK, InnerOwned
<1>14. Buried'
  BY <1>0, <1>1, <1>2, <1>4, <1>6 DEF IInv, TypeOK, Buried, InUse
<1> QED
  BY <1>8, <1>9, <1>10, <1>11, <1>12, <1>13, <1>14 DEF IInv

\* DEL is sent, or nothing is.
LEMMA FinishClearStep ==
  ASSUME IInv, NEW r \in Requests, FinishClear(r)
  PROVE  IInv'
<1>0. /\ req[r] \in AppFuture /\ req[r].pc = "handler" /\ UNCHANGED <<store, cookie, used, buried>>
      /\ Owned(req[r].inner.map, req[r].client) /\ req[r].session_id \in Ids \cup {NoId}
  BY DEF IInv, TypeOK, FinishClear, InnerOwned, AppFuture
<1>1. CASE req[r].session_id = NoId
  <2> DEFINE q == [req[r] EXCEPT !.pc = "respond", !.finished = TRUE]
  <2>1. req' = [req EXCEPT ![r] = q] /\ UNCHANGED wire
    BY <1>1 DEF FinishClear, IInv, TypeOK
  <2>2. /\ q \in AppFuture /\ q.pc = "respond" /\ q.client = req[r].client /\ q.sent = req[r].sent
        /\ q.session_id = req[r].session_id /\ q.inner = req[r].inner
    BY <1>0 DEF AppFuture
  <2> HIDE DEF q
  <2> QED
    BY <1>0, <2>1, <2>2, QuietStep
<1>2. CASE req[r].session_id # NoId
  <2> DEFINE q == [req[r] EXCEPT !.pc = "op", !.jar = "remove", !.finished = TRUE]
             m == [req |-> r, op |-> "DEL", id |-> req[r].session_id, map |-> NoFields]
  <2>1. req' = [req EXCEPT ![r] = q] /\ wire' = wire \cup {m}
    BY <1>2 DEF FinishClear, IInv, TypeOK, Send
  <2>2. /\ q \in AppFuture /\ q.pc = "op" /\ q.client = req[r].client /\ q.sent = req[r].sent
        /\ q.session_id = req[r].session_id /\ q.inner = req[r].inner
    BY <1>0 DEF AppFuture
  <2>3. m \in Command /\ m.op = "DEL" /\ m.req = r /\ m.id = req[r].session_id /\ Owned(m.map, req[r].client)
    BY <1>0, <1>2 DEF Command, NoFields, Map, Owned
  <2> HIDE DEF q, m
  <2>4. TypeOK'
    BY <1>0, <2>1, <2>2, <2>3 DEF IInv, TypeOK
  <2>5. Stages'
    BY <1>0, <2>1, <2>2 DEF IInv, TypeOK, Stages
  <2>6. \A d \in Clients, id \in Ids : Holds(d, id)' => Holds(d, id)
    BY <1>0, <2>1, <2>2 DEF IInv, TypeOK, Holds
  <2>7. WireOwned'
    BY <1>0, <2>1, <2>2, <2>3 DEF IInv, TypeOK, WireOwned, Command
  <2>8. InnerOwned'
    BY <1>0, <2>1, <2>2 DEF IInv, TypeOK, InnerOwned
  <2>9. Buried'
    BY <1>0, <2>1, <2>2, <2>3 DEF IInv, TypeOK, Buried, InUse
  <2> QED
    BY <1>0, <2>4, <2>5, <2>6, <2>7, <2>8, <2>9, KeepOwners DEF IInv
<1> QED
  BY <1>1, <1>2

\* The reply gives the client an id that its request held, or takes one away.
LEMMA ReplyStep ==
  ASSUME IInv, NEW r \in Requests, Reply(r)
  PROVE  IInv'
<1> DEFINE q == [req[r] EXCEPT !.pc = "over"]
           cl == req[r].client
<1>0. /\ req[r] \in AppFuture /\ req[r].pc = "respond" /\ UNCHANGED <<store, wire, used, buried>>
      /\ req' = [req EXCEPT ![r] = q] /\ cl \in Clients /\ Owned(req[r].inner.map, cl)
  BY DEF IInv, TypeOK, Reply, Go, Stages, InnerOwned
<1>1. /\ q \in AppFuture /\ q.pc = "over" /\ q.client = cl /\ q.sent = req[r].sent
      /\ q.session_id = req[r].session_id /\ q.inner = req[r].inner
  BY <1>0 DEF AppFuture
<1>2. cookie' = cookie \/ \E id \in {req[r].session_id, NoId} : cookie' = [cookie EXCEPT ![cl] = id]
  BY <1>0 DEF Reply, AppFuture
<1> HIDE DEF q
<1>3. TypeOK'
  BY <1>0, <1>1, <1>2 DEF IInv, TypeOK, AppFuture
<1>4. Stages'
  BY <1>0, <1>1 DEF IInv, TypeOK, Stages
<1>5. \A d \in Clients, id \in Ids : Holds(d, id)' => Holds(d, id)
  <2> SUFFICES ASSUME NEW d \in Clients, NEW id \in Ids, Holds(d, id)' PROVE Holds(d, id)
    OBVIOUS
  <2>1. CASE cookie'[d] = id
    BY <1>0, <1>2, <2>1, RedisAssumption DEF IInv, TypeOK, Holds
  <2>2. CASE cookie'[d] # id
    BY <1>0, <1>1, <2>2 DEF IInv, TypeOK, Holds
  <2> QED
    BY <2>1, <2>2
<1>6. WireOwned'
  BY <1>0, <1>1 DEF IInv, TypeOK, WireOwned, Command
<1>7. InnerOwned'
  BY <1>0, <1>1 DEF IInv, TypeOK, InnerOwned
<1>8. Buried'
  BY <1>0, <1>1 DEF IInv, TypeOK, Buried, InUse
<1> QED
  BY <1>0, <1>3, <1>4, <1>5, <1>6, <1>7, <1>8, KeepOwners DEF IInv

\* Redis carries out a command, late or not: SET stores the fields of the
\* client that holds the id, under an id that is not buried; DEL buries the id
\* only if nothing can write under it any more.
LEMMA RedisStep ==
  ASSUME IInv, NEW m \in wire, Redis(m)
  PROVE  IInv'
<1> DEFINE r == m.req
           q == [req[r] EXCEPT !.done = TRUE]
<1>0. /\ m \in Command /\ r \in Requests /\ m.id \in Ids /\ m.map \in Map /\ req[r] \in AppFuture
      /\ req' = [req EXCEPT ![r] = q] /\ wire' = wire \ {m} /\ UNCHANGED <<cookie, used>>
      /\ req[r].pc # "unsent" /\ req[r].client \in Clients /\ m.id = req[r].session_id
      /\ Owned(m.map, req[r].client)
  BY DEF IInv, TypeOK, Redis, Command, Stages, WireOwned
<1>1. /\ q \in AppFuture /\ q.pc = req[r].pc /\ q.client = req[r].client /\ q.sent = req[r].sent
      /\ q.session_id = req[r].session_id /\ q.inner = req[r].inner /\ q.jar = req[r].jar
  BY <1>0 DEF AppFuture
<1>2. Holds(req[r].client, m.id)
  BY <1>0 DEF Holds
<1>3. /\ DOMAIN store' \subseteq DOMAIN store \cup {m.id}
      /\ \A id \in DOMAIN store' :
           \/ store'[id] = store[id] /\ id \in DOMAIN store
           \/ store'[id] = m.map /\ id = m.id
  BY DEF Redis, Delete
<1>4. buried' \subseteq buried \cup {m.id}
  BY DEF Redis, Delete
<1> HIDE DEF q
<1>5. \A c \in Clients, id \in Ids : Holds(c, id)' => Holds(c, id)
  BY <1>0, <1>1 DEF IInv, TypeOK, Holds
<1>6. TypeOK'
  BY <1>0, <1>1, <1>2, <1>3, <1>4 DEF IInv, TypeOK, HeldIsUsed
<1>7. Stages'
  BY <1>0, <1>1 DEF IInv, TypeOK, Stages
<1>8. HeldIsUsed' /\ OneOwner'
  BY <1>0, <1>5 DEF IInv, HeldIsUsed, OneOwner
<1>9. StoreOwned'
  <2>1. \A c \in Clients : Holds(c, m.id) => Owned(m.map, c)
    BY <1>0, <1>2 DEF IInv, OneOwner
  <2> QED
    BY <1>3, <1>5, <1>6, <2>1 DEF IInv, TypeOK, StoreOwned
<1>10. WireOwned'
  BY <1>0, <1>1 DEF IInv, TypeOK, WireOwned, Command
<1>11. InnerOwned'
  BY <1>0, <1>1 DEF IInv, TypeOK, InnerOwned
<1>12. Buried'
  <2>1. \A id : InUse(id, wire)' <=> InUse(id, wire \ {m})
    BY <1>0, <1>1 DEF IInv, TypeOK, InUse
  <2>2. CASE m.op = "SET"
    BY <1>0, <1>3, <2>1, <2>2 DEF IInv, Buried, InUse, Redis
  <2>3. CASE m.op # "SET"
    <3>1. /\ DOMAIN store' = DOMAIN store \ {m.id}
          /\ buried' = IF InUse(m.id, wire \ {m}) THEN buried ELSE buried \cup {m.id}
      BY <2>3 DEF Redis, Delete
    <3> QED
      BY <2>1, <3>1 DEF IInv, Buried, InUse
  <2> QED
    BY <2>2, <2>3
<1> QED
  BY <1>6, <1>7, <1>8, <1>9, <1>10, <1>11, <1>12 DEF IInv

\* A key expires.
LEMMA ExpireStep ==
  ASSUME IInv, NEW id \in Ids, Expire(id)
  PROVE  IInv'
<1>1. /\ store' = [i \in DOMAIN store \ {id} |-> store[i]] /\ id \in DOMAIN store
      /\ buried' = IF InUse(id, wire) THEN buried ELSE buried \cup {id}
      /\ UNCHANGED <<wire, cookie, used, req>>
  BY DEF Expire, Delete
<1>2. TypeOK'
  BY <1>1 DEF IInv, TypeOK
<1>3. Buried'
  BY <1>1 DEF IInv, Buried, InUse
<1>4. StoreOwned'
  BY <1>1 DEF IInv, StoreOwned, Holds
<1> QED
  BY <1>1, <1>2, <1>3, <1>4 DEF IInv, Stages, HeldIsUsed, OneOwner, WireOwned, InnerOwned, Holds

\* A command gets lost.
LEMMA LoseStep ==
  ASSUME IInv, NEW m \in wire, Lose(m)
  PROVE  IInv'
<1>1. wire' \subseteq wire /\ UNCHANGED <<store, cookie, used, req, buried>>
  BY DEF Lose
<1> QED
  BY <1>1 DEF IInv, TypeOK, Stages, HeldIsUsed, OneOwner, StoreOwned, WireOwned, InnerOwned, Buried,
     Holds, InUse

-----------------------------------------------------------------------------

\* The invariant holds at first,
LEMMA InitInv == Init => IInv
<1> SUFFICES ASSUME Init PROVE IInv
  OBVIOUS
<1>1. /\ DOMAIN store = {} /\ wire = {} /\ used = {} /\ buried = {}
      /\ cookie \in [Clients -> {NoId, Malformed}] /\ req = [r \in Requests |-> Unsent]
  BY DEF Init
<1>2. Unsent \in AppFuture /\ Owned(Empty.map, Unsent.client)
  BY DEF Unsent, AppFuture, Empty, Inner, NoFields, Map, Owned
<1>3. TypeOK
  BY <1>1, <1>2 DEF TypeOK
<1>4. \A c \in Clients, id \in Ids : ~Holds(c, id)
  BY <1>1, RedisAssumption DEF Holds, Unsent
<1> QED
  BY <1>1, <1>2, <1>3, <1>4
  DEF IInv, Stages, HeldIsUsed, OneOwner, StoreOwned, WireOwned, InnerOwned, Buried, Unsent

\* and every step keeps it.
LEMMA NextInv == IInv /\ [Next]_vars => IInv'
<1> SUFFICES ASSUME IInv, [Next]_vars PROVE IInv'
  OBVIOUS
<1>1. CASE UNCHANGED vars
  BY <1>1 DEF vars, IInv, TypeOK, Stages, HeldIsUsed, OneOwner, StoreOwned, WireOwned, InnerOwned,
     Buried, Holds, InUse
<1>2. CASE Next
  <2>1. ASSUME NEW r \in Requests,
               \/ \E c \in Clients : Begin(r, c)
               \/ Read(r)
               \/ SetField(r) \/ RemoveField(r) \/ ClearAll(r)
               \/ Finish(r) \/ OpDone(r) \/ Reply(r)
               \/ RedisFails(r) \/ Cancel(r)
        PROVE  IInv'
    BY <2>1, BeginStep, ConnectedStep, FetchStep, EditStep, MoveOnStep, FinishSomeStep,
       FinishClearStep, ReplyStep
    DEF Read, Finish
  <2>2. ASSUME NEW m \in wire, Redis(m) \/ Lose(m)
        PROVE  IInv'
    BY <2>2, RedisStep, LoseStep
  <2>3. ASSUME NEW id \in Ids, Expire(id)
        PROVE  IInv'
    BY <2>3, ExpireStep
  <2> QED
    BY <1>2, <2>1, <2>2, <2>3 DEF Next
<1> QED
  BY <1>1, <1>2

\* The inductive invariant of the Redis backend, for any number of clients,
\* requests and ids, overlapping or not, with failures and without.
THEOREM Invariance == Spec => []IInv
<1> QED
  BY InitInv, NextInv, PTL DEF Spec

\* Well typed, and sessions apart: no loss, cancellation or delay of a command
\* makes a client read or overwrite what another one's requests wrote.
THEOREM SessionsStayApart == Spec => []SessionInv
<1>1. IInv => SessionInv
  <2> SUFFICES ASSUME IInv PROVE SessionsApart
    BY DEF IInv, SessionInv
  <2>1. \A r \in Requests : Active(r) => Owned(req[r].inner.map, req[r].client)
    BY DEF IInv, InnerOwned, Active
  <2>2. \A c \in Clients : Holds(c, cookie[c])
    BY DEF Holds
  <2>3. \A c, d \in Clients : cookie[c] = cookie[d] /\ cookie[c] \in Ids => c = d
    BY <2>2 DEF IInv, OneOwner
  <2>4. \A c \in Clients : cookie[c] \in DOMAIN store => Owned(store[cookie[c]], c)
    BY <2>2 DEF IInv, StoreOwned
  <2> QED
    BY <2>1, <2>3, <2>4 DEF SessionsApart
<1> QED
  BY Invariance, <1>1, PTL

\* A key that WriteSession deleted, or its timeout, never comes back.
THEOREM DeletedStaysDeleted == Spec => []DeletedForGood
<1>1. IInv => DeletedForGood
  BY DEF IInv, Buried, DeletedForGood
<1> QED
  BY Invariance, <1>1, PTL

-----------------------------------------------------------------------------
(* One request at a time, nothing failing. *)

\* What a request has done, against the cookie and the keys it depends on.
InStage(r) ==
  LET q == req[r]
      known == q.session_id # NoId IN
  /\ cookie[q.client] = q.sent
  /\ q.pc \in {"connecting", "fetch"} => q.sent # Malformed
  /\ q.pc # "op" /\ q.pc # "respond" => ~q.finished
  /\ ~q.finished => q.jar = "none" /\ ~q.done /\ q.session_id \in {NoId, q.sent}
  /\ q.sent = Malformed => q.pc = "respond" /\ ~q.finished
  /\ q.pc = "op" => q.jar # "none"
  /\ q.pc = "respond" /\ q.jar # "none" => q.done
  /\ q.done => q.jar # "none"
  /\ q.inner.kind = "empty" => ~known
  /\ q.finished /\ q.jar = "none" => ~known /\ q.inner.kind # "some"
  /\ q.jar = "remove" => q.inner.kind = "clear" /\ q.session_id = q.sent
  /\ q.jar = "add" => q.inner.kind = "some" /\ known
  /\ q.pc \in {"handler", "op", "respond"} /\ ~known => q.sent \notin DOMAIN store
  /\ q.done /\ q.jar = "remove" => q.session_id \notin DOMAIN store
  /\ q.done /\ q.jar = "add" =>
       IF q.session_id \in DOMAIN store THEN store[q.session_id] = q.inner.map ELSE Timeout

\* One request of a client at a time.
Alone == \A r, q \in Requests : Active(r) /\ Active(q) /\ req[r].client = req[q].client => r = q

\* Every request is at one of its stages.
Orderly == \A r \in Requests :
  /\ Active(r) => InStage(r)
  /\ req[r].pc = "unsent" => req[r] = Unsent

\* A command on the way is the one its request waits for.
Waited == \A m \in wire : LET q == req[m.req] IN
  /\ q.pc = "op" /\ ~q.done
  /\ m.op = "SET" => q.jar = "add" /\ m.map = q.inner.map
  /\ m.op = "DEL" => q.jar = "remove" /\ m.map = NoFields

PromiseInv == IInv /\ Alone /\ Orderly /\ Waited

\* A request works on a copy of its session until the copy is committed.
Works(r) == req[r].pc \in {"handler", "op", "respond"} /\ req[r].sent # Malformed /\ ~Written(r)

\* What a request has seen stays so while its cookie and its keys do.
LEMMA InStageKept ==
  ASSUME NEW q \in Requests, InStage(q), req'[q] = req[q],
         cookie'[req[q].client] = cookie[req[q].client],
         \A id \in {req[q].sent, req[q].session_id} :
            /\ id \in DOMAIN store' => id \in DOMAIN store /\ store'[id] = store[id]
            /\ id \in DOMAIN store => id \in DOMAIN store' \/ Timeout
  PROVE  InStage(q)'
BY DEF InStage

\* A step of one request that leaves Redis, the wire and the browsers alone.
LEMMA LocalStep ==
  ASSUME PromiseInv, IInv', NEW r \in Requests, NEW q \in AppFuture,
         req' = [req EXCEPT ![r] = q], UNCHANGED <<store, wire, cookie>>,
         Active(r), Active(r)', q.client = req[r].client, req[r].pc # "op",
         InStage(r)'
  PROVE  PromiseInv'
<1>1. Alone'
  BY DEF PromiseInv, IInv, TypeOK, Alone, Active
<1>2. ASSUME NEW p \in Requests, p # r, Active(p)' PROVE InStage(p)'
  <2>1. Active(p) /\ req'[p] = req[p]
    BY <1>2 DEF PromiseInv, IInv, TypeOK, Active
  <2> QED
    BY <2>1, InStageKept DEF PromiseInv, Orderly
<1>3. Orderly'
  BY <1>2 DEF PromiseInv, IInv, TypeOK, Orderly, Active
<1>4. Waited'
  BY DEF PromiseInv, IInv, TypeOK, Waited, Command
<1> QED
  BY <1>1, <1>3, <1>4 DEF PromiseInv

\* A client's next request begins when its last is over.
LEMMA BeginOrderly ==
  ASSUME PromiseInv, IInv', NEW r \in Requests, NEW c \in Clients, Begin(r, c), ~Overlaps
  PROVE  PromiseInv'
<1> DEFINE q == [Unsent EXCEPT !.client = c, !.sent = cookie[c], !.pc = IF cookie[c] = Malformed THEN "respond" ELSE "connecting"]
<1>1. /\ req' = [req EXCEPT ![r] = q] /\ req[r] = Unsent
      /\ \A p \in Requests : Active(p) => req[p].client # c
      /\ UNCHANGED <<store, wire, cookie>>
  BY DEF Begin, PromiseInv, Orderly, IInv, TypeOK
<1>2. req'[r] = q /\ \A p \in Requests : p # r => req'[p] = req[p]
  BY <1>1 DEF PromiseInv, IInv, TypeOK
<1>3. /\ q.client = c /\ q.sent = cookie[c] /\ q.session_id = NoId /\ q.inner = Empty /\ q.jar = "none"
      /\ ~q.finished /\ ~q.done /\ q.pc = IF cookie[c] = Malformed THEN "respond" ELSE "connecting"
  BY DEF Unsent
<1> HIDE DEF q
<1>4. Alone'
  BY <1>1, <1>2, <1>3 DEF PromiseInv, Alone, Active
<1>5. InStage(r)'
  <2>1. Malformed \notin DOMAIN store
    BY RedisAssumption DEF PromiseInv, IInv, TypeOK
  <2> QED
    BY <1>1, <1>2, <1>3, <2>1 DEF InStage, Empty
<1>6. ASSUME NEW p \in Requests, p # r, Active(p)' PROVE InStage(p)'
  <2>1. Active(p)
    BY <1>2, <1>6 DEF Active
  <2> QED
    BY <1>1, <1>2, <1>6, <2>1, InStageKept DEF PromiseInv, Orderly
<1>7. Orderly'
  BY <1>2, <1>3, <1>5, <1>6 DEF PromiseInv, Orderly
<1>8. Waited'
  BY <1>1, <1>2, <1>3 DEF PromiseInv, IInv, TypeOK, Waited, Unsent
<1> QED
  BY <1>4, <1>7, <1>8 DEF PromiseInv

\* The session is read.
LEMMA ReadOrderly ==
  ASSUME PromiseInv, IInv', NEW r \in Requests, Read(r)
  PROVE  PromiseInv'
<1>0. /\ req[r] \in AppFuture /\ req[r].pc \in {"connecting", "fetch"} /\ Active(r) /\ InStage(r)
      /\ UNCHANGED <<store, wire, cookie>> /\ req[r].session_id = NoId /\ req[r].inner = Empty
  BY DEF Read, Connected, Fetch, PromiseInv, IInv, TypeOK, Active, Orderly, Stages
<1>1. CASE Connected(r)
  <2> DEFINE q == [req[r] EXCEPT !.pc = IF req[r].sent = NoId THEN "handler" ELSE "fetch"]
  <2>1. req' = [req EXCEPT ![r] = q]
    BY <1>1 DEF Connected, Go, PromiseInv, IInv, TypeOK
  <2>2. /\ q \in AppFuture /\ q.client = req[r].client /\ q.sent = req[r].sent /\ q.session_id = NoId
        /\ q.inner = Empty /\ q.jar = req[r].jar /\ q.finished = req[r].finished /\ q.done = req[r].done
        /\ q.pc = IF req[r].sent = NoId THEN "handler" ELSE "fetch"
    BY <1>0 DEF AppFuture
  <2>3. req'[r] = q /\ NoId \notin DOMAIN store
    BY <2>1, RedisAssumption DEF PromiseInv, IInv, TypeOK
  <2> HIDE DEF q
  <2>4. InStage(r)'
    BY <1>0, <1>1, <2>2, <2>3 DEF InStage, Empty, Connected
  <2> QED
    BY <1>0, <2>1, <2>2, <2>3, <2>4, LocalStep DEF Active
<1>2. CASE Fetch(r)
  <2> DEFINE known == req[r].sent \in DOMAIN store
             q == IF known THEN [req[r] EXCEPT !.pc = "handler", !.inner = Some(store[req[r].sent]), !.session_id = req[r].sent]
                  ELSE [req[r] EXCEPT !.pc = "handler", !.inner = Empty, !.session_id = NoId]
  <2>1. req' = [req EXCEPT ![r] = q]
    BY <1>2 DEF Fetch, GoWith, PromiseInv, IInv, TypeOK
  <2>2. req'[r] = q /\ req'[r] \in AppFuture
    BY <2>1 DEF PromiseInv, IInv, TypeOK
  <2>3. /\ q.client = req[r].client /\ q.sent = req[r].sent /\ q.session_id = IF known THEN req[r].sent ELSE NoId
        /\ q.inner.kind = IF known THEN "some" ELSE "empty"
        /\ q.jar = req[r].jar /\ q.finished = req[r].finished /\ q.done = req[r].done /\ q.pc = "handler"
    BY <1>0 DEF AppFuture, Some, Empty
  <2>4. known => req[r].sent # NoId
    BY RedisAssumption DEF PromiseInv, IInv, TypeOK
  <2> HIDE DEF q
  <2>5. InStage(r)'
    BY <1>0, <1>2, <2>2, <2>3, <2>4 DEF InStage, Fetch
  <2> QED
    BY <1>0, <2>1, <2>2, <2>3, <2>5, LocalStep DEF Active
<1> QED
  BY <1>1, <1>2 DEF Read

\* The handler edits its session, gives up, or finishes with nothing to send.
LEMMA HandlerOrderly ==
  ASSUME PromiseInv, IInv', NEW r \in Requests,
         SetField(r) \/ RemoveField(r) \/ ClearAll(r) \/ Abandon(r) \/ FinishEmpty(r) \/ (FinishClear(r) /\ req[r].session_id = NoId)
  PROVE  PromiseInv'
<1>0. /\ req[r] \in AppFuture /\ req[r].pc = "handler" /\ Active(r) /\ InStage(r)
      /\ UNCHANGED <<store, wire, cookie>> /\ req[r].inner \in Inner
  BY DEF SetField, RemoveField, ClearAll, Edit, Abandon, FinishEmpty, FinishClear, PromiseInv, IInv, TypeOK, Active, Orderly, AppFuture
<1>1. PICK pc \in {"handler", "respond"}, inner \in Inner, b \in BOOLEAN :
        /\ req' = [req EXCEPT ![r] = [req[r] EXCEPT !.pc = pc, !.inner = inner, !.finished = b]]
        /\ b => pc = "respond" /\ req[r].session_id = NoId /\ inner.kind # "some"
        /\ inner.kind = "empty" => req[r].inner.kind = "empty"
  <2>1. ASSUME NEW inner \in Inner, Edit(r, inner), inner.kind = "empty" => req[r].inner.kind = "empty"
        PROVE  \E pc \in {"handler", "respond"}, i \in Inner, b \in BOOLEAN :
                  /\ req' = [req EXCEPT ![r] = [req[r] EXCEPT !.pc = pc, !.inner = i, !.finished = b]]
                  /\ b => pc = "respond" /\ req[r].session_id = NoId /\ i.kind # "some"
                  /\ i.kind = "empty" => req[r].inner.kind = "empty"
    <3>1. [req[r] EXCEPT !.pc = "handler", !.inner = inner, !.finished = FALSE] = [req[r] EXCEPT !.inner = inner]
      BY <1>0 DEF AppFuture, InStage
    <3>2. req' = [req EXCEPT ![r] = [req[r] EXCEPT !.inner = inner]]
      BY <2>1 DEF Edit
    <3> QED
      BY <2>1, <3>1, <3>2
  <2>2. CASE SetField(r)
    <3>1. PICK f \in Fields, v \in Values : Edit(r, Set(req[r].inner, f, v))
      BY <2>2 DEF SetField
    <3>2. Set(req[r].inner, f, v) \in Inner /\ (Set(req[r].inner, f, v).kind = "empty" => req[r].inner.kind = "empty")
      BY <1>0, InnerType DEF Set, Some
    <3> QED
      BY <2>1, <3>1, <3>2
  <2>3. CASE RemoveField(r)
    <3>1. PICK f \in Fields : Edit(r, Remove(req[r].inner, f))
      BY <2>3 DEF RemoveField
    <3>2. Remove(req[r].inner, f) \in Inner
      BY <1>0 DEF Remove, Some, Inner, Map
    <3>3. Remove(req[r].inner, f).kind = "empty" => req[r].inner.kind = "empty"
      BY <1>0 DEF Remove, Some
    <3> QED
      BY <2>1, <3>1, <3>2, <3>3
  <2>4. CASE ClearAll(r)
    <3>1. Cleared \in Inner /\ Cleared.kind # "empty"
      BY DEF Cleared, Inner, NoFields, Map
    <3> QED
      BY <2>1, <2>4, <3>1 DEF ClearAll, Clear
  <2>5. CASE Abandon(r)
    <3>1. [req[r] EXCEPT !.pc = "respond", !.inner = req[r].inner, !.finished = FALSE] = [req[r] EXCEPT !.pc = "respond"]
      BY <1>0 DEF AppFuture, InStage
    <3>2. req' = [req EXCEPT ![r] = [req[r] EXCEPT !.pc = "respond"]]
      BY <2>5 DEF Abandon, Go
    <3> QED
      BY <1>0, <3>1, <3>2
  <2>6. CASE FinishEmpty(r) \/ (FinishClear(r) /\ req[r].session_id = NoId)
    <3>1. [req[r] EXCEPT !.pc = "respond", !.inner = req[r].inner, !.finished = TRUE] = [req[r] EXCEPT !.pc = "respond", !.finished = TRUE]
      BY <1>0 DEF AppFuture
    <3>2. req' = [req EXCEPT ![r] = [req[r] EXCEPT !.pc = "respond", !.finished = TRUE]]
      BY <2>6 DEF FinishEmpty, FinishClear
    <3>3. req[r].session_id = NoId /\ req[r].inner.kind # "some"
      BY <1>0, <2>6 DEF FinishEmpty, FinishClear, InStage
    <3> QED
      BY <1>0, <3>1, <3>2, <3>3
  <2> QED
    BY <2>2, <2>3, <2>4, <2>5, <2>6
<1> DEFINE q == [req[r] EXCEPT !.pc = pc, !.inner = inner, !.finished = b]
<1>2. req' = [req EXCEPT ![r] = q]
  BY <1>1
<1>3. /\ q \in AppFuture /\ q.client = req[r].client /\ q.sent = req[r].sent /\ q.session_id = req[r].session_id
      /\ q.inner = inner /\ q.jar = req[r].jar /\ q.finished = b /\ q.done = req[r].done /\ q.pc = pc
  BY <1>0, <1>1 DEF AppFuture
<1>4. req'[r] = q
  BY <1>2 DEF PromiseInv, IInv, TypeOK
<1> HIDE DEF q
<1>5. InStage(r)'
  BY <1>0, <1>1, <1>3, <1>4 DEF InStage
<1> QED
  BY <1>0, <1>1, <1>2, <1>3, <1>4, <1>5, LocalStep DEF Active

\* WriteSession sends a command.
LEMMA SendOrderly ==
  ASSUME PromiseInv, IInv', NEW r \in Requests,
         FinishSome(r) \/ (FinishClear(r) /\ req[r].session_id # NoId)
  PROVE  PromiseInv'
<1>0. /\ req[r] \in AppFuture /\ req[r].pc = "handler" /\ Active(r) /\ InStage(r)
      /\ UNCHANGED <<store, cookie>>
  BY DEF FinishSome, FinishClear, PromiseInv, IInv, TypeOK, Active, Orderly, AppFuture
<1>1. PICK id \in Ids, op \in {"SET", "DEL"}, map \in Map :
        /\ req' = [req EXCEPT ![r] = [req[r] EXCEPT !.pc = "op", !.session_id = id,
                                     !.jar = IF op = "SET" THEN "add" ELSE "remove", !.finished = TRUE]]
        /\ wire' = wire \cup {[req |-> r, op |-> op, id |-> id, map |-> map]}
        /\ op = "SET" => req[r].inner.kind = "some" /\ map = req[r].inner.map
        /\ op = "DEL" => req[r].inner.kind = "clear" /\ id = req[r].session_id /\ map = NoFields
  <2>1. CASE FinishSome(r)
    <3>1. PICK id \in IF req[r].session_id = NoId THEN Ids \ used ELSE {req[r].session_id} :
            /\ req' = [req EXCEPT ![r].pc = "op", ![r].session_id = id, ![r].jar = "add", ![r].finished = TRUE]
            /\ wire' = wire \cup {[req |-> r, op |-> "SET", id |-> id, map |-> req[r].inner.map]}
            /\ req[r].inner.kind = "some"
      BY <2>1 DEF FinishSome, Send
    <3>2. id \in Ids /\ req[r].inner.map \in Map
      BY <1>0 DEF AppFuture, Inner
    <3>3. req' = [req EXCEPT ![r] = [req[r] EXCEPT !.pc = "op", !.session_id = id, !.jar = "add", !.finished = TRUE]]
      BY <3>1 DEF PromiseInv, IInv, TypeOK
    <3> QED
      BY <3>1, <3>2, <3>3
  <2>2. CASE FinishClear(r) /\ req[r].session_id # NoId
    <3>1. /\ req' = [req EXCEPT ![r].pc = "op", ![r].jar = "remove", ![r].finished = TRUE]
          /\ wire' = wire \cup {[req |-> r, op |-> "DEL", id |-> req[r].session_id, map |-> NoFields]}
          /\ req[r].inner.kind = "clear"
      BY <2>2 DEF FinishClear, Send
    <3>2. req[r].session_id \in Ids /\ NoFields \in Map
      BY <1>0, <2>2 DEF AppFuture, NoFields, Map
    <3>3. req' = [req EXCEPT ![r] = [req[r] EXCEPT !.pc = "op", !.jar = "remove", !.finished = TRUE]]
      BY <3>1 DEF PromiseInv, IInv, TypeOK
    <3>4. [req[r] EXCEPT !.pc = "op", !.session_id = req[r].session_id, !.jar = "remove", !.finished = TRUE]
            = [req[r] EXCEPT !.pc = "op", !.jar = "remove", !.finished = TRUE]
      BY <1>0 DEF AppFuture
    <3> QED
      BY <3>1, <3>2, <3>3, <3>4
  <2> QED
    BY <2>1, <2>2
<1> DEFINE q == [req[r] EXCEPT !.pc = "op", !.session_id = id,
                               !.jar = IF op = "SET" THEN "add" ELSE "remove", !.finished = TRUE]
           m == [req |-> r, op |-> op, id |-> id, map |-> map]
<1>2. /\ req'[r] = q /\ wire' = wire \cup {m} /\ m.req = r /\ m.op = op /\ m.map = map
      /\ \A p \in Requests : p # r => req'[p] = req[p]
  BY <1>1 DEF PromiseInv, IInv, TypeOK
<1>3. /\ q \in AppFuture /\ q.client = req[r].client /\ q.sent = req[r].sent /\ q.session_id = id
      /\ q.inner = req[r].inner /\ q.finished = TRUE /\ q.done = req[r].done /\ q.pc = "op"
      /\ q.jar = IF op = "SET" THEN "add" ELSE "remove"
  BY <1>0, <1>1 DEF AppFuture
<1> HIDE DEF q, m
<1>4. Alone'
  BY <1>0, <1>2, <1>3 DEF PromiseInv, Alone, Active
<1>5. InStage(r)'
  <2>1. id # NoId
    BY RedisAssumption
  <2> QED
    BY <1>0, <1>1, <1>2, <1>3, <2>1 DEF InStage
<1>6. ASSUME NEW p \in Requests, p # r, Active(p)' PROVE InStage(p)'
  <2>1. Active(p) /\ req'[p] = req[p]
    BY <1>2, <1>6 DEF Active
  <2> QED
    BY <1>0, <2>1, InStageKept DEF PromiseInv, Orderly
<1>7. Orderly'
  BY <1>2, <1>3, <1>5, <1>6 DEF PromiseInv, Orderly, Active
<1>8. Waited'
  BY <1>0, <1>1, <1>2, <1>3 DEF PromiseInv, IInv, TypeOK, Waited, Command, InStage
<1> QED
  BY <1>4, <1>7, <1>8 DEF PromiseInv

\* WriteSession sees the answer.
LEMMA OpDoneOrderly ==
  ASSUME PromiseInv, IInv', NEW r \in Requests, OpDone(r)
  PROVE  PromiseInv'
<1>0. /\ req[r] \in AppFuture /\ req[r].pc = "op" /\ req[r].done /\ Active(r) /\ InStage(r)
      /\ UNCHANGED <<store, wire, cookie>>
  BY DEF OpDone, PromiseInv, IInv, TypeOK, Active, Orderly
<1> DEFINE q == [req[r] EXCEPT !.pc = "respond"]
<1>1. req'[r] = q /\ \A p \in Requests : p # r => req'[p] = req[p]
  BY DEF OpDone, Go, PromiseInv, IInv, TypeOK
<1>2. /\ q.client = req[r].client /\ q.sent = req[r].sent /\ q.session_id = req[r].session_id
      /\ q.inner = req[r].inner /\ q.jar = req[r].jar /\ q.finished = req[r].finished /\ q.done = req[r].done
      /\ q.pc = "respond"
  BY <1>0 DEF AppFuture
<1> HIDE DEF q
<1>3. Alone'
  BY <1>0, <1>1, <1>2 DEF PromiseInv, Alone, Active
<1>4. InStage(r)'
  BY <1>0, <1>1, <1>2 DEF InStage
<1>5. ASSUME NEW p \in Requests, p # r, Active(p)' PROVE InStage(p)'
  <2>1. Active(p) /\ req'[p] = req[p]
    BY <1>1, <1>5 DEF Active
  <2> QED
    BY <1>0, <2>1, InStageKept DEF PromiseInv, Orderly
<1>6. Orderly'
  BY <1>1, <1>2, <1>4, <1>5 DEF PromiseInv, Orderly, Active
<1>7. \A m \in wire : m.req # r
  BY <1>0 DEF PromiseInv, Waited
<1>8. Waited'
  BY <1>0, <1>1, <1>7 DEF PromiseInv, IInv, TypeOK, Waited, Command
<1> QED
  BY <1>3, <1>6, <1>8 DEF PromiseInv

\* The reply reaches the client.
LEMMA ReplyOrderly ==
  ASSUME PromiseInv, IInv', NEW r \in Requests, Reply(r)
  PROVE  PromiseInv'
<1>0. /\ req[r] \in AppFuture /\ req[r].pc = "respond" /\ Active(r) /\ UNCHANGED <<store, wire>>
      /\ req'[r].pc = "over" /\ ~Active(r)' /\ \A p \in Requests : p # r => req'[p] = req[p]
  BY DEF Reply, Go, PromiseInv, IInv, TypeOK, Active, AppFuture
<1>1. \A c \in Clients : c # req[r].client => cookie'[c] = cookie[c]
  BY <1>0 DEF Reply, PromiseInv, IInv, TypeOK, AppFuture
<1>2. Alone'
  BY <1>0 DEF PromiseInv, Alone, Active
<1>3. ASSUME NEW p \in Requests, Active(p)' PROVE InStage(p)'
  <2>1. p # r /\ Active(p) /\ req'[p] = req[p] /\ req[p].client # req[r].client /\ req[p].client \in Clients
    BY <1>0, <1>3 DEF PromiseInv, Alone, Active, IInv, Stages
  <2> QED
    BY <1>0, <1>1, <2>1, InStageKept DEF PromiseInv, Orderly
<1>4. Orderly'
  BY <1>0, <1>3 DEF PromiseInv, Orderly
<1>5. Waited'
  BY <1>0 DEF PromiseInv, IInv, TypeOK, Waited, Command
<1> QED
  BY <1>2, <1>4, <1>5 DEF PromiseInv

\* Redis carries out the one command of a request, which no other request's
\* keys depend on.
LEMMA RedisOrderly ==
  ASSUME PromiseInv, IInv', NEW m \in wire, Redis(m)
  PROVE  PromiseInv'
<1> DEFINE r == m.req
           q == [req[r] EXCEPT !.done = TRUE]
<1>0. /\ m \in Command /\ r \in Requests /\ m.id \in Ids /\ req[r] \in AppFuture /\ m.op \in {"SET", "DEL"}
      /\ wire' = wire \ {m} /\ UNCHANGED <<cookie, used>>
      /\ m.id = req[r].session_id /\ req[r].pc = "op" /\ Active(r) /\ InStage(r) /\ req[r].client \in Clients
      /\ m.op = "SET" => req[r].jar = "add" /\ m.map = req[r].inner.map
      /\ m.op = "DEL" => req[r].jar = "remove" /\ m.map = NoFields
  BY DEF PromiseInv, IInv, TypeOK, Redis, Command, Stages, WireOwned, Waited, Orderly, Active
<1>1. req'[r] = q /\ \A p \in Requests : p # r => req'[p] = req[p]
  BY <1>0 DEF Redis, PromiseInv, IInv, TypeOK
<1>2. /\ q.pc = req[r].pc /\ q.client = req[r].client /\ q.sent = req[r].sent /\ q.done = TRUE
      /\ q.session_id = req[r].session_id /\ q.inner = req[r].inner /\ q.jar = req[r].jar /\ q.finished = req[r].finished
  BY <1>0 DEF AppFuture
<1>3. /\ m.op = "SET" => m.id \in DOMAIN store' /\ store'[m.id] = m.map
      /\ m.op = "DEL" => m.id \notin DOMAIN store'
      /\ \A id \in DOMAIN store' : id # m.id => id \in DOMAIN store /\ store'[id] = store[id]
      /\ \A id \in DOMAIN store : id # m.id => id \in DOMAIN store'
  BY DEF Redis, Delete
<1> HIDE DEF q
<1>4. Alone'
  BY <1>1, <1>2 DEF PromiseInv, Alone, Active
<1>5. InStage(r)'
  BY <1>0, <1>1, <1>2, <1>3 DEF InStage
<1>6. ASSUME NEW p \in Requests, p # r, Active(p)' PROVE InStage(p)'
  <2>1. Active(p) /\ req'[p] = req[p] /\ req[p].client # req[r].client /\ req[p].client \in Clients
    BY <1>0, <1>1, <1>6 DEF PromiseInv, Alone, Active, IInv, Stages
  <2>2. m.id \notin {req[p].sent, req[p].session_id}
    BY <1>0, <2>1 DEF PromiseInv, IInv, OneOwner, Holds, Active
  <2> QED
    BY <1>0, <1>3, <2>1, <2>2, InStageKept DEF PromiseInv, Orderly
<1>7. Orderly'
  BY <1>0, <1>1, <1>2, <1>5, <1>6 DEF PromiseInv, Orderly, Active
<1>8. Waited'
  <2> SUFFICES ASSUME NEW n \in wire, n # m PROVE n.req # r /\ n.req \in Requests
    BY <1>0, <1>1 DEF PromiseInv, Waited
  <2>1. n \in Command
    BY DEF PromiseInv, IInv, TypeOK
  <2>2. CASE n.req = r
    <3>1. n.id = m.id /\ n.op = m.op /\ n.map = m.map
      BY <1>0, <2>1, <2>2 DEF PromiseInv, IInv, WireOwned, Waited, Command
    <3> QED
      BY <1>0, <2>1, <2>2, <3>1 DEF Command
  <2> QED
    BY <2>1, <2>2 DEF Command
<1> QED
  BY <1>4, <1>7, <1>8 DEF PromiseInv

\* A key expires.
LEMMA ExpireOrderly ==
  ASSUME PromiseInv, IInv', NEW id \in Ids, Expire(id)
  PROVE  PromiseInv'
<1>1. /\ store' = [i \in DOMAIN store \ {id} |-> store[i]] /\ UNCHANGED <<wire, cookie, used, req>> /\ Timeout
  BY DEF Expire, Delete
<1>2. \A p \in Requests : InStage(p) => InStage(p)'
  BY <1>1, InStageKept
<1> QED
  BY <1>1, <1>2 DEF PromiseInv, Alone, Orderly, Waited, Active

\* The invariant of requests that come one at a time holds at first,
LEMMA InitOrderly == Init => PromiseInv
<1> SUFFICES ASSUME Init PROVE PromiseInv
  OBVIOUS
<1>1. wire = {} /\ req = [r \in Requests |-> Unsent] /\ IInv
  BY InitInv DEF Init
<1> QED
  BY <1>1 DEF PromiseInv, Alone, Orderly, Waited, Active, Unsent

\* and every step keeps it when nothing fails.
LEMMA NextOrderly ==
  ASSUME ~Overlaps, ~Faults, PromiseInv, [Next]_vars
  PROVE  PromiseInv'
<1>0. IInv'
  BY NextInv DEF PromiseInv
<1>1. CASE UNCHANGED vars
  BY <1>0, <1>1 DEF vars, PromiseInv, Alone, Orderly, InStage, Waited, Active
<1>2. CASE Next
  <2>1. ASSUME NEW r \in Requests,
               \/ \E c \in Clients : Begin(r, c)
               \/ Read(r)
               \/ SetField(r) \/ RemoveField(r) \/ ClearAll(r)
               \/ Finish(r) \/ OpDone(r) \/ Reply(r)
               \/ RedisFails(r) \/ Cancel(r)
        PROVE  PromiseInv'
    BY <1>0, <2>1, BeginOrderly, ReadOrderly, HandlerOrderly, SendOrderly, OpDoneOrderly, ReplyOrderly DEF Finish, RedisFails, Cancel
  <2>2. ASSUME NEW m \in wire, Redis(m) \/ Lose(m)
        PROVE  PromiseInv'
    BY <1>0, <2>2, RedisOrderly DEF Lose
  <2>3. ASSUME NEW id \in Ids, Expire(id)
        PROVE  PromiseInv'
    BY <1>0, <2>3, ExpireOrderly
  <2> QED
    BY <1>2, <2>1, <2>2, <2>3 DEF Next
<1> QED
  BY <1>1, <1>2

-----------------------------------------------------------------------------

\* What a client works on is what its one active request works on,
LEMMA CopiesOf ==
  ASSUME PromiseInv, NEW r \in Requests, Active(r)
  PROVE  Copies[req[r].client] = IF Works(r) THEN {Copy(r)} ELSE {}
<1>1. req[r].client \in Clients
  BY DEF PromiseInv, IInv, Stages, Active
<1>2. Working(req[r].client) = IF Works(r) THEN {r} ELSE {}
  BY DEF PromiseInv, Alone, Active, Working, Works
<1> QED
  BY <1>1, <1>2 DEF Copies

\* a client without an active request works on nothing,
LEMMA NoCopies ==
  ASSUME NEW c \in Clients, \A r \in Requests : Active(r) => req[r].client # c
  PROVE  Copies[c] = {}
BY DEF Copies, Working, Active

\* A step of one request leaves the other clients' copies alone.
LEMMA OthersCopies ==
  ASSUME NEW r \in Requests, NEW d \in Clients,
         Active(r) => req[r].client # d, Active(r)' => req'[r].client # d,
         \A p \in Requests : p # r => req'[p] = req[p]
  PROVE  Copies'[d] = Copies[d]
<1>1. Working(d)' = Working(d)
  BY DEF Working, Active, Written
<1>2. r \notin Working(d)
  BY DEF Working, Active
<1>3. \A p \in Working(d) : Copy(p)' = Copy(p)
  BY <1>2 DEF Working, Copy
<1> QED
  BY <1>1, <1>3 DEF Copies

\* also after a step;
LEMMA CopiesOfNext ==
  ASSUME PromiseInv', NEW r \in Requests, Active(r)'
  PROVE  Copies'[req'[r].client] = IF Works(r)' THEN {Copy(r)'} ELSE {}
<1>1. req'[r].client \in Clients
  BY DEF PromiseInv, IInv, Stages, Active
<1>2. Working(req[r].client)' = IF Works(r)' THEN {r} ELSE {}
  BY DEF PromiseInv, Alone, Active, Working, Works
<1> QED
  BY <1>1, <1>2 DEF Copies

\* also after a step.
LEMMA NoCopiesNext ==
  ASSUME NEW c \in Clients, \A r \in Requests : Active(r)' => req'[r].client # c
  PROVE  Copies'[c] = {}
BY DEF Copies, Working, Active

\* The copies before and after a step of one request.
LEMMA CopiesStep ==
  ASSUME PromiseInv, PromiseInv', NEW r \in Requests, Active(r), NEW c, c = req[r].client, req'[r].client = c,
         \A p \in Requests : p # r => req'[p] = req[p]
  PROVE  /\ c \in Clients
         /\ Copies[c] = IF Works(r) THEN {Copy(r)} ELSE {}
         /\ Copies' = [Copies EXCEPT ![c] = IF Active(r)' /\ Works(r)' THEN {Copy(r)'} ELSE {}]
<1>1. c \in Clients
  BY DEF PromiseInv, IInv, Stages, Active
<1>2. Copies[c] = IF Works(r) THEN {Copy(r)} ELSE {}
  BY CopiesOf
<1>3. Copies'[c] = IF Active(r)' /\ Works(r)' THEN {Copy(r)'} ELSE {}
  <2>1. CASE Active(r)'
    BY <2>1, CopiesOfNext
  <2>2. CASE ~Active(r)'
    <3>1. \A p \in Requests : Active(p)' => req'[p].client # c
      BY <2>2 DEF PromiseInv, Alone, Active
    <3> QED
      BY <1>1, <2>2, <3>1, NoCopiesNext
  <2> QED
    BY <2>1, <2>2
<1>4. \A d \in Clients : d # c => Copies'[d] = Copies[d]
  BY OthersCopies
<1>5. Copies = [d \in Clients |-> Copies[d]] /\ Copies' = [d \in Clients |-> Copies'[d]]
  BY DEF Copies
<1> QED
  BY <1>1, <1>2, <1>3, <1>4, <1>5

\* A step of Sessions, or none.
Step == Promise!SNext \/ UNCHANGED <<Kept, Copies>>

\* A step that changes neither the session nor what is worked on.
LEMMA Stutter ==
  ASSUME PromiseInv, PromiseInv', NEW r \in Requests, Active(r), req'[r].client = req[r].client,
         \A p \in Requests : p # r => req'[p] = req[p], Kept' = Kept,
         (Active(r)' /\ Works(r)' <=> Works(r)), Works(r) => Copy(r)' = Copy(r)
  PROVE  Step
<1> DEFINE c == req[r].client
<1>1. /\ c \in Clients /\ Copies[c] = IF Works(r) THEN {Copy(r)} ELSE {}
      /\ Copies' = [Copies EXCEPT ![c] = IF Active(r)' /\ Works(r)' THEN {Copy(r)'} ELSE {}]
  BY CopiesStep
<1> HIDE DEF c
<1>2. Copies = [Copies EXCEPT ![c] = Copies[c]]
  BY <1>1 DEF Copies
<1> QED
  BY <1>1, <1>2 DEF Step

\* To begin a request is no step of Sessions yet.
LEMMA BeginRefines ==
  ASSUME PromiseInv, PromiseInv', NEW r \in Requests, NEW c \in Clients, Begin(r, c), ~Overlaps
  PROVE  Step
<1>1. /\ \A p \in Requests : Active(p) => req[p].client # c
      /\ \A p \in Requests : p # r => req'[p] = req[p]
      /\ req'[r].client = c /\ ~Active(r) /\ Active(r)' /\ ~Works(r)'
      /\ UNCHANGED <<store, cookie>>
  BY DEF Begin, Active, Works, PromiseInv, IInv, TypeOK, AppFuture
<1>2. Copies[c] = {} /\ Copies'[c] = {}
  BY <1>1, NoCopies, CopiesOfNext
<1>3. \A d \in Clients : d # c => Copies'[d] = Copies[d]
  BY <1>1, OthersCopies
<1>4. Copies = [d \in Clients |-> Copies[d]] /\ Copies' = [d \in Clients |-> Copies'[d]]
  BY DEF Copies
<1>5. Kept' = Kept
  BY <1>1 DEF Kept
<1> QED
  BY <1>2, <1>3, <1>4, <1>5 DEF Step

\* The session is opened when GET is answered, or without an id at once.
LEMMA ReadRefines ==
  ASSUME PromiseInv, PromiseInv', NEW r \in Requests, Read(r)
  PROVE  Step
<1> DEFINE c == req[r].client
<1>0. /\ req[r].pc \in {"connecting", "fetch"} /\ Active(r) /\ UNCHANGED <<store, cookie>>
      /\ InStage(r) /\ req[r].inner = Empty /\ c \in Clients /\ req[r] \in AppFuture /\ ~Works(r)
  BY DEF Read, Connected, Fetch, Active, PromiseInv, IInv, TypeOK, Orderly, Stages, Works
<1>1. \A p \in Requests : p # r => req'[p] = req[p]
  BY DEF Read, Connected, Fetch, Go, GoWith, PromiseInv, IInv, TypeOK
<1>2. req'[r].client = c /\ req'[r].sent = req[r].sent /\ req'[r].done = req[r].done /\ req'[r].finished = req[r].finished
  BY <1>0 DEF Read, Connected, Fetch, Go, GoWith, PromiseInv, IInv, TypeOK, AppFuture
<1>3. Kept' = Kept
  BY <1>0 DEF Kept
<1>4. CASE req'[r].pc = "fetch"
  <2>1. (Active(r)' /\ Works(r)' <=> Works(r)) /\ req'[r].client = req[r].client
    BY <1>0, <1>2, <1>4 DEF Active, Works
  <2> HIDE DEF c
  <2> QED
    BY <1>0, <1>1, <1>2, <1>3, <2>1, Stutter
<1>5. CASE req'[r].pc # "fetch"
  <2>1. /\ req'[r].pc = "handler"
        /\ req'[r].inner = IF req[r].sent \in DOMAIN store THEN Some(store[req[r].sent]) ELSE Empty
    <3>1. CASE Connected(r)
      <4>1. req[r].sent \notin DOMAIN store
        BY <1>0, <1>5, <3>1, RedisAssumption DEF Connected, Go, PromiseInv, IInv, TypeOK, AppFuture
      <4> QED
        BY <1>0, <1>5, <3>1, <4>1 DEF Connected, Go, PromiseInv, IInv, TypeOK, AppFuture
    <3>2. CASE Fetch(r)
      BY <1>0, <3>2 DEF Fetch, GoWith, PromiseInv, IInv, TypeOK, AppFuture
    <3> QED
      BY <3>1, <3>2 DEF Read
  <2>2. cookie[c] = req[r].sent /\ req[r].sent # Malformed /\ ~req[r].finished /\ ~req[r].done
    BY <1>0 DEF InStage
  <2>3. Active(r)' /\ Works(r)'
    BY <1>2, <2>1, <2>2 DEF Active, Works, Written
  <2>4. Copy(r)' = [map |-> Kept[c], cleared |-> FALSE, finished |-> FALSE]
    <3>1. req'[r].inner.map = Kept[c] /\ req'[r].inner.kind # "clear"
      BY <1>0, <2>1, <2>2 DEF Kept, Some, Empty
    <3>2. req'[r].finished = FALSE
      BY <1>0, <1>2, <2>2 DEF AppFuture
    <3> QED
      BY <3>1, <3>2 DEF Copy
  <2>5. Copies[c] = {} /\ Copies' = [Copies EXCEPT ![c] = {Copy(r)'}]
    BY <1>0, <1>1, <1>2, <2>3, CopiesStep
  <2> QED
    BY <1>0, <1>3, <2>4, <2>5 DEF Step, Promise!SNext, Promise!SOpen, Promise!Draft
<1> QED
  BY <1>4, <1>5

\* An edit of the copy is one of Sessions', or none.
LEMMA EditRefines ==
  ASSUME PromiseInv, PromiseInv', NEW r \in Requests, NEW inner, Edit(r, inner),
         \/ inner = req[r].inner
         \/ \E f \in Fields, v \in Values \cup {NoValue} :
              /\ req[r].inner.kind # "clear" /\ inner.kind # "clear"
              /\ inner.map = [req[r].inner.map EXCEPT ![f] = v]
         \/ inner = Cleared
  PROVE  Step
<1> DEFINE c == req[r].client
           w == Copy(r)
<1>0. /\ req[r].pc = "handler" /\ Active(r) /\ UNCHANGED <<store, cookie>>
      /\ InStage(r) /\ c \in Clients /\ req[r] \in AppFuture
  BY DEF Edit, Active, PromiseInv, IInv, TypeOK, Orderly, Stages
<1>1. \A p \in Requests : p # r => req'[p] = req[p]
  BY DEF Edit, PromiseInv, IInv, TypeOK
<1>2. /\ req'[r].pc = "handler" /\ req'[r].client = c /\ req'[r].sent = req[r].sent /\ req'[r].inner = inner
      /\ req'[r].done = req[r].done /\ req'[r].finished = FALSE /\ req[r].finished = FALSE
  BY <1>0 DEF Edit, PromiseInv, IInv, TypeOK, AppFuture, InStage
<1>3. Kept' = Kept
  BY <1>0 DEF Kept
<1>4. Works(r) /\ Works(r)' /\ Active(r)'
  BY <1>0, <1>2 DEF Active, Works, Written, InStage
<1> HIDE DEF c
<1>5. c \in Clients /\ Copies[c] = {w} /\ Copies' = [Copies EXCEPT ![c] = {Copy(r)'}]
  BY <1>0, <1>1, <1>2, <1>4, CopiesStep DEF c
<1> DEFINE k == req[r].inner.kind = "clear"
           k1 == inner.kind = "clear"
<1>6. /\ w = [map |-> req[r].inner.map, cleared |-> k, finished |-> FALSE]
      /\ Copy(r)' = [map |-> inner.map, cleared |-> k1, finished |-> FALSE]
      /\ k \in BOOLEAN /\ k1 \in BOOLEAN
  BY <1>2 DEF Copy
<1> HIDE DEF w
<1>10. w.finished = FALSE /\ w.cleared = k /\ w.map = req[r].inner.map
  BY <1>6
<1>7. CASE inner = req[r].inner
  <2>1. Copy(r)' = Copy(r)
    BY <1>2, <1>7 DEF Copy
  <2> QED
    BY <1>0, <1>1, <1>2, <1>3, <1>4, <2>1, Stutter DEF c
<1>8. ASSUME NEW f \in Fields, NEW v \in Values \cup {NoValue},
             req[r].inner.kind # "clear", inner.kind # "clear",
             inner.map = [req[r].inner.map EXCEPT ![f] = v]
      PROVE  Step
  <2>1. Copy(r)' = Promise!Draft([w.map EXCEPT ![f] = v], FALSE, FALSE) /\ w.cleared = FALSE
    <3>1. k = FALSE /\ k1 = FALSE
      BY <1>8
    <3> HIDE DEF k, k1
    <3> QED
      BY <1>6, <1>8, <1>10, <3>1 DEF Promise!Draft
  <2>2. Promise!SWork(c)
    <3>1. /\ w \in Copies[c] /\ ~w.finished /\ ~w.cleared
          /\ Copies' = [Copies EXCEPT ![c] = {Promise!Draft([w.map EXCEPT ![f] = v], FALSE, FALSE)}]
      BY <1>5, <1>10, <2>1
    <3> QED
      BY <1>3, <1>8, <3>1 DEF Promise!SWork
  <2> QED
    BY <1>5, <2>2 DEF Step, Promise!SNext
<1>9. CASE inner = Cleared
  <2>1. Copy(r)' = Promise!Draft(NoFields, TRUE, FALSE)
    <3>1. k1 = TRUE /\ inner.map = NoFields
      BY <1>9 DEF Cleared
    <3> HIDE DEF k, k1
    <3> QED
      BY <1>6, <3>1 DEF Promise!Draft
  <2>2. Promise!SWork(c)
    BY <1>3, <1>5, <1>10, <2>1 DEF Promise!SWork, Promise!NoFields, NoFields
  <2> QED
    BY <1>5, <2>2 DEF Step, Promise!SNext
<1> QED
  BY <1>7, <1>8, <1>9

\* The methods of RawSession.
LEMMA HandlerRefines ==
  ASSUME PromiseInv, PromiseInv', NEW r \in Requests, SetField(r) \/ RemoveField(r) \/ ClearAll(r)
  PROVE  Step
<1>0. req[r].inner \in Inner
  BY DEF PromiseInv, IInv, TypeOK, AppFuture
<1>1. CASE SetField(r)
  <2>1. PICK f \in Fields, v \in Values : Edit(r, Set(req[r].inner, f, v))
    BY <1>1 DEF SetField
  <2> QED
    BY <1>0, <2>1, EditRefines DEF Set, Some, Inner
<1>2. CASE RemoveField(r)
  <2>1. PICK f \in Fields : Edit(r, Remove(req[r].inner, f))
    BY <1>2 DEF RemoveField
  <2> QED
    BY <1>0, <2>1, EditRefines DEF Remove, Some, Inner
<1>3. CASE ClearAll(r)
  BY <1>3, EditRefines DEF ClearAll, Clear
<1> QED
  BY <1>1, <1>2, <1>3

\* To leave the handler without `finish`, or to see the answer, is no step.
LEMMA MoveOnRefines ==
  ASSUME PromiseInv, PromiseInv', NEW r \in Requests, Abandon(r) \/ OpDone(r)
  PROVE  Step
<1>0. /\ req[r].pc \in {"handler", "op"} /\ Active(r) /\ UNCHANGED <<store, cookie>> /\ req[r] \in AppFuture
  BY DEF Abandon, OpDone, Active, PromiseInv, IInv, TypeOK
<1>1. /\ \A p \in Requests : p # r => req'[p] = req[p]
      /\ req'[r] = [req[r] EXCEPT !.pc = "respond"]
  BY DEF Abandon, OpDone, Go, PromiseInv, IInv, TypeOK
<1>2. /\ req'[r].pc = "respond" /\ req'[r].client = req[r].client /\ req'[r].sent = req[r].sent
      /\ req'[r].inner = req[r].inner /\ req'[r].done = req[r].done /\ req'[r].finished = req[r].finished
      /\ req'[r].session_id = req[r].session_id
  BY <1>0, <1>1 DEF AppFuture
<1>3. (Active(r)' /\ Works(r)' <=> Works(r)) /\ Copy(r)' = Copy(r)
  BY <1>0, <1>2 DEF Active, Works, Written, Copy
<1>4. Kept' = Kept
  BY <1>0 DEF Kept
<1> QED
  BY <1>0, <1>1, <1>2, <1>3, <1>4, Stutter

\* `finish` is SFinish.
LEMMA FinishRefines ==
  ASSUME PromiseInv, PromiseInv', NEW r \in Requests, FinishEmpty(r) \/ FinishSome(r) \/ FinishClear(r)
  PROVE  Step
<1> DEFINE c == req[r].client
<1>0. /\ req[r].pc = "handler" /\ Active(r) /\ UNCHANGED <<store, cookie>>
      /\ InStage(r) /\ c \in Clients /\ req[r] \in AppFuture
  BY DEF FinishEmpty, FinishSome, FinishClear, Active, PromiseInv, IInv, TypeOK, Orderly, Stages
<1>1. \A p \in Requests : p # r => req'[p] = req[p]
  BY DEF FinishEmpty, FinishSome, FinishClear, PromiseInv, IInv, TypeOK
<1>2. /\ req'[r].pc \in {"op", "respond"} /\ req'[r].client = c /\ req'[r].sent = req[r].sent
      /\ req'[r].inner = req[r].inner /\ req'[r].done = req[r].done /\ req'[r].finished = TRUE
  <2>1. CASE FinishEmpty(r)
    BY <1>0, <2>1 DEF FinishEmpty, PromiseInv, IInv, TypeOK, AppFuture
  <2>2. CASE FinishSome(r)
    <3>1. PICK id : req' = [req EXCEPT ![r].pc = "op", ![r].session_id = id, ![r].jar = "add", ![r].finished = TRUE]
      BY <2>2 DEF FinishSome
    <3> QED
      BY <1>0, <3>1 DEF PromiseInv, IInv, TypeOK, AppFuture
  <2>3. CASE FinishClear(r)
    BY <1>0, <2>3 DEF FinishClear, PromiseInv, IInv, TypeOK, AppFuture
  <2> QED
    BY <2>1, <2>2, <2>3
<1>3. Kept' = Kept
  BY <1>0 DEF Kept
<1>4. Works(r) /\ Works(r)' /\ Active(r)'
  BY <1>0, <1>2 DEF Active, Works, Written, InStage
<1> HIDE DEF c
<1>5. c \in Clients /\ Copies[c] = {Copy(r)} /\ Copies' = [Copies EXCEPT ![c] = {Copy(r)'}]
  BY <1>0, <1>1, <1>2, <1>4, CopiesStep DEF c
<1>6. Copy(r)' = Promise!Draft(Copy(r).map, Copy(r).cleared, TRUE)
  <2> DEFINE k == req[r].inner.kind = "clear"
  <2>1. /\ Copy(r) = [map |-> req[r].inner.map, cleared |-> k, finished |-> req[r].finished]
        /\ Copy(r)' = [map |-> req[r].inner.map, cleared |-> k, finished |-> TRUE]
        /\ k \in BOOLEAN /\ req[r].finished \in BOOLEAN
    BY <1>0, <1>2 DEF Copy, AppFuture
  <2> HIDE DEF k
  <2> QED
    BY <2>1 DEF Promise!Draft
<1>7. Promise!SFinish(c)
  BY <1>3, <1>5, <1>6 DEF Promise!SFinish
<1> QED
  BY <1>5, <1>7 DEF Step, Promise!SNext

\* The reply commits a session that Redis stored under a new id, or one that
\* is empty; an abandoned one is left as it was.
LEMMA ReplyRefines ==
  ASSUME PromiseInv, PromiseInv', NEW r \in Requests, Reply(r)
  PROVE  Step
<1> DEFINE c == req[r].client
           sid == req[r].session_id
           w == Copy(r)
<1>0. /\ req[r].pc = "respond" /\ Active(r) /\ ~Active(r)' /\ UNCHANGED store
      /\ InStage(r) /\ c \in Clients /\ req[r] \in AppFuture
  BY DEF Reply, Go, Active, PromiseInv, IInv, TypeOK, AppFuture, Orderly, Stages
<1>1. (\A p \in Requests : p # r => req'[p] = req[p]) /\ req'[r].client = c
  BY DEF Reply, Go, PromiseInv, IInv, TypeOK, AppFuture
<1>2. cookie[c] = req[r].sent
  BY <1>0 DEF InStage
<1>3. /\ cookie \in [Clients -> Ids \cup {NoId, Malformed}]
      /\ cookie' = CASE req[r].jar = "add"    -> [cookie EXCEPT ![c] = sid]
                     [] req[r].jar = "remove" -> [cookie EXCEPT ![c] = NoId]
                     [] req[r].jar = "none"   -> cookie
  BY <1>0 DEF Reply, PromiseInv, IInv, TypeOK
<1>4. \A d \in Clients : d # c => Kept'[d] = Kept[d]
  BY <1>0, <1>3 DEF Kept, AppFuture
<1>5. Kept = [d \in Clients |-> Kept[d]] /\ Kept' = [d \in Clients |-> Kept'[d]]
  BY DEF Kept
<1>6. NoId \notin DOMAIN store
  BY RedisAssumption DEF PromiseInv, IInv, TypeOK
<1>7. Kept[c] = IF req[r].sent \in DOMAIN store THEN store[req[r].sent] ELSE NoFields
  BY <1>0, <1>2 DEF Kept
<1>8. CASE ~Works(r)
  <2>1. Kept'[c] = Kept[c]
    BY <1>0, <1>1, <1>2, <1>3, <1>6, <1>7, <1>8 DEF Works, Written, InStage, Kept, AppFuture
  <2>2. Kept' = Kept
    BY <1>4, <1>5, <2>1
  <2>3. (Active(r)' /\ Works(r)' <=> Works(r)) /\ req'[r].client = req[r].client
    BY <1>0, <1>1, <1>8
  <2> HIDE DEF c
  <2> QED
    BY <1>0, <1>1, <1>8, <2>2, <2>3, Stutter
<1>9. CASE Works(r)
  <2> HIDE DEF c
  <2>1. c \in Clients /\ Copies[c] = {w} /\ Copies' = [Copies EXCEPT ![c] = {}]
    BY <1>0, <1>1, <1>9, CopiesStep DEF c
  <2>2. w.map = req[r].inner.map /\ w.finished = req[r].finished
    BY DEF Copy
  <2> HIDE DEF w
  <2>3. CASE ~req[r].finished
    <3>1. Kept' = Kept
      BY <1>0, <1>3, <2>3 DEF Kept, InStage
    <3> QED
      BY <2>1, <2>2, <2>3, <3>1 DEF Step, Promise!SNext, Promise!SAbandon
  <2>4. CASE req[r].finished
    <3>1. Kept'[c] = w.map \/ (Timeout /\ Kept'[c] = NoFields)
      <4>1. CASE req[r].jar = "none"
        <5>1. w.map = NoFields
          BY <1>0, <2>2, <2>4, <4>1 DEF InStage, AppFuture, Inner
        <5>2. Kept'[c] = NoFields
          BY <1>0, <1>2, <1>3, <2>4, <4>1 DEF InStage, Kept, c
        <5> QED
          BY <5>1, <5>2
      <4>2. CASE req[r].jar = "add"
        <5>1. Kept'[c] = IF sid \in DOMAIN store THEN store[sid] ELSE NoFields
          BY <1>0, <1>3, <2>1, <4>2 DEF Kept
        <5>2. IF sid \in DOMAIN store THEN store[sid] = w.map ELSE Timeout
          BY <1>0, <2>2, <4>2 DEF InStage
        <5> QED
          BY <5>1, <5>2
      <4>3. CASE req[r].jar = "remove"
        BY <1>0, <1>9, <4>3 DEF Works, Written, InStage
      <4> QED
        BY <1>0, <4>1, <4>2, <4>3 DEF AppFuture
    <3>2. Kept' = [Kept EXCEPT ![c] = Kept'[c]]
      BY <1>4, <1>5, <2>1
    <3>3. Promise!SCommit(c)
      BY <2>1, <2>2, <2>4, <3>1, <3>2 DEF Promise!SCommit, Promise!NoFields, NoFields
    <3> QED
      BY <2>1, <3>3 DEF Step, Promise!SNext
  <2> QED
    BY <2>3, <2>4
<1> QED
  BY <1>8, <1>9

\* Redis commits a session under an id the client already sends.
LEMMA RedisRefines ==
  ASSUME PromiseInv, PromiseInv', NEW m \in wire, Redis(m)
  PROVE  Step
<1> DEFINE r == m.req
           c == req[r].client
           w == Copy(r)
<1>0. /\ m \in Command /\ r \in Requests /\ m.id \in Ids /\ req[r] \in AppFuture /\ m.op \in {"SET", "DEL"}
      /\ UNCHANGED cookie
      /\ m.id = req[r].session_id /\ req[r].pc = "op" /\ Active(r) /\ InStage(r) /\ c \in Clients
      /\ m.op = "SET" => req[r].jar = "add" /\ m.map = req[r].inner.map
      /\ m.op = "DEL" => req[r].jar = "remove"
      /\ req[r].done = FALSE
  BY DEF PromiseInv, IInv, TypeOK, Redis, Command, Stages, WireOwned, Waited, Orderly, Active, AppFuture
<1>1. (\A p \in Requests : p # r => req'[p] = req[p]) /\ req'[r] = [req[r] EXCEPT !.done = TRUE]
  BY <1>0 DEF Redis, PromiseInv, IInv, TypeOK
<1>2. /\ req'[r].pc = req[r].pc /\ req'[r].client = c /\ req'[r].sent = req[r].sent /\ req'[r].done
      /\ req'[r].session_id = req[r].session_id /\ req'[r].inner = req[r].inner
      /\ req'[r].finished = req[r].finished
  BY <1>0, <1>1 DEF AppFuture
<1>3. /\ m.op = "SET" => m.id \in DOMAIN store' /\ store'[m.id] = m.map
      /\ m.op = "DEL" => m.id \notin DOMAIN store'
      /\ \A id \in DOMAIN store' : id # m.id => id \in DOMAIN store /\ store'[id] = store[id]
      /\ \A id \in DOMAIN store : id # m.id => id \in DOMAIN store'
  BY DEF Redis, Delete
<1>4. cookie[c] = req[r].sent /\ req[r].finished /\ req[r].sent # Malformed
  BY <1>0 DEF InStage
<1>5. \A d \in Clients : d # c => cookie[d] # m.id
  BY <1>0 DEF PromiseInv, IInv, OneOwner, Holds, Active
<1>6. \A d \in Clients : cookie[d] # m.id => Kept'[d] = Kept[d]
  BY <1>0, <1>3 DEF Kept
<1>7. Kept = [d \in Clients |-> Kept[d]] /\ Kept' = [d \in Clients |-> Kept'[d]]
  BY DEF Kept
<1>8. Works(r) /\ Active(r)' /\ (Works(r)' <=> m.id # req[r].sent)
  BY <1>0, <1>2, <1>4 DEF Works, Written, Active
<1>9. CASE m.id # req[r].sent
  <2>1. Kept' = Kept
    BY <1>4, <1>5, <1>6, <1>7, <1>9
  <2>2. Copy(r)' = Copy(r) /\ (Active(r)' /\ Works(r)' <=> Works(r)) /\ req'[r].client = req[r].client
    BY <1>2, <1>8, <1>9 DEF Copy
  <2> HIDE DEF r, c
  <2> QED
    BY <1>0, <1>1, <2>1, <2>2, Stutter
<1>10. CASE m.id = req[r].sent
  <2>0. c \in Clients /\ Copies[c] = {w} /\ Copies' = [Copies EXCEPT ![c] = {}]
    <3> HIDE DEF r, w
    <3>1. ~Works(r)' /\ req'[r].client = req[r].client
      BY <1>2, <1>8, <1>10
    <3> QED
      BY <1>0, <1>1, <1>8, <3>1, CopiesStep DEF w
  <2> HIDE DEF r, c
  <2>1. c \in Clients /\ Copies[c] = {w} /\ Copies' = [Copies EXCEPT ![c] = {}]
    BY <2>0
  <2>2. w.map = req[r].inner.map /\ w.finished = req[r].finished
    BY DEF Copy
  <2>3. Kept'[c] = req[r].inner.map
    <3>1. Kept'[c] = IF m.op = "SET" THEN m.map ELSE NoFields
      BY <1>0, <1>3, <1>4, <1>10, <2>1 DEF Kept
    <3>2. m.op = "DEL" => req[r].inner.map = NoFields
      BY <1>0 DEF InStage, AppFuture, Inner
    <3> QED
      BY <1>0, <3>1, <3>2
  <2>4. Kept' = [Kept EXCEPT ![c] = w.map]
    BY <1>5, <1>6, <1>7, <2>1, <2>2, <2>3
  <2> HIDE DEF w
  <2>5. Promise!SCommit(c)
    BY <1>4, <2>1, <2>2, <2>4 DEF Promise!SCommit
  <2> QED
    BY <2>1, <2>5 DEF Step, Promise!SNext
<1> QED
  BY <1>9, <1>10

\* An expired key is a forgotten session, or nobody's.
LEMMA ExpireRefines ==
  ASSUME PromiseInv, PromiseInv', NEW id \in Ids, Expire(id)
  PROVE  Step
<1>1. /\ store' = [i \in DOMAIN store \ {id} |-> store[i]] /\ UNCHANGED <<cookie, req>> /\ Timeout
  BY DEF Expire, Delete
<1>2. Copies' = Copies
  BY <1>1 DEF Copies, Copy, Working, Written
<1>3. Kept = [d \in Clients |-> Kept[d]] /\ Kept' = [d \in Clients |-> Kept'[d]]
  BY DEF Kept
<1>4. \A d \in Clients : Kept'[d] = IF cookie[d] = id THEN NoFields ELSE Kept[d]
  BY <1>1 DEF Kept
<1>5. CASE \E c \in Clients : cookie[c] = id
  <2>1. PICK c \in Clients : cookie[c] = id
    BY <1>5
  <2>2. \A d \in Clients : cookie[d] = id => d = c
    BY <2>1 DEF PromiseInv, IInv, OneOwner, Holds
  <2>3. Kept' = [Kept EXCEPT ![c] = NoFields]
    BY <1>3, <1>4, <2>1, <2>2
  <2> QED
    BY <1>1, <1>2, <2>3 DEF Step, Promise!SNext, Promise!SForget, Promise!NoFields, NoFields
<1>6. CASE \A c \in Clients : cookie[c] # id
  BY <1>2, <1>3, <1>4, <1>6 DEF Step
<1> QED
  BY <1>5, <1>6

\* The first states are first states of Sessions,
LEMMA InitRefines == Init => Promise!SInit
<1> SUFFICES ASSUME Init PROVE Promise!SInit
  OBVIOUS
<1>1. /\ DOMAIN store = {} /\ req = [r \in Requests |-> Unsent]
  BY DEF Init
<1>2. Kept = [c \in Clients |-> NoFields]
  BY <1>1 DEF Kept
<1>3. Copies = [c \in Clients |-> {}]
  BY <1>1 DEF Copies, Working, Unsent
<1> QED
  BY <1>2, <1>3 DEF Promise!SInit, Promise!NoFields, NoFields

\* and every step is one of Sessions or changes nothing Sessions sees.
LEMMA NextRefines ==
  ASSUME ~Overlaps, ~Faults, PromiseInv, [Next]_vars
  PROVE  [Promise!SNext]_(Promise!sessionVars)
<1>0. PromiseInv'
  BY NextOrderly
<1>1. CASE UNCHANGED vars
  <2>1. Kept' = Kept /\ Copies' = Copies
    BY <1>1 DEF vars, Kept, Copies, Copy, Working, Written
  <2> QED
    BY <2>1 DEF Promise!sessionVars
<1>2. CASE Next
  <2>1. ASSUME NEW r \in Requests,
               \/ \E c \in Clients : Begin(r, c)
               \/ Read(r)
               \/ SetField(r) \/ RemoveField(r) \/ ClearAll(r)
               \/ Finish(r) \/ OpDone(r) \/ Reply(r)
               \/ RedisFails(r) \/ Cancel(r)
        PROVE  Step
    BY <1>0, <2>1, BeginRefines, ReadRefines, HandlerRefines, MoveOnRefines, FinishRefines, ReplyRefines DEF Finish, RedisFails, Cancel
  <2>2. ASSUME NEW m \in wire, Redis(m) \/ Lose(m)
        PROVE  Step
    BY <1>0, <2>2, RedisRefines DEF Lose
  <2>3. ASSUME NEW id \in Ids, Expire(id)
        PROVE  Step
    BY <1>0, <2>3, ExpireRefines
  <2> QED
    BY <1>2, <2>1, <2>2, <2>3 DEF Next, Step, Promise!sessionVars
<1> QED
  BY <1>1, <1>2

\* With one request of a client at a time and nothing failing, the Redis
\* backend implements Sessions, for any clients, requests, ids and fields.
THEOREM PromiseKept ==
  ASSUME ~Overlaps, ~Faults
  PROVE  Spec => KeepsPromise
<1>1. PromiseInv /\ [Next]_vars => PromiseInv'
  BY NextOrderly
<1>2. PromiseInv /\ [Next]_vars => [Promise!SNext]_(Promise!sessionVars)
  BY NextRefines
<1> QED
  BY InitOrderly, InitRefines, <1>1, <1>2, PTL DEF Spec, KeepsPromise, Promise!SSpec
=============================================================================
