---------------------------- MODULE RedisSession ----------------------------
(***************************************************************************)
(* Sessions kept in Redis, tsukuyomi-session/src/backend/redis.rs: the     *)
(* futures that read and write one, the requests that use them, and what   *)
(* of Redis, of browsers and of connections they depend on.                *)
(*                                                                         *)
(* A request reads its session (ReadSession), gives it to the handler, and *)
(* writes it back (WriteSession) before the reply is made (SessionRespond  *)
(* of lib.rs).  Requests run at the same time, of several clients and,     *)
(* with Overlaps, of one.  With Faults, Redis and the connection to it may *)
(* fail, before or after a command was carried out, and a client may go    *)
(* away, which drops the future wherever it stands.                        *)
(***************************************************************************)
EXTENDS SessionData, Integers, FiniteSets

CONSTANTS
  Clients,    \* browsers, each with its cookie
  Requests,   \* the requests they send, each at most once
  Ids,        \* session ids
  NoId,       \* no cookie, no id
  Malformed,  \* a cookie that is no id
  Overlaps,   \* may a client send a request before the last was answered?
  Faults,     \* may something fail?
  Timeout     \* does the backend set a timeout on the keys?

ASSUME RedisAssumption ==
  /\ NoId \notin Ids /\ Malformed \notin Ids \cup {NoId}
  /\ {Overlaps, Faults, Timeout} \subseteq BOOLEAN
  /\ IsFiniteSet(Requests) /\ IsFiniteSet(Ids)
  /\ Cardinality(Requests) <= Cardinality(Ids)

VARIABLES
  store,    \* Redis: id -> fields, for the keys it has
  wire,     \* the commands on the way to it, each with its request
  cookie,   \* client -> the cookie it sends
  used,     \* the ids that were generated
  req,      \* request -> its AppFuture
  buried    \* history: ids deleted while no request had them in use

vars == <<store, wire, cookie, used, req, buried>>

Unsent == [pc |-> "unsent", client |-> NoId, sent |-> NoId, session_id |-> NoId,
           inner |-> Empty, jar |-> "none", finished |-> FALSE, done |-> FALSE]

Active(r) == req[r].pc \notin {"unsent", "over"}

\* Go(r, pc): the future of r moves on to a state; With: with some fields set.
Go(r, pc) == req' = [req EXCEPT ![r].pc = pc]
GoWith(r, pc, inner, id) ==
  req' = [req EXCEPT ![r].pc = pc, ![r].inner = inner, ![r].session_id = id]

-----------------------------------------------------------------------------
(* ReadSession *)

\* Init: the id is taken from the cookie and a connection is asked for.  A
\* cookie that does not parse is answered with 400.
Begin(r, c) ==
  /\ req[r].pc = "unsent"
  /\ Overlaps \/ \A q \in Requests : Active(q) => req[q].client # c
  /\ req' = [req EXCEPT ![r].client = c, ![r].sent = cookie[c],
       ![r].pc = IF cookie[c] = Malformed THEN "respond" ELSE "connecting"]
  /\ UNCHANGED <<store, wire, cookie, used, buried>>

\* Connecting: without an id the session is empty, with one it is fetched.
Connected(r) ==
  /\ req[r].pc = "connecting"
  /\ Go(r, IF req[r].sent = NoId THEN "handler" ELSE "fetch")
  /\ UNCHANGED <<store, wire, cookie, used, buried>>

\* Mutant: the id is kept although Redis does not know it.
FetchKeepsId(r) ==
  /\ req[r].pc = "fetch"
  /\ GoWith(r, "handler", IF req[r].sent \in DOMAIN store THEN Some(store[req[r].sent]) ELSE Empty, req[r].sent)
  /\ UNCHANGED <<store, wire, cookie, used, buried>>

\* Fetch: GET is answered.  An id Redis does not know is forgotten.
Fetch(r) ==
  /\ req[r].pc = "fetch"
  /\ IF req[r].sent \in DOMAIN store
     THEN GoWith(r, "handler", Some(store[req[r].sent]), req[r].sent)
     ELSE GoWith(r, "handler", Empty, NoId)
  /\ UNCHANGED <<store, wire, cookie, used, buried>>

-----------------------------------------------------------------------------
(* The handler *)

Edit(r, inner) ==
  /\ req[r].pc = "handler"
  /\ req' = [req EXCEPT ![r].inner = inner]
  /\ UNCHANGED <<store, wire, cookie, used, buried>>

\* The values a client's requests put into a session are its own.
SetField(r)    == \E f \in Fields, v \in Values :
                    v[1] = req[r].client /\ Edit(r, Set(req[r].inner, f, v))
RemoveField(r) == \E f \in Fields : Edit(r, Remove(req[r].inner, f))
ClearAll(r)    == Edit(r, Clear(req[r].inner))

\* It may return, with an error or not, without `finish`.
Abandon(r) ==
  /\ req[r].pc = "handler"
  /\ Go(r, "respond")
  /\ UNCHANGED <<store, wire, cookie, used, buried>>

-----------------------------------------------------------------------------
(* WriteSession *)

Send(r, op, id, map) == wire' = wire \cup {[req |-> r, op |-> op, id |-> id, map |-> map]}

\* Init, in the same poll in which the handler called `finish`.  The cookie is
\* put into the jar before the command is sent.
FinishEmpty(r) ==
  /\ req[r].pc = "handler" /\ req[r].inner.kind = "empty"
  /\ req' = [req EXCEPT ![r].pc = "respond", ![r].finished = TRUE]
  /\ UNCHANGED <<store, wire, cookie, used, buried>>

\* Mutants: the new id may be one in use; the reply does not wait for Redis.
FinishSomeInUse(r) ==
  /\ req[r].pc = "handler" /\ req[r].inner.kind = "some"
  /\ \E id \in IF req[r].session_id = NoId THEN Ids ELSE {req[r].session_id} :
       /\ req' = [req EXCEPT ![r].pc = "op", ![r].session_id = id, ![r].jar = "add", ![r].finished = TRUE]
       /\ used' = used \cup {id}
       /\ Send(r, "SET", id, req[r].inner.map)
  /\ UNCHANGED <<store, cookie, buried>>
FinishSomeEarly(r) ==
  /\ req[r].pc = "handler" /\ req[r].inner.kind = "some"
  /\ \E id \in IF req[r].session_id = NoId THEN Ids \ used ELSE {req[r].session_id} :
       /\ req' = [req EXCEPT ![r].pc = "respond", ![r].session_id = id, ![r].jar = "add", ![r].finished = TRUE]
       /\ used' = used \cup {id}
       /\ Send(r, "SET", id, req[r].inner.map)
  /\ UNCHANGED <<store, cookie, buried>>

FinishSome(r) ==
  /\ req[r].pc = "handler" /\ req[r].inner.kind = "some"
  /\ \E id \in IF req[r].session_id = NoId THEN Ids \ used ELSE {req[r].session_id} :
       /\ req' = [req EXCEPT ![r].pc = "op", ![r].session_id = id, ![r].jar = "add", ![r].finished = TRUE]
       /\ used' = used \cup {id}
       /\ Send(r, "SET", id, req[r].inner.map)
  /\ UNCHANGED <<store, cookie, buried>>

\* Mutant: without an id, DEL is waited for although it was not sent.
FinishClearWaits(r) ==
  /\ req[r].pc = "handler" /\ req[r].inner.kind = "clear"
  /\ req' = [req EXCEPT ![r].pc = "op", ![r].jar = "remove", ![r].finished = TRUE]
  /\ IF req[r].session_id = NoId THEN UNCHANGED wire ELSE Send(r, "DEL", req[r].session_id, NoFields)
  /\ UNCHANGED <<store, cookie, used, buried>>

\* Without an id nothing is done, and a cookie the client may have stays.
FinishClear(r) ==
  /\ req[r].pc = "handler" /\ req[r].inner.kind = "clear"
  /\ IF req[r].session_id = NoId
     THEN req' = [req EXCEPT ![r].pc = "respond", ![r].finished = TRUE] /\ UNCHANGED wire
     ELSE /\ req' = [req EXCEPT ![r].pc = "op", ![r].jar = "remove", ![r].finished = TRUE]
          /\ Send(r, "DEL", req[r].session_id, NoFields)
  /\ UNCHANGED <<store, cookie, used, buried>>

\* Op: the answer of Redis is there.
OpDone(r) ==
  /\ req[r].pc = "op" /\ req[r].done
  /\ Go(r, "respond")
  /\ UNCHANGED <<store, wire, cookie, used, buried>>

\* The reply, a good one or an error, takes the changes of the jar along.
Reply(r) ==
  /\ req[r].pc = "respond"
  /\ Go(r, "over")
  /\ cookie' = CASE req[r].jar = "add"    -> [cookie EXCEPT ![req[r].client] = req[r].session_id]
                 [] req[r].jar = "remove" -> [cookie EXCEPT ![req[r].client] = NoId]
                 [] req[r].jar = "none"   -> cookie
  /\ UNCHANGED <<store, wire, used, buried>>

-----------------------------------------------------------------------------
(* Redis, and what may fail *)

\* An id is in use while a request may still write under it.
InUse(id, commands) ==
  \/ \E r \in Requests : req[r].pc = "handler" /\ req[r].session_id = id
  \/ \E m \in commands : m.op = "SET" /\ m.id = id

Delete(id, commands) ==
  /\ store' = [i \in DOMAIN store \ {id} |-> store[i]]
  /\ buried' = IF InUse(id, commands) THEN buried ELSE buried \cup {id}

\* Redis carries a command out; whoever sent it may have given up on it.
Redis(m) ==
  /\ m \in wire
  /\ wire' = wire \ {m}
  /\ IF m.op = "SET"
     THEN store' = [i \in DOMAIN store \cup {m.id} |-> IF i = m.id THEN m.map ELSE store[i]]
          /\ UNCHANGED buried
     ELSE Delete(m.id, wire \ {m})
  /\ req' = [req EXCEPT ![m.req].done = TRUE]
  /\ UNCHANGED <<cookie, used>>

Expire(id) ==
  /\ Timeout /\ id \in DOMAIN store
  /\ Delete(id, wire)
  /\ UNCHANGED <<wire, cookie, used, req>>

\* The connection, or a command, fails: 500, with the jar as it is.
RedisFails(r) ==
  /\ Faults /\ req[r].pc \in {"connecting", "fetch", "op"}
  /\ Go(r, "respond")
  /\ UNCHANGED <<store, wire, cookie, used, buried>>

\* The client goes away.
Cancel(r) ==
  /\ Faults /\ Active(r)
  /\ Go(r, "over")
  /\ UNCHANGED <<store, wire, cookie, used, buried>>

\* A command nobody waits for any more gets lost.
Lose(m) ==
  /\ Faults /\ m \in wire /\ req[m.req].pc # "op"
  /\ wire' = wire \ {m}
  /\ UNCHANGED <<store, cookie, used, req, buried>>

Init ==
  /\ store = <<>> /\ wire = {} /\ used = {} /\ buried = {}
  /\ cookie \in [Clients -> {NoId, Malformed}]
  /\ req = [r \in Requests |-> Unsent]

Read(r)   == Connected(r) \/ Fetch(r)
Finish(r) == Abandon(r) \/ FinishEmpty(r) \/ FinishSome(r) \/ FinishClear(r)

Next ==
  \/ \E r \in Requests :
       \/ \E c \in Clients : Begin(r, c)
       \/ Read(r)
       \/ SetField(r) \/ RemoveField(r) \/ ClearAll(r)
       \/ Finish(r) \/ OpDone(r) \/ Reply(r)
       \/ RedisFails(r) \/ Cancel(r)
  \/ \E m \in wire : Redis(m) \/ Lose(m)
  \/ \E id \in Ids : Expire(id)

Spec == Init /\ [][Next]_vars

-----------------------------------------------------------------------------
(* Properties. *)

Command == [req : Requests, op : {"SET", "DEL"}, id : Ids, map : Map]

AppFuture ==
  [pc : {"unsent", "connecting", "fetch", "handler", "op", "respond", "over"},
   client : Clients \cup {NoId}, sent : Ids \cup {NoId, Malformed},
   session_id : Ids \cup {NoId}, inner : Inner,
   jar : {"none", "add", "remove"}, finished : BOOLEAN, done : BOOLEAN]

TypeOK ==
  /\ DOMAIN store \subseteq used /\ \A id \in DOMAIN store : store[id] \in Map
  /\ wire \subseteq Command
  /\ cookie \in [Clients -> Ids \cup {NoId, Malformed}]
  /\ used \subseteq Ids /\ buried \subseteq used
  /\ req \in [Requests -> AppFuture]

\* Sessions are apart: whatever is lost, cancelled or carried out late, what
\* a request reads and what waits to be written for it was put there by its
\* own client, and no two clients come to share an id.
Owned(map, c) == \A f \in Fields : map[f] # NoValue => map[f][1] = c

SessionsApart ==
  /\ \A r \in Requests : Active(r) => Owned(req[r].inner.map, req[r].client)
  /\ \A c, d \in Clients : cookie[c] = cookie[d] /\ cookie[c] \in Ids => c = d
  /\ \A c \in Clients : cookie[c] \in DOMAIN store => Owned(store[cookie[c]], c)

\* The types, and that sessions are apart, at every step.
SessionInv == TypeOK /\ SessionsApart

\* A session that was deleted, by `clear` or by its timeout, while no request
\* had it in use, never comes back: not by a browser that missed the reply and
\* goes on sending the id, nor by a command that is carried out late.
DeletedForGood == buried \cap DOMAIN store = {}

\* Every request is answered, given that the futures that can make progress
\* are polled and that Redis answers.
FairSpec ==
  /\ Spec
  /\ \A r \in Requests : WF_vars(Read(r)) /\ WF_vars(Finish(r)) /\ WF_vars(OpDone(r)) /\ WF_vars(Reply(r))
  /\ WF_vars(\E m \in wire : Redis(m))

AllAnswered == \A r \in Requests : Active(r) ~> req[r].pc = "over"

\* One request at a time and nothing failing, a client sees its session as
\* Sessions promises.  The session is what Redis has under the client's
\* cookie; a request has finished with it when Redis has carried out its
\* command under an id the client already sends, else when its cookie arrives.
Written(r) == req[r].done /\ req[r].session_id = req[r].sent
Working(c) == {r \in Requests :
  req[r].client = c /\ req[r].pc \in {"handler", "op", "respond"}
  /\ req[r].sent # Malformed /\ ~Written(r)}

Kept == [c \in Clients |-> IF cookie[c] \in DOMAIN store THEN store[cookie[c]] ELSE NoFields]

Copy(r) == [map |-> req[r].inner.map, cleared |-> req[r].inner.kind = "clear",
            finished |-> req[r].finished]
Copies  == [c \in Clients |-> {Copy(r) : r \in Working(c)}]

Promise == INSTANCE Sessions WITH
  Forgets <- Timeout, Loses <- Faults, session <- Kept, work <- Copies

KeepsPromise == Promise!SSpec
=============================================================================
