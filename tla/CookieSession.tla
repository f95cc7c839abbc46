--------------------------- MODULE CookieSession ----------------------------
(***************************************************************************)
(* Sessions kept in a cookie, tsukuyomi-session/src/backend/cookie.rs.     *)
(* The session is the value of the cookie itself: a request reads it from  *)
(* the cookie it was sent with, and its reply carries the new one.  With   *)
(* Faults a client may go away before it has the reply.                    *)
(***************************************************************************)
EXTENDS SessionData

CONSTANTS
  Clients, Requests,
  NoCookie,   \* the browser has none, or has been told to drop it
  Malformed,  \* a value that does not deserialize, or a header that does not parse
  Unverified, \* one that fails verification by a signed or private jar
  Faults      \* may a client go away?

VARIABLES
  cookie,     \* client -> the session cookie its browser holds
  req         \* request -> its AppFuture

vars == <<cookie, req>>

NoSession == {NoCookie, Malformed, Unverified}

\* What does not deserialize, and no cookie at all, are no fields.
ASSUME CookieAssumption ==
  /\ Faults \in BOOLEAN
  /\ NoCookie # Malformed
  /\ NoSession \cap Map = {}

Unsent == [pc |-> "unsent", client |-> NoCookie, sent |-> NoCookie, inner |-> Empty,
           jar |-> "none", finished |-> FALSE]
Active(r) == req[r].pc \notin {"unsent", "over"}

\* Mutant: the cookie's own value is read, not what a signed jar makes of it.
BeginTrusts(r, c) ==
  /\ req[r].pc = "unsent"
  /\ \A q \in Requests : Active(q) => req[q].client # c
  /\ req' = [req EXCEPT ![r].client = c, ![r].sent = cookie[c],
       ![r].pc = IF cookie[c] = Malformed THEN "respond" ELSE "handler",
       ![r].inner = IF cookie[c] \in {NoCookie, Malformed} THEN Empty ELSE Some(cookie[c])]
  /\ UNCHANGED cookie

\* CookieBackendInner::read, in the first poll of the extractor.
Begin(r, c) ==
  /\ req[r].pc = "unsent"
  /\ \A q \in Requests : Active(q) => req[q].client # c
  /\ req' = [req EXCEPT ![r].client = c, ![r].sent = cookie[c],
       ![r].pc = IF cookie[c] = Malformed THEN "respond" ELSE "handler",
       ![r].inner = IF cookie[c] \in NoSession THEN Empty ELSE Some(cookie[c])]
  /\ UNCHANGED cookie

Edit(r, inner) ==
  /\ req[r].pc = "handler"
  /\ req' = [req EXCEPT ![r].inner = inner]
  /\ UNCHANGED cookie

SetField(r)    == \E f \in Fields, v \in Values : Edit(r, Set(req[r].inner, f, v))
RemoveField(r) == \E f \in Fields : Edit(r, Remove(req[r].inner, f))
ClearAll(r)    == Edit(r, Clear(req[r].inner))

\* Mutant: a session that was not finished is written.
AbandonWrites(r) ==
  /\ req[r].pc = "handler"
  /\ req' = [req EXCEPT ![r].pc = "respond", ![r].jar = "add"]
  /\ UNCHANGED cookie

\* The handler returns without `finish`, or with an error.
Abandon(r) ==
  /\ req[r].pc = "handler"
  /\ req' = [req EXCEPT ![r].pc = "respond"]
  /\ UNCHANGED cookie

\* CookieBackendInner::write, in the poll in which `finish` was called.
Finish(r) ==
  /\ req[r].pc = "handler"
  /\ req' = [req EXCEPT ![r].pc = "respond", ![r].finished = TRUE,
       ![r].jar = CASE req[r].inner.kind = "empty" -> "none"
                    [] req[r].inner.kind = "some"  -> "add"
                    [] req[r].inner.kind = "clear" -> "remove"]
  /\ UNCHANGED cookie

\* CookieJar::delta: to remove a cookie that was not sent is no change.
Reply(r) ==
  /\ req[r].pc = "respond"
  /\ req' = [req EXCEPT ![r].pc = "over"]
  /\ cookie' = [cookie EXCEPT ![req[r].client] =
       CASE req[r].jar = "add" -> req[r].inner.map
         [] req[r].jar = "remove" /\ req[r].sent # NoCookie -> NoCookie
         [] OTHER -> @]

\* The client goes away before the reply.
Cancel(r) ==
  /\ Faults /\ Active(r)
  /\ req' = [req EXCEPT ![r].pc = "over"]
  /\ UNCHANGED cookie

Init ==
  /\ cookie \in [Clients -> NoSession]
  /\ req = [r \in Requests |-> Unsent]

Next == \E r \in Requests :
  \/ \E c \in Clients : Begin(r, c)
  \/ SetField(r) \/ RemoveField(r) \/ ClearAll(r)
  \/ Abandon(r) \/ Finish(r) \/ Reply(r) \/ Cancel(r)

Spec == Init /\ [][Next]_vars

-----------------------------------------------------------------------------
(* Properties. *)

AppFuture ==
  [pc : {"unsent", "handler", "respond", "over"}, client : Clients \cup {NoCookie},
   sent : Map \cup NoSession, inner : Inner,
   jar : {"none", "add", "remove"}, finished : BOOLEAN]

\* What a request works on is a session or none: a value that was not verified
\* never gets into one, nor from there into another cookie.
TypeOK ==
  /\ cookie \in [Clients -> Map \cup NoSession]
  /\ req \in [Requests -> AppFuture]

\* One request at a time, a client sees its session as
\* Sessions promises: the session is the cookie, and a request has finished
\* with it when its reply arrives.
Held(c) == IF cookie[c] \in NoSession THEN NoFields ELSE cookie[c]
Working(c) == {r \in Requests : req[r].client = c /\ Active(r) /\ req[r].sent # Malformed}

Kept    == [c \in Clients |-> Held(c)]
Copy(r) == [map |-> req[r].inner.map, cleared |-> req[r].inner.kind = "clear",
            finished |-> req[r].finished]
Copies  == [c \in Clients |-> {Copy(r) : r \in Working(c)}]

Promise == INSTANCE Sessions WITH
  Forgets <- FALSE, Loses <- Faults, session <- Kept, work <- Copies

KeepsPromise == Promise!SSpec
=============================================================================
