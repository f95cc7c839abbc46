------------------------ MODULE CookieSession_proofs -------------------------
(***************************************************************************)
(* Theorems about the cookie backend: IInv is inductive, and with it each  *)
(* step is one of Sessions, or changes nothing Sessions sees.              *)
(***************************************************************************)
EXTENDS CookieSession, TLAPS

\* What a request has done, against the cookie it was sent.
InStage(r) ==
  LET q == req[r] IN
  /\ q.client \in Clients
  /\ cookie[q.client] = q.sent
  /\ q.sent = Malformed => q.pc = "respond" /\ ~q.finished
  /\ q.finished => q.pc = "respond"
  /\ q.jar = IF ~q.finished \/ q.inner.kind = "empty" THEN "none"
             ELSE IF q.inner.kind = "some" THEN "add" ELSE "remove"
  /\ q.inner.kind = "empty" => q.sent \in NoSession

\* A client waits for its last reply before it sends a request.
Alone == \A r, q \in Requests : Active(r) /\ Active(q) /\ req[r].client = req[q].client => r = q

\* Every request is at one of its stages.
Orderly == \A r \in Requests :
  /\ Active(r) => InStage(r)
  /\ req[r].pc = "unsent" => req[r] = Unsent

IInv == TypeOK /\ Alone /\ Orderly

-----------------------------------------------------------------------------
\* Editing a session yields a session, or the one there was.
LEMMA InnerType ==
  ASSUME NEW s \in Inner, NEW f \in Fields, NEW v \in Values
  PROVE  /\ Set(s, f, v) \in Inner /\ Remove(s, f) \in Inner /\ Clear(s) \in Inner
         /\ Set(s, f, v).kind # "empty"
         /\ Remove(s, f).kind = "empty" => s.kind = "empty"
         /\ Clear(s).kind # "empty"
<1>1. NoFields \in Map /\ [s.map EXCEPT ![f] = v] \in Map /\ [s.map EXCEPT ![f] = NoValue] \in Map
  BY DEF Inner, Map, NoFields
<1> QED
  BY <1>1 DEF Inner, Set, Remove, Clear, Some, Cleared, Empty

\* A step of one request that leaves the cookies of other clients alone.
LEMMA RequestStep ==
  ASSUME IInv, NEW r \in Requests, NEW q \in AppFuture, Active(r),
         req' = [req EXCEPT ![r] = q], q.client = req[r].client, q.pc # "unsent",
         cookie' \in [Clients -> Map \cup NoSession],
         \A d \in Clients : d # req[r].client => cookie'[d] = cookie[d],
         q.pc # "over" => InStage(r)'
  PROVE  IInv'
<1>1. req'[r] = q /\ \A p \in Requests : p # r => req'[p] = req[p]
  BY DEF IInv, TypeOK
<1>2. TypeOK'
  BY DEF IInv, TypeOK
<1>3. Alone'
  BY <1>1 DEF IInv, Alone, Active
<1>4. ASSUME NEW p \in Requests, p # r, Active(p)' PROVE InStage(p)'
  <2>1. Active(p) /\ req'[p] = req[p]
    BY <1>1, <1>4 DEF Active
  <2>2. req[p].client # req[r].client /\ req[p].client \in Clients
    BY <1>4, <2>1 DEF IInv, Alone, Orderly, InStage
  <2> QED
    BY <2>1, <2>2 DEF IInv, Orderly, InStage
<1>5. Orderly'
  BY <1>1, <1>4 DEF IInv, Orderly, Active
<1> QED
  BY <1>2, <1>3, <1>5 DEF IInv

\* CookieBackendInner::read takes the client's cookie.
LEMMA BeginStep ==
  ASSUME IInv, NEW r \in Requests, NEW c \in Clients, Begin(r, c)
  PROVE  IInv'
<1> DEFINE q == [Unsent EXCEPT !.client = c, !.sent = cookie[c],
                   !.pc = IF cookie[c] = Malformed THEN "respond" ELSE "handler",
                   !.inner = IF cookie[c] \in NoSession THEN Empty ELSE Some(cookie[c])]
<1>1. /\ req' = [req EXCEPT ![r] = q] /\ req[r] = Unsent /\ cookie' = cookie
      /\ \A p \in Requests : Active(p) => req[p].client # c
  BY DEF Begin, IInv, Orderly, TypeOK
<1>2. req'[r] = q /\ \A p \in Requests : p # r => req'[p] = req[p]
  BY <1>1 DEF IInv, TypeOK
<1>3. /\ q.client = c /\ q.sent = cookie[c] /\ q.jar = "none" /\ q.finished = FALSE
      /\ q.pc = IF cookie[c] = Malformed THEN "respond" ELSE "handler"
      /\ q.inner = IF cookie[c] \in NoSession THEN Empty ELSE Some(cookie[c])
  BY DEF Unsent
<1>4. q \in AppFuture
  <2>1. Empty \in Inner /\ (cookie[c] \notin NoSession => Some(cookie[c]) \in Inner)
    BY DEF Empty, Some, Inner, NoFields, Map, IInv, TypeOK
  <2> QED
    BY <2>1 DEF AppFuture, Unsent, IInv, TypeOK
<1> HIDE DEF q
<1>5. TypeOK'
  BY <1>1, <1>4 DEF IInv, TypeOK
<1>6. Alone'
  BY <1>1, <1>2, <1>3 DEF IInv, Alone, Active
<1>7. InStage(r)'
  BY <1>1, <1>2, <1>3 DEF InStage, Some
<1>8. ASSUME NEW p \in Requests, p # r, Active(p)' PROVE InStage(p)'
  <2>1. Active(p) /\ req'[p] = req[p]
    BY <1>2, <1>8 DEF Active
  <2> QED
    BY <1>1, <2>1 DEF IInv, Orderly, InStage
<1>9. Orderly'
  BY <1>2, <1>3, <1>7, <1>8 DEF IInv, Orderly
<1> QED
  BY <1>5, <1>6, <1>9 DEF IInv

\* The handler edits its session, or ends without `finish`, or finishes.
LEMMA HandlerStep ==
  ASSUME IInv, NEW r \in Requests,
         SetField(r) \/ RemoveField(r) \/ ClearAll(r) \/ Abandon(r) \/ Finish(r)
  PROVE  IInv'
<1>0. /\ req[r] \in AppFuture /\ req[r].pc = "handler" /\ Active(r) /\ InStage(r) /\ cookie' = cookie
      /\ req[r].inner \in Inner
  BY DEF SetField, RemoveField, ClearAll, Edit, Abandon, Finish, IInv, TypeOK, Active, Orderly, AppFuture
<1>1. CASE SetField(r) \/ RemoveField(r) \/ ClearAll(r)
  <2>1. PICK inner \in Inner : Edit(r, inner) /\ (inner.kind = "empty" => req[r].inner.kind = "empty")
    <3>1. CASE SetField(r)
      BY <1>0, <3>1, InnerType DEF SetField
    <3>2. CASE RemoveField(r)
      <4>1. PICK f \in Fields : Edit(r, Remove(req[r].inner, f))
        BY <3>2 DEF RemoveField
      <4>2. Remove(req[r].inner, f) \in Inner
        BY <1>0 DEF Remove, Some, Inner, Map
      <4> QED
        BY <4>1, <4>2 DEF Remove, Some
    <3>3. CASE ClearAll(r)
      BY <3>3 DEF ClearAll, Clear, Cleared, Inner, NoFields, Map
    <3> QED
      BY <1>1, <3>1, <3>2, <3>3
  <2> DEFINE q == [req[r] EXCEPT !.inner = inner]
  <2>2. req' = [req EXCEPT ![r] = q] /\ req'[r] = q
    BY <2>1 DEF Edit, IInv, TypeOK
  <2>3. /\ q \in AppFuture /\ q.pc = "handler" /\ q.client = req[r].client /\ q.sent = req[r].sent
        /\ q.inner = inner /\ q.jar = req[r].jar /\ q.finished = req[r].finished
    BY <1>0, <2>1 DEF AppFuture
  <2> HIDE DEF q
  <2>4. InStage(r)'
    BY <1>0, <2>1, <2>2, <2>3 DEF InStage
  <2> QED
    BY <1>0, <2>2, <2>3, <2>4, RequestStep DEF IInv, TypeOK
<1>2. CASE Abandon(r)
  <2> DEFINE q == [req[r] EXCEPT !.pc = "respond"]
  <2>1. req' = [req EXCEPT ![r] = q] /\ req'[r] = q
    BY <1>2 DEF Abandon, IInv, TypeOK
  <2>2. /\ q \in AppFuture /\ q.pc = "respond" /\ q.client = req[r].client /\ q.sent = req[r].sent
        /\ q.inner = req[r].inner /\ q.jar = req[r].jar /\ q.finished = req[r].finished
    BY <1>0 DEF AppFuture
  <2> HIDE DEF q
  <2>3. InStage(r)'
    BY <1>0, <2>1, <2>2 DEF InStage
  <2> QED
    BY <1>0, <2>1, <2>2, <2>3, RequestStep DEF IInv, TypeOK
<1>3. CASE Finish(r)
  <2> DEFINE jar == CASE req[r].inner.kind = "empty" -> "none"
                      [] req[r].inner.kind = "some"  -> "add"
                      [] req[r].inner.kind = "clear" -> "remove"
             q == [req[r] EXCEPT !.pc = "respond", !.finished = TRUE, !.jar = jar]
  <2>5. req' = [req EXCEPT ![r].pc = "respond", ![r].finished = TRUE, ![r].jar = jar]
    BY <1>3 DEF Finish
  <2>1. req' = [req EXCEPT ![r] = q] /\ req'[r] = q
    <3> HIDE DEF jar
    <3> QED
      BY <2>5 DEF IInv, TypeOK
  <2>2. jar = IF req[r].inner.kind = "empty" THEN "none" ELSE IF req[r].inner.kind = "some" THEN "add" ELSE "remove"
    BY <1>0 DEF Inner
  <2> HIDE DEF jar
  <2>3. /\ q \in AppFuture /\ q.pc = "respond" /\ q.client = req[r].client /\ q.sent = req[r].sent
        /\ q.inner = req[r].inner /\ q.jar = jar /\ q.finished = TRUE
    BY <1>0, <2>2 DEF AppFuture
  <2> HIDE DEF q
  <2>4. InStage(r)'
    BY <1>0, <2>1, <2>2, <2>3 DEF InStage
  <2> QED
    BY <1>0, <2>1, <2>3, <2>4, RequestStep DEF IInv, TypeOK
<1> QED
  BY <1>1, <1>2, <1>3

\* The reply reaches the client, or the client goes away.
LEMMA LeaveStep ==
  ASSUME IInv, NEW r \in Requests, Reply(r) \/ Cancel(r)
  PROVE  IInv'
<1> DEFINE q == [req[r] EXCEPT !.pc = "over"]
<1>0. req[r] \in AppFuture /\ Active(r) /\ req[r].client \in Clients /\ req' = [req EXCEPT ![r] = q]
  BY DEF Reply, Cancel, IInv, TypeOK, Active, Orderly, InStage
<1>1. q \in AppFuture /\ q.pc = "over" /\ q.client = req[r].client
  BY <1>0 DEF AppFuture
<1>2. /\ cookie' \in [Clients -> Map \cup NoSession]
      /\ \A d \in Clients : d # req[r].client => cookie'[d] = cookie[d]
  BY <1>0 DEF Reply, Cancel, IInv, TypeOK, AppFuture, Inner, NoSession
<1> HIDE DEF q
<1> QED
  BY <1>0, <1>1, <1>2, RequestStep

\* The invariant holds at first,
LEMMA InitInv == Init => IInv
<1> SUFFICES ASSUME Init PROVE IInv
  OBVIOUS
<1>1. Unsent \in AppFuture
  BY DEF Unsent, AppFuture, Empty, Inner, NoFields, Map, NoSession
<1> QED
  BY <1>1 DEF Init, IInv, TypeOK, Alone, Orderly, Active, Unsent

\* and every step keeps it.
LEMMA NextInv ==
  ASSUME IInv, [Next]_vars
  PROVE  IInv'
<1>1. CASE UNCHANGED vars
  BY <1>1 DEF vars, IInv, TypeOK, Alone, Orderly, InStage, Active
<1>2. CASE Next
  BY <1>2, BeginStep, HandlerStep, LeaveStep DEF Next
<1> QED
  BY <1>1, <1>2

\* Whatever its browser sends, a request works on verified fields or on none,
\* and what it puts into a cookie is fields again.
THEOREM TypeCorrect == Spec => []TypeOK
<1>1. IInv /\ [Next]_vars => IInv'
  BY NextInv
<1>2. IInv => TypeOK
  BY DEF IInv
<1> QED
  BY InitInv, <1>1, <1>2, PTL DEF Spec

-----------------------------------------------------------------------------
(* Refinement: Kept and Copies, step by step. *)

\* A step of Sessions, or none.
Step == Promise!SNext \/ UNCHANGED <<Kept, Copies>>

\* A request works on a session unless its cookie could not be read.
Works(r) == Active(r) /\ req[r].sent # Malformed

\* What a client works on is what its one active request works on,
LEMMA CopiesOf ==
  ASSUME IInv, NEW r \in Requests, Active(r)
  PROVE  Copies[req[r].client] = IF Works(r) THEN {Copy(r)} ELSE {}
<1>1. req[r].client \in Clients
  BY DEF IInv, Orderly, InStage
<1>2. Working(req[r].client) = IF Works(r) THEN {r} ELSE {}
  BY DEF IInv, Alone, Working, Works
<1> QED
  BY <1>1, <1>2 DEF Copies

\* also after a step;
LEMMA CopiesOfNext ==
  ASSUME IInv', NEW r \in Requests, Active(r)'
  PROVE  Copies'[req'[r].client] = IF Works(r)' THEN {Copy(r)'} ELSE {}
<1>1. req'[r].client \in Clients
  BY DEF IInv, Orderly, InStage
<1>2. Working(req[r].client)' = IF Works(r)' THEN {r} ELSE {}
  BY DEF IInv, Alone, Working, Works
<1> QED
  BY <1>1, <1>2 DEF Copies

\* a client without an active request works on nothing,
LEMMA NoCopies ==
  ASSUME NEW c \in Clients, \A r \in Requests : Active(r) => req[r].client # c
  PROVE  Copies[c] = {}
BY DEF Copies, Working

\* also after a step.
LEMMA NoCopiesNext ==
  ASSUME NEW c \in Clients, \A r \in Requests : Active(r)' => req'[r].client # c
  PROVE  Copies'[c] = {}
BY DEF Copies, Working

\* A step of one request leaves the other clients' copies alone.
LEMMA OthersCopies ==
  ASSUME NEW r \in Requests, NEW d \in Clients,
         Active(r) => req[r].client # d, Active(r)' => req'[r].client # d,
         \A p \in Requests : p # r => req'[p] = req[p]
  PROVE  Copies'[d] = Copies[d]
<1>1. Working(d)' = Working(d)
  BY DEF Working, Active
<1>2. r \notin Working(d)
  BY DEF Working
<1>3. \A p \in Working(d) : Copy(p)' = Copy(p)
  BY <1>2 DEF Working, Copy
<1> QED
  BY <1>1, <1>3 DEF Copies

\* The copies before and after a step of one request.
LEMMA CopiesStep ==
  ASSUME IInv, IInv', NEW r \in Requests, Active(r), NEW c, c = req[r].client, req'[r].client = c,
         \A p \in Requests : p # r => req'[p] = req[p]
  PROVE  /\ c \in Clients
         /\ Copies[c] = IF Works(r) THEN {Copy(r)} ELSE {}
         /\ Copies' = [Copies EXCEPT ![c] = IF Works(r)' THEN {Copy(r)'} ELSE {}]
<1>1. c \in Clients
  BY DEF IInv, Orderly, InStage
<1>2. Copies[c] = IF Works(r) THEN {Copy(r)} ELSE {}
  BY CopiesOf
<1>3. Copies'[c] = IF Works(r)' THEN {Copy(r)'} ELSE {}
  <2>1. CASE Active(r)'
    BY <2>1, CopiesOfNext
  <2>2. CASE ~Active(r)'
    <3>1. \A p \in Requests : Active(p)' => req'[p].client # c
      BY <2>2 DEF IInv, Alone, Active
    <3>2. ~Works(r)'
      BY <2>2 DEF Works
    <3> QED
      BY <1>1, <3>1, <3>2, NoCopiesNext
  <2> QED
    BY <2>1, <2>2
<1>4. \A d \in Clients : d # c => Copies'[d] = Copies[d]
  BY OthersCopies
<1>5. Copies = [d \in Clients |-> Copies[d]] /\ Copies' = [d \in Clients |-> Copies'[d]]
  BY DEF Copies
<1> QED
  BY <1>1, <1>2, <1>3, <1>4, <1>5

\* A step that changes neither the session nor what is worked on.
LEMMA Stutter ==
  ASSUME IInv, IInv', NEW r \in Requests, Active(r), req'[r].client = req[r].client,
         \A p \in Requests : p # r => req'[p] = req[p], Kept' = Kept,
         Works(r)' <=> Works(r), Works(r) => Copy(r)' = Copy(r)
  PROVE  Step
<1> DEFINE c == req[r].client
<1>1. /\ c \in Clients /\ Copies[c] = IF Works(r) THEN {Copy(r)} ELSE {}
      /\ Copies' = [Copies EXCEPT ![c] = IF Works(r)' THEN {Copy(r)'} ELSE {}]
  BY CopiesStep
<1> HIDE DEF c
<1>2. Copies = [Copies EXCEPT ![c] = Copies[c]]
  BY <1>1 DEF Copies
<1> QED
  BY <1>1, <1>2 DEF Step

\* To begin a request is to open the session, unless its cookie is malformed.
LEMMA BeginRefines ==
  ASSUME IInv, IInv', NEW r \in Requests, NEW c \in Clients, Begin(r, c)
  PROVE  Step
<1>0. /\ \A p \in Requests : Active(p) => req[p].client # c
      /\ \A p \in Requests : p # r => req'[p] = req[p]
      /\ cookie' = cookie /\ req[r] = Unsent /\ ~Active(r)
  BY DEF Begin, Active, IInv, TypeOK, Orderly
<1>1. /\ req'[r].client = c /\ req'[r].sent = cookie[c] /\ req'[r].finished = FALSE
      /\ req'[r].inner = IF cookie[c] \in NoSession THEN Empty ELSE Some(cookie[c])
      /\ req'[r].pc = IF cookie[c] = Malformed THEN "respond" ELSE "handler"
  BY <1>0 DEF Begin, IInv, TypeOK, Unsent
<1>2. Active(r)' /\ (Works(r)' <=> cookie[c] # Malformed)
  BY <1>1 DEF Active, Works
<1>3. Copies[c] = {} /\ Copies'[c] = IF cookie[c] # Malformed THEN {Copy(r)'} ELSE {}
  BY <1>0, <1>1, <1>2, NoCopies, CopiesOfNext
<1>4. \A d \in Clients : d # c => Copies'[d] = Copies[d]
  BY <1>0, <1>1, OthersCopies
<1>5. Copies = [d \in Clients |-> Copies[d]] /\ Copies' = [d \in Clients |-> Copies'[d]]
  BY DEF Copies
<1>6. Kept' = Kept
  BY <1>0 DEF Kept, Held
<1>7. CASE cookie[c] = Malformed
  BY <1>3, <1>4, <1>5, <1>6, <1>7 DEF Step
<1>8. CASE cookie[c] # Malformed
  <2>1. Copy(r)' = Promise!Draft(Kept[c], FALSE, FALSE)
    <3>1. req'[r].inner.map = Kept[c] /\ req'[r].inner.kind # "clear"
      BY <1>1 DEF Kept, Held, Some, Empty
    <3> QED
      BY <1>1, <3>1 DEF Copy, Promise!Draft
  <2>2. Copies' = [Copies EXCEPT ![c] = {Copy(r)'}]
    BY <1>3, <1>4, <1>5, <1>8
  <2> QED
    BY <1>3, <1>6, <2>1, <2>2 DEF Step, Promise!SNext, Promise!SOpen
<1> QED
  BY <1>7, <1>8

\* An edit of the copy is one of Sessions', or none.
LEMMA EditRefines ==
  ASSUME IInv, IInv', NEW r \in Requests, NEW inner, Edit(r, inner),
         \/ inner = req[r].inner
         \/ \E f \in Fields, v \in Values \cup {NoValue} :
              /\ req[r].inner.kind # "clear" /\ inner.kind # "clear"
              /\ inner.map = [req[r].inner.map EXCEPT ![f] = v]
         \/ inner = Cleared
  PROVE  Step
<1> DEFINE c == req[r].client
           w == Copy(r)
           k == req[r].inner.kind = "clear"
           k1 == inner.kind = "clear"
<1>0. /\ req[r].pc = "handler" /\ Active(r) /\ cookie' = cookie
      /\ InStage(r) /\ c \in Clients /\ req[r] \in AppFuture
  BY DEF Edit, Active, IInv, TypeOK, Orderly, InStage
<1>1. \A p \in Requests : p # r => req'[p] = req[p]
  BY DEF Edit, IInv, TypeOK
<1>2. /\ req'[r].pc = "handler" /\ req'[r].client = c /\ req'[r].sent = req[r].sent
      /\ req'[r].inner = inner /\ req'[r].finished = FALSE /\ req[r].finished = FALSE
  BY <1>0 DEF Edit, IInv, TypeOK, AppFuture, InStage
<1>3. Kept' = Kept
  BY <1>0 DEF Kept, Held
<1>4. Works(r) /\ Works(r)'
  BY <1>0, <1>2 DEF Active, Works, InStage
<1> HIDE DEF c
<1>5. c \in Clients /\ Copies[c] = {w} /\ Copies' = [Copies EXCEPT ![c] = {Copy(r)'}]
  BY <1>0, <1>1, <1>2, <1>4, CopiesStep DEF c
<1>6. /\ w = [map |-> req[r].inner.map, cleared |-> k, finished |-> FALSE]
      /\ Copy(r)' = [map |-> inner.map, cleared |-> k1, finished |-> FALSE]
      /\ k \in BOOLEAN /\ k1 \in BOOLEAN
  BY <1>2 DEF Copy
<1> HIDE DEF w
<1>7. w.finished = FALSE /\ w.cleared = k /\ w.map = req[r].inner.map
  BY <1>6
<1>8. CASE inner = req[r].inner
  <2>1. Copy(r)' = Copy(r)
    BY <1>2, <1>8 DEF Copy
  <2> QED
    BY <1>0, <1>1, <1>2, <1>3, <1>4, <2>1, Stutter DEF c
<1>9. ASSUME NEW f \in Fields, NEW v \in Values \cup {NoValue},
             req[r].inner.kind # "clear", inner.kind # "clear",
             inner.map = [req[r].inner.map EXCEPT ![f] = v]
      PROVE  Step
  <2>1. Copy(r)' = Promise!Draft([w.map EXCEPT ![f] = v], FALSE, FALSE) /\ w.cleared = FALSE
    <3>1. k = FALSE /\ k1 = FALSE
      BY <1>9
    <3> HIDE DEF k, k1
    <3> QED
      BY <1>6, <1>7, <1>9, <3>1 DEF Promise!Draft
  <2>2. /\ w \in Copies[c] /\ ~w.finished /\ ~w.cleared
        /\ Copies' = [Copies EXCEPT ![c] = {Promise!Draft([w.map EXCEPT ![f] = v], FALSE, FALSE)}]
    BY <1>5, <1>7, <2>1
  <2>3. Promise!SWork(c)
    BY <1>3, <1>9, <2>2 DEF Promise!SWork
  <2> QED
    BY <1>5, <2>3 DEF Step, Promise!SNext
<1>10. CASE inner = Cleared
  <2>1. Copy(r)' = Promise!Draft(NoFields, TRUE, FALSE)
    <3>1. k1 = TRUE /\ inner.map = NoFields
      BY <1>10 DEF Cleared
    <3> HIDE DEF k, k1
    <3> QED
      BY <1>6, <3>1 DEF Promise!Draft
  <2>2. Promise!SWork(c)
    BY <1>3, <1>5, <1>7, <2>1 DEF Promise!SWork, Promise!NoFields, NoFields
  <2> QED
    BY <1>5, <2>2 DEF Step, Promise!SNext
<1> QED
  BY <1>8, <1>9, <1>10

\* The methods of RawSession.
LEMMA HandlerRefines ==
  ASSUME IInv, IInv', NEW r \in Requests, SetField(r) \/ RemoveField(r) \/ ClearAll(r)
  PROVE  Step
<1>0. req[r].inner \in Inner
  BY DEF IInv, TypeOK, AppFuture
<1>1. CASE SetField(r)
  <2>1. PICK f \in Fields, v \in Values : Edit(r, Set(req[r].inner, f, v))
    BY <1>1 DEF SetField
  <2> QED
    BY <1>0, <2>1, EditRefines DEF Set, Some, Inner
<1>2. CASE RemoveField(r)
  <2>1. PICK f \in Fields : Edit(r, Remove(req[r].inner, f))
    BY <1>2 DEF RemoveField
  <2> QED
    BY <1>0, <2>1, EditRefines DEF Remove, Some, Inner
<1>3. CASE ClearAll(r)
  BY <1>3, EditRefines DEF ClearAll, Clear
<1> QED
  BY <1>1, <1>2, <1>3

\* To leave the handler without `finish` is no step; to call it is SFinish.
LEMMA FinishRefines ==
  ASSUME IInv, IInv', NEW r \in Requests, Abandon(r) \/ Finish(r)
  PROVE  Step
<1> DEFINE c == req[r].client
           k == req[r].inner.kind = "clear"
<1>0. /\ req[r].pc = "handler" /\ Active(r) /\ cookie' = cookie
      /\ InStage(r) /\ c \in Clients /\ req[r] \in AppFuture
  BY DEF Abandon, Finish, Active, IInv, TypeOK, Orderly, InStage
<1>1. \A p \in Requests : p # r => req'[p] = req[p]
  BY DEF Abandon, Finish, IInv, TypeOK
<1>2. /\ req'[r].pc = "respond" /\ req'[r].client = c /\ req'[r].sent = req[r].sent
      /\ req'[r].inner = req[r].inner
      /\ req'[r].finished = req[r].finished \/ (Finish(r) /\ req'[r].finished = TRUE)
  <2>1. CASE Abandon(r)
    BY <1>0, <2>1 DEF Abandon, IInv, TypeOK, AppFuture
  <2>2. CASE Finish(r)
    <3>1. PICK jar : req' = [req EXCEPT ![r].pc = "respond", ![r].finished = TRUE, ![r].jar = jar]
      BY <2>2 DEF Finish
    <3> QED
      BY <1>0, <2>2, <3>1 DEF IInv, TypeOK, AppFuture
  <2> QED
    BY <2>1, <2>2
<1>3. Kept' = Kept
  BY <1>0 DEF Kept, Held
<1>4. Works(r) /\ Works(r)'
  BY <1>0, <1>2 DEF Active, Works, InStage
<1>5. CASE req'[r].finished = req[r].finished
  <2>1. Copy(r)' = Copy(r)
    BY <1>2, <1>5 DEF Copy
  <2> HIDE DEF c
  <2> QED
    BY <1>0, <1>1, <1>2, <1>3, <1>4, <2>1, Stutter DEF c
<1>6. CASE req'[r].finished = TRUE
  <2> HIDE DEF c
  <2>1. c \in Clients /\ Copies[c] = {Copy(r)} /\ Copies' = [Copies EXCEPT ![c] = {Copy(r)'}]
    BY <1>0, <1>1, <1>2, <1>4, CopiesStep DEF c
  <2>2. Copy(r)' = Promise!Draft(Copy(r).map, Copy(r).cleared, TRUE)
    <3>1. /\ Copy(r) = [map |-> req[r].inner.map, cleared |-> k, finished |-> req[r].finished]
          /\ Copy(r)' = [map |-> req[r].inner.map, cleared |-> k, finished |-> TRUE]
          /\ k \in BOOLEAN /\ req[r].finished \in BOOLEAN
      BY <1>0, <1>2, <1>6 DEF Copy, AppFuture
    <3> HIDE DEF k
    <3> QED
      BY <3>1 DEF Promise!Draft
  <2>3. Promise!SFinish(c)
    BY <1>3, <2>1, <2>2 DEF Promise!SFinish
  <2> QED
    BY <2>1, <2>3 DEF Step, Promise!SNext
<1> QED
  BY <1>2, <1>5, <1>6

\* The reply commits what was finished, as CookieJar::delta has it, and drops
\* what was not; a client that goes away drops either.
LEMMA LeaveRefines ==
  ASSUME IInv, IInv', NEW r \in Requests, Reply(r) \/ Cancel(r)
  PROVE  Step
<1> DEFINE c == req[r].client
           w == Copy(r)
<1>0. /\ Active(r) /\ ~Active(r)' /\ ~Works(r)' /\ InStage(r) /\ c \in Clients /\ req[r] \in AppFuture
      /\ req'[r].client = c /\ \A p \in Requests : p # r => req'[p] = req[p]
  BY DEF Reply, Cancel, Active, IInv, TypeOK, AppFuture, Orderly, InStage, Works
<1>1. cookie[c] = req[r].sent
  BY <1>0 DEF InStage
<1>2. Reply(r) => cookie' = [cookie EXCEPT ![c] =
                               CASE req[r].jar = "add" -> req[r].inner.map
                                 [] req[r].jar = "remove" /\ req[r].sent # NoCookie -> NoCookie
                                 [] OTHER -> @]
  BY DEF Reply
<1>3. Kept = [d \in Clients |-> Kept[d]] /\ Kept' = [d \in Clients |-> Kept'[d]]
  BY DEF Kept
<1>4. Reply(r) => \A d \in Clients : d # c => Kept'[d] = Kept[d]
  BY <1>2 DEF Kept, Held, IInv, TypeOK
<1>5. CASE ~Works(r)
  <2>1. Cancel(r) \/ ~req[r].finished
    BY <1>0, <1>5 DEF Works, InStage
  <2>2. cookie' = cookie
    <3>1. CASE Reply(r)
      BY <1>0, <1>2, <2>1, <3>1 DEF InStage, Cancel, Reply, IInv, TypeOK
    <3> QED
      BY <3>1 DEF Cancel
  <2>3. Kept' = Kept
    BY <2>2 DEF Kept, Held
  <2> HIDE DEF c
  <2> QED
    BY <1>0, <1>5, <2>3, Stutter DEF c
<1>6. CASE Works(r)
  <2> HIDE DEF c
  <2>1. c \in Clients /\ Copies[c] = {w} /\ Copies' = [Copies EXCEPT ![c] = {}]
    BY <1>0, <1>6, CopiesStep DEF c
  <2>2. w.map = req[r].inner.map /\ w.finished = req[r].finished
    BY DEF Copy
  <2> HIDE DEF w
  <2>3. CASE Cancel(r)
    <3>1. Kept' = Kept /\ Faults
      BY <2>3 DEF Cancel, Kept, Held
    <3> QED
      BY <2>1, <3>1 DEF Step, Promise!SNext, Promise!SAbandon
  <2>4. CASE Reply(r) /\ ~req[r].finished
    <3>1. cookie' = cookie
      BY <1>0, <1>2, <2>1, <2>4 DEF InStage, IInv, TypeOK
    <3>2. Kept' = Kept
      BY <3>1 DEF Kept, Held
    <3> QED
      BY <2>1, <2>2, <2>4, <3>2 DEF Step, Promise!SNext, Promise!SAbandon
  <2>5. CASE Reply(r) /\ req[r].finished
    <3>1. Kept'[c] = w.map
      <4>1. req[r].inner \in Inner /\ req[r].inner.map \in Map /\ req[r].inner.map \notin NoSession
        BY <1>0, CookieAssumption DEF AppFuture, Inner
      <4>2. cookie'[c] = CASE req[r].jar = "add" -> req[r].inner.map
                           [] req[r].jar = "remove" /\ req[r].sent # NoCookie -> NoCookie
                           [] OTHER -> cookie[c]
        BY <1>2, <2>1, <2>5 DEF IInv, TypeOK
      <4>3. Kept'[c] = IF cookie'[c] \in NoSession THEN NoFields ELSE cookie'[c]
        BY <2>1 DEF Kept, Held
      <4>4. CASE req[r].inner.kind = "empty"
        BY <1>0, <1>1, <2>2, <4>1, <4>2, <4>3, <4>4 DEF InStage, Inner, c
      <4>5. CASE req[r].inner.kind = "some"
        BY <1>0, <2>2, <2>5, <4>1, <4>2, <4>3, <4>5 DEF InStage
      <4>6. CASE req[r].inner.kind = "clear"
        BY <1>0, <1>1, <2>2, <2>5, <4>1, <4>2, <4>3, <4>6 DEF InStage, Inner, NoSession, c
      <4> QED
        BY <4>1, <4>4, <4>5, <4>6 DEF Inner
    <3>2. Kept' = [Kept EXCEPT ![c] = w.map]
      BY <1>3, <1>4, <2>1, <2>5, <3>1
    <3>3. Promise!SCommit(c)
      BY <2>1, <2>2, <2>5, <3>2 DEF Promise!SCommit
    <3> QED
      BY <2>1, <3>3 DEF Step, Promise!SNext
  <2> QED
    BY <2>3, <2>4, <2>5
<1> QED
  BY <1>5, <1>6

\* The first states are first states of Sessions,
LEMMA InitRefines == Init => Promise!SInit
<1> SUFFICES ASSUME Init PROVE Promise!SInit
  OBVIOUS
<1>1. Kept = [c \in Clients |-> NoFields]
  BY DEF Init, Kept, Held
<1>2. Copies = [c \in Clients |-> {}]
  BY DEF Init, Copies, Working, Active, Unsent
<1> QED
  BY <1>1, <1>2 DEF Promise!SInit, Promise!NoFields, NoFields

\* and every step is one of Sessions or changes nothing Sessions sees.
LEMMA NextRefines ==
  ASSUME IInv, [Next]_vars
  PROVE  [Promise!SNext]_(Promise!sessionVars)
<1>0. IInv'
  BY NextInv
<1>1. CASE UNCHANGED vars
  <2>1. Kept' = Kept /\ Copies' = Copies
    BY <1>1 DEF vars, Kept, Held, Copies, Copy, Working, Active
  <2> QED
    BY <2>1 DEF Promise!sessionVars
<1>2. CASE Next
  <2>1. Step
    BY <1>0, <1>2, BeginRefines, HandlerRefines, FinishRefines, LeaveRefines DEF Next
  <2> QED
    BY <2>1 DEF Step, Promise!sessionVars
<1> QED
  BY <1>1, <1>2

\* The cookie backend implements Sessions, with clients that go away and
\* without, for any clients, requests and fields.
THEOREM PromiseKept == Spec => KeepsPromise
<1>1. IInv /\ [Next]_vars => IInv'
  BY NextInv
<1>2. IInv /\ [Next]_vars => [Promise!SNext]_(Promise!sessionVars)
  BY NextRefines
<1> QED
  BY InitInv, InitRefines, <1>1, <1>2, PTL DEF Spec, KeepsPromise, Promise!SSpec
=============================================================================
