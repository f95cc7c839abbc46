---------------------------- MODULE Server_proofs ----------------------------
(***************************************************************************)
(* Theorems about the server: one owner for each connection that was       *)
(* handed over, and no task behind a request that was refused.             *)
(***************************************************************************)
EXTENDS Server, TLAPS

States == InHttp \cup {"none", "arrived", "accepting", "making", "readying", "upgraded", "over"}

Statuses == {0, 101, 200, 400, 500}

Connection ==
  [state : States, count : 0..MaxRequests, req : SUBSET Requests, reply : Statuses,
   pending : 0..MaxRequests]

Types ==
  /\ setup \in Setups
  /\ server \in {"new", "failed", "serving", "returned", "panicked"}
  /\ loop \in {"off", "running", "ended"} /\ net \in {"up", "broken"}
  /\ background \in {"none", "running", "over"}
  /\ conn \in [Conns -> Connection]
  /\ task \in [Conns \X Numbers -> {"none", "waiting", "talking", "over"}]

\* A request is counted when it comes in; what was promised was promised to one
\* that came in.
Counted(c) ==
  /\ conn[c].pending <= conn[c].count
  /\ conn[c].state \in {"writing", "handling"} => conn[c].reply = 0 /\ conn[c].count \in Numbers
  /\ conn[c].reply # 0 => conn[c].count \in Numbers

\* The task of a request is spawned by its good reply, and not before.
Spawned(c) ==
  /\ \A n \in Numbers : n > conn[c].count => task[<<c, n>>] = "none"
  /\ conn[c].state \in {"writing", "handling"} \/ conn[c].reply >= 400 =>
       task[<<c, conn[c].count>>] = "none"

\* A task talks on the connection that was promised to its request.
Handed(c) ==
  \A n \in Numbers : task[<<c, n>>] = "talking" => conn[c].state = "upgraded" /\ conn[c].pending = n

Sound(c) == Counted(c) /\ Spawned(c) /\ Handed(c)

\* The inductive invariant.
IInv == Types /\ \A c \in Conns : Sound(c)

-----------------------------------------------------------------------------
\* What a connection is when its request has a reply,
LEMMA Replied ==
  ASSUME NEW p \in Connection, NEW status \in Statuses
  PROVE  LET q == [p EXCEPT !.state = "replying", !.req = {}, !.reply = status]
         IN  /\ q \in Connection /\ q.count = p.count /\ q.reply = status
             /\ q.pending = p.pending /\ q.state = "replying"
<1>1. "replying" \in States /\ {} \in SUBSET Requests
  BY DEF States, InHttp
<1> QED
  BY <1>1 DEF Connection

\* and when it has ended.
LEMMA Ended ==
  ASSUME NEW p \in Connection
  PROVE  LET q == [p EXCEPT !.state = "over", !.pending = 0]
         IN  /\ q \in Connection /\ q.count = p.count /\ q.reply = p.reply
             /\ q.pending = 0 /\ q.state = "over"
<1>1. "over" \in States /\ 0 \in 0..MaxRequests
  BY ServerAssumption DEF States
<1> QED
  BY <1>1 DEF Connection

\* A step of one connection and its tasks is a matter of that connection.
LEMMA ConnStep ==
  ASSUME IInv, NEW c \in Conns, Unmoved, conn' \in [Conns -> Connection],
         task' \in [Conns \X Numbers -> {"none", "waiting", "talking", "over"}],
         \A d \in Conns \ {c} : conn'[d] = conn[d] /\ \A n \in Numbers : task'[<<d, n>>] = task[<<d, n>>],
         Sound(c)'
  PROVE  IInv'
<1>1. Types'
  BY DEF IInv, Types, Unmoved
<1>2. ASSUME NEW d \in Conns, d # c PROVE Sound(d)'
  <2>1. conn'[d] = conn[d] /\ \A n \in Numbers : task'[<<d, n>>] = task[<<d, n>>]
    BY <1>2
  <2>2. Sound(d) /\ conn[d] \in Connection
    BY DEF IInv, Types
  <2>3. conn[d].state \in {"writing", "handling"} \/ conn[d].reply >= 400 => conn[d].count \in Numbers
    BY <2>2 DEF Sound, Counted, Connection
  <2> QED
    BY <2>1, <2>2, <2>3 DEF Sound, Counted, Spawned, Handed
<1> QED
  BY <1>1, <1>2 DEF IInv

\* A connection moves on outside of its requests, as a whole or to its end; one
\* that was handed over does not move.
LEMMA MoveStep ==
  ASSUME IInv, NEW c \in Conns, NEW q \in Connection, Unmoved, UNCHANGED task,
         conn' = [conn EXCEPT ![c] = q], conn[c].state # "upgraded",
         q.count = conn[c].count, q.reply = conn[c].reply, q.pending \in {0, conn[c].pending},
         q.state \in {"writing", "handling"} => conn[c].state \in {"writing", "handling"}
  PROVE  IInv'
<1>1. Sound(c) /\ conn[c] \in Connection
  BY DEF IInv, Types
<1>2. conn'[c] = q
  BY DEF IInv, Types
<1>3. \A n \in Numbers : task[<<c, n>>] # "talking"
  BY <1>1 DEF Sound, Handed
<1>4. Sound(c)'
  BY <1>1, <1>2, <1>3 DEF Sound, Counted, Spawned, Handed, Connection
<1> QED
  BY <1>4, ConnStep DEF IInv, Types

\* What is not about a connection: listening, the loop, the end of `run`.
LEMMA RunStep ==
  ASSUME IInv, Fail \/ Listen \/ Break \/ TransportError \/ BackgroundEnds \/ Return
  PROVE  IInv'
<1>1. UNCHANGED <<setup, conn, task>>
  BY DEF Fail, Listen, Break, TransportError, BackgroundEnds, Return
<1>2. Types'
  BY <1>1 DEF IInv, Types, Fail, Listen, Break, TransportError, BackgroundEnds, Return
<1> QED
  BY <1>1, <1>2 DEF IInv, Sound, Counted, Spawned, Handed

\* An error ends the task of one connection.
LEMMA GiveUpStep ==
  ASSUME IInv, NEW c \in Conns, GiveUp(c), conn[c].state # "upgraded"
  PROVE  IInv'
<1> DEFINE q == [conn[c] EXCEPT !.state = "over", !.pending = 0]
<1>1. conn[c] \in Connection /\ Unmoved /\ UNCHANGED task /\ conn' = [conn EXCEPT ![c] = q]
  BY DEF GiveUp, Unmoved, IInv, Types
<1>2. /\ q \in Connection /\ q.count = conn[c].count /\ q.reply = conn[c].reply /\ q.pending = 0
      /\ q.state = "over"
  BY <1>1, Ended
<1> HIDE DEF q
<1> QED
  BY <1>1, <1>2, MoveStep

\* A connection comes to another state.
LEMMA ToStep ==
  ASSUME IInv, NEW c \in Conns, NEW state \in States, To(c, state), Unmoved,
         UNCHANGED task, conn[c].state # "upgraded",
         state \in {"writing", "handling"} => conn[c].state \in {"writing", "handling"}
  PROVE  IInv'
<1> DEFINE q == [conn[c] EXCEPT !.state = state]
<1>1. conn[c] \in Connection /\ conn' = [conn EXCEPT ![c] = q]
  BY DEF To, IInv, Types
<1>2. /\ q \in Connection /\ q.count = conn[c].count /\ q.reply = conn[c].reply
      /\ q.pending = conn[c].pending /\ q.state = state
  BY <1>1 DEF Connection
<1> HIDE DEF q
<1> QED
  BY <1>1, <1>2, MoveStep

\* A request is answered and no task is spawned for it.
LEMMA RefuseStep ==
  ASSUME IInv, NEW c \in Conns, NEW status \in Statuses, Reply(c, status), Unmoved,
         UNCHANGED task, conn[c].state \in {"writing", "handling"}
  PROVE  IInv'
<1> DEFINE q == [conn[c] EXCEPT !.state = "replying", !.req = {}, !.reply = status]
<1>1. conn[c] \in Connection /\ Sound(c) /\ conn' = [conn EXCEPT ![c] = q]
  BY DEF Reply, IInv, Types
<1>2. /\ q \in Connection /\ q.count = conn[c].count /\ q.reply = status
      /\ q.pending = conn[c].pending /\ q.state = "replying"
  BY <1>1, Replied
<1>3. conn'[c] = q
  BY <1>1 DEF IInv, Types
<1> HIDE DEF q
<1>4. Sound(c)'
  BY <1>1, <1>2, <1>3 DEF Sound, Counted, Spawned, Handed, Connection
<1> QED
  BY <1>1, <1>2, <1>4, ConnStep DEF IInv, Types

\* A request comes in: the one before it is at an end, with its tasks.
LEMMA ReceiveStep ==
  ASSUME IInv, NEW c \in Conns, NEW r \in Requests, Receive(c, r)
  PROVE  IInv'
<1> DEFINE n == conn[c].count + 1
<1>0. conn[c] \in Connection /\ Sound(c) /\ conn[c].state = "idle" /\ conn[c].count < MaxRequests
  BY DEF Receive, IInv, Types
<1>1. PICK old \in {0, conn[c].pending} :
       conn' = [conn EXCEPT ![c] =
         [state |-> IF r.finishes THEN "writing" ELSE "handling", req |-> {r},
          count |-> n, reply |-> 0, pending |-> IF Promised(r) THEN n ELSE old]]
  BY DEF Receive
<1> DEFINE q == [state |-> IF r.finishes THEN "writing" ELSE "handling", req |-> {r},
                 count |-> n, reply |-> 0, pending |-> IF Promised(r) THEN n ELSE old]
<1>2. n \in Numbers /\ n \in 0..MaxRequests /\ old \in 0..MaxRequests /\ old <= n
  BY <1>0, ServerAssumption DEF Connection, Numbers, Sound, Counted
<1>3. q \in Connection /\ q.count = n /\ q.reply = 0 /\ q.pending \in {n, old}
      /\ q.state \in {"writing", "handling"}
  <2> HIDE DEF n
  <2> QED
    BY <1>2 DEF Connection, States, Statuses, InHttp
<1>4. conn'[c] = q /\ conn' = [conn EXCEPT ![c] = q]
  BY <1>1 DEF IInv, Types
<1> HIDE DEF q
<1>5. \A m \in Numbers : task[<<c, m>>] # "talking" /\ (m >= n => task[<<c, m>>] = "none")
  BY <1>0 DEF Sound, Handed, Spawned, Connection, Numbers
<1> HIDE DEF n
<1>6. Sound(c)'
  <2>1. UNCHANGED task
    BY DEF Receive
  <2>2. \A m \in Numbers : m > n => m >= n
    BY <1>2 DEF Numbers
  <2> QED
    <3>1. conn'[c].count = n /\ conn'[c].reply = 0 /\ conn'[c].pending <= n
      BY <1>2, <1>3, <1>4 DEF Numbers
    <3>2. conn'[c].state \in {"writing", "handling"}
      BY <1>3, <1>4
    <3>3. Counted(c)'
      BY <1>2, <3>1 DEF Counted
    <3>4. Spawned(c)'
      <4>1. task[<<c, n>>] = "none"
        BY <1>2, <1>5 DEF Numbers
      <4>2. \A m \in Numbers : m > n => task[<<c, m>>] = "none"
        BY <1>5, <2>2
      <4> QED
        BY <2>1, <3>1, <4>1, <4>2 DEF Spawned
    <3>5. Handed(c)'
      BY <1>5, <2>1 DEF Handed
    <3> QED
      BY <3>3, <3>4, <3>5 DEF Sound
<1>7. Unmoved /\ UNCHANGED task
  BY DEF Receive
<1>8. conn' \in [Conns -> Connection]
  BY <1>3, <1>4 DEF IInv, Types
<1>9. \A d \in Conns \ {c} : conn'[d] = conn[d]
  BY <1>4 DEF IInv, Types
<1> QED
  BY <1>6, <1>7, <1>8, <1>9, ConnStep DEF IInv, Types

\* A handshake that is complete has a task, and a good reply.
LEMMA SpawnStep ==
  ASSUME IInv, NEW c \in Conns, NEW status \in Statuses, Reply(c, status), Unmoved, status < 400,
         conn[c].state = "handling",
         task' = [task EXCEPT ![<<c, conn[c].count>>] = "waiting"]
  PROVE  IInv'
<1> DEFINE q == [conn[c] EXCEPT !.state = "replying", !.req = {}, !.reply = status]
           k == conn[c].count
<1>1. conn[c] \in Connection /\ Sound(c) /\ conn' = [conn EXCEPT ![c] = q] /\ k \in Numbers
  BY DEF Reply, IInv, Types, Sound, Counted
<1>2. /\ q \in Connection /\ q.count = k /\ q.reply = status
      /\ q.pending = conn[c].pending /\ q.state = "replying"
  BY <1>1, Replied
<1>3. conn'[c] = q
  BY <1>1 DEF IInv, Types
<1>4. /\ task' \in [Conns \X Numbers -> {"none", "waiting", "talking", "over"}]
      /\ \A n \in Numbers : task'[<<c, n>>] = IF n = k THEN "waiting" ELSE task[<<c, n>>]
      /\ \A d \in Conns \ {c}, n \in Numbers : task'[<<d, n>>] = task[<<d, n>>]
  BY <1>1 DEF IInv, Types
<1> HIDE DEF q
<1>5. Sound(c)'
  <2>1. \A n \in Numbers : n > k => task'[<<c, n>>] = "none"
    BY <1>1, <1>4 DEF Sound, Spawned, Numbers
  <2>2. \A n \in Numbers : task'[<<c, n>>] # "talking"
    BY <1>1, <1>4 DEF Sound, Handed
  <2>3. ~(status >= 400)
    BY DEF Statuses
  <2> QED
    BY <1>1, <1>2, <1>3, <2>1, <2>2, <2>3 DEF Sound, Counted, Spawned, Handed
<1> QED
  BY <1>1, <1>2, <1>4, <1>5, ConnStep DEF IInv, Types

\* A task waits, talks when it has its connection, and ends.
LEMMA TaskStep ==
  ASSUME IInv, NEW c \in Conns, NEW n \in Numbers, PollUpgrade(c, n) \/ HangUp(c, n)
  PROVE  IInv'
<1>1. PICK s \in {"talking", "over"} :
        /\ task' = [task EXCEPT ![<<c, n>>] = s] /\ task[<<c, n>>] # "none"
        /\ s = "talking" => conn[c].pending = n /\ conn[c].state = "upgraded"
        /\ UNCHANGED conn /\ Unmoved
  BY DEF PollUpgrade, HangUp
<1>2. /\ task' \in [Conns \X Numbers -> {"none", "waiting", "talking", "over"}]
      /\ \A m \in Numbers : task'[<<c, m>>] = IF m = n THEN s ELSE task[<<c, m>>]
      /\ \A d \in Conns \ {c}, m \in Numbers : task'[<<d, m>>] = task[<<d, m>>]
  BY <1>1 DEF IInv, Types
<1>3. Sound(c)'
  <2>1. Sound(c) /\ conn[c] \in Connection
    BY DEF IInv, Types
  <2>2. ~(n > conn[c].count) /\ \A m \in Numbers : m > conn[c].count => task'[<<c, m>>] = "none"
    BY <1>1, <1>2, <2>1 DEF Sound, Spawned
  <2>3. conn[c].state \in {"writing", "handling"} \/ conn[c].reply >= 400 =>
          conn[c].count # n /\ conn[c].count \in Numbers
    BY <1>1, <2>1 DEF Sound, Spawned, Counted, Connection
  <2> QED
    BY <1>1, <1>2, <2>1, <2>2, <2>3 DEF Sound, Counted, Spawned, Handed
<1> QED
  BY <1>1, <1>2, <1>3, ConnStep DEF IInv, Types

\* A panic ends its connection, or on the current thread all of them.
LEMMA PanicStep ==
  ASSUME IInv, NEW c \in Conns, Panic(c)
  PROVE  IInv'
<1>1. CASE setup.runtime.is = "pool"
  BY <1>1, GiveUpStep DEF Panic
<1>2. CASE setup.runtime.is # "pool"
  <2> DEFINE end(d) == IF conn[d].state = "none" THEN conn[d]
                       ELSE [conn[d] EXCEPT !.state = "over", !.pending = 0]
  <2>1. /\ server' = "panicked" /\ loop' = "ended" /\ background' \in {background, "over"}
        /\ conn' = [d \in Conns |-> end(d)]
        /\ task' = [t \in DOMAIN task |-> IF task[t] = "none" THEN "none" ELSE "over"]
        /\ UNCHANGED <<setup, net>>
    BY <1>2 DEF Panic
  <2>2. ASSUME NEW d \in Conns
        PROVE  /\ conn'[d] \in Connection /\ conn'[d].count = conn[d].count
               /\ conn'[d].reply = conn[d].reply /\ conn'[d].state \in {"none", "over"}
               /\ conn'[d].pending \in {0, conn[d].pending}
    <3>1. conn[d] \in Connection /\ conn'[d] = end(d)
      BY <2>1 DEF IInv, Types
    <3>2. CASE conn[d].state = "none"
      BY <3>1, <3>2
    <3>3. CASE conn[d].state # "none"
      BY <3>1, <3>3, Ended
    <3> QED
      BY <3>2, <3>3
  <2> HIDE DEF end
  <2>3. \A d \in Conns, n \in Numbers :
          task'[<<d, n>>] # "talking" /\ (task[<<d, n>>] = "none" => task'[<<d, n>>] = "none")
    BY <2>1 DEF IInv, Types
  <2>4. Types'
    BY <2>1, <2>2 DEF IInv, Types
  <2>5. ASSUME NEW d \in Conns PROVE Sound(d)'
    <3>1. Sound(d) /\ conn[d] \in Connection
      BY DEF IInv, Types
    <3>2. conn[d].reply >= 400 => conn[d].count \in Numbers
      BY <3>1 DEF Sound, Counted, Connection
    <3> QED
      BY <2>2, <2>3, <3>1, <3>2 DEF Sound, Counted, Spawned, Handed, Connection
  <2> QED
    BY <2>4, <2>5 DEF IInv
<1> QED
  BY <1>1, <1>2

\* A handler answers a WebSocket request, or any other.
LEMMA HandleStep ==
  ASSUME IInv, NEW c \in Conns, HandlePlain(c) \/ RespondWs(c)
  PROVE  IInv'
<1>1. CASE HandlePlain(c)
  BY <1>1, RefuseStep DEF HandlePlain, Statuses
<1>2. CASE RespondWs(c)
  <2>1. PICK r \in conn[c].req :
       \/ Reply(c, 400) /\ UNCHANGED task
       \/ Reply(c, 500) /\ UNCHANGED task
       \/ /\ Reply(c, Answered(r))
          /\ task' = [task EXCEPT ![<<c, conn[c].count>>] = "waiting"]
    BY <1>2 DEF RespondWs
  <2>2. conn[c].state = "handling" /\ Unmoved
    BY <1>2 DEF RespondWs
  <2> QED
    BY <2>1, <2>2, RefuseStep, SpawnStep DEF Answered, Statuses
<1> QED
  BY <1>1, <1>2

\* Every step of a connection keeps the invariant.
LEMMA AdvanceStep ==
  ASSUME IInv, NEW c \in Conns, Advance(c)
  PROVE  IInv'
<1>1. CASE Make(c)
  BY <1>1, GiveUpStep, ToStep DEF Make, States
<1>2. CASE BecomeReady(c)
  BY <1>2, GiveUpStep, ToStep DEF BecomeReady, States, InHttp
<1>3. CASE WriteSession(c)
  BY <1>3, RefuseStep, ToStep DEF WriteSession, States, Statuses, InHttp
<1>4. CASE SendReply(c)
  BY <1>4, GiveUpStep, ToStep DEF SendReply, States, InHttp
<1> QED
  BY <1>1, <1>2, <1>3, <1>4, HandleStep, PanicStep DEF Advance

\* The invariant holds at first,
LEMMA InitInv == Init => IInv
<1> SUFFICES ASSUME Init PROVE IInv
  OBVIOUS
<1>1. setup.spent \in [Conns -> 0..MaxRequests] /\ 0 \in 0..MaxRequests
  BY ServerAssumption DEF Init
<1>2. \A c \in Conns : conn[c] \in Connection /\ conn[c] = NoConn(setup.spent[c])
  BY <1>1 DEF Init, NoConn, Connection, States, Statuses
<1>3. Types
  BY <1>2 DEF Init, Types
<1>4. \A c \in Conns : Sound(c)
  BY <1>1, <1>2 DEF Init, NoConn, Sound, Counted, Spawned, Handed
<1> QED
  BY <1>3, <1>4 DEF IInv

\* and every step keeps it.
LEMMA NextInv == IInv /\ [Next]_vars => IInv'
<1> SUFFICES ASSUME IInv, [Next]_vars PROVE IInv'
  OBVIOUS
<1>1. CASE UNCHANGED vars
  BY <1>1 DEF vars, IInv, Types, Sound, Counted, Spawned, Handed
<1>2. ASSUME NEW c \in Conns,
             \/ Arrive(c) \/ Accept(c) \/ Handshaken(c) \/ HandshakeFails(c) \/ Advance(c)
             \/ Close(c) \/ CloseHandsOver(c)
             \/ \E r \in Requests : Receive(c, r)
             \/ \E n \in Numbers : PollUpgrade(c, n) \/ HangUp(c, n)
      PROVE  IInv'
  <2>1. CASE Arrive(c) \/ Accept(c) \/ Handshaken(c)
    BY <2>1, ToStep DEF Arrive, Accept, Handshaken, States
  <2>2. CASE HandshakeFails(c) \/ Close(c)
    BY <2>2, GiveUpStep DEF HandshakeFails, Close, InHttp
  <2>3. CASE CloseHandsOver(c)
    BY <2>3, ToStep DEF CloseHandsOver, States
  <2> QED
    BY <1>2, <2>1, <2>2, <2>3, AdvanceStep, ReceiveStep, TaskStep
<1> QED
  BY <1>1, <1>2, RunStep DEF Next

\* The inductive invariant of the server, for any connections and requests.
THEOREM Invariance == Spec => []IInv
<1> QED
  BY InitInv, NextInv, PTL DEF Spec

\* Well typed, and a connection that was handed over has one owner: the task of
\* the request it was promised to, and no HTTP any more.
THEOREM OneTalks == Spec => []ServerInv
<1>1. IInv => ServerInv
  <2> SUFFICES ASSUME IInv PROVE TypeOK /\ OneOwner
    BY DEF ServerInv
  <2>1. TypeOK
    BY ServerAssumption DEF IInv, Types, TypeOK, Connection, States, Statuses, Sound, Counted
  <2>2. OneOwner
    BY DEF IInv, Sound, Handed, OneOwner
  <2> QED
    BY <2>1, <2>2
<1> QED
  BY Invariance, <1>1, PTL

\* No error, of the handshake, the session or the pool, leaves a task behind.
THEOREM RefusedAlone == Spec => []RefusedHasNoTask
<1>1. IInv => RefusedHasNoTask
  BY DEF IInv, Sound, Spawned, RefusedHasNoTask
<1> QED
  BY Invariance, <1>1, PTL
=============================================================================
