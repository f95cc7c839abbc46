------------------------------- MODULE Server -------------------------------
(***************************************************************************)
(* The server (tsukuyomi-server): the loop that accepts, a task for each   *)
(* connection from the TLS handshake to its last reply, the services made  *)
(* for them (tsukuyomi-service), and the WebSocket tasks that replies leave *)
(* behind (tsukuyomi-tungstenite), until `run` returns.                    *)
(***************************************************************************)
EXTENDS Naturals, FiniteSets

CONSTANTS
  Conns,        \* the connections of peers
  MaxRequests,  \* bound on the requests of a connection
  Requests,     \* [http, route, fields, stolen, finishes, mapped]
  Setups        \* [runtime, listener, acceptor, factory, background], as `Server` is
                \* built; `spent` is what is off the bound of each connection

ASSUME ServerAssumption ==
  /\ IsFiniteSet(Conns) /\ MaxRequests \in Nat
  /\ \A s \in Setups : s.spent \in [Conns -> 0..MaxRequests]

VARIABLES
  setup,
  server,      \* how far `run` is
  loop,        \* the future `serve`, which accepts
  net,         \* what the stream of incoming connections yields
  background,  \* a task the application spawned on the runtime it supplied
  conn,        \* each connection: the state of its task, its requests, replies ...
               \* ... and the upgrade hyper has promised to a request of it
  task         \* the task WsRespond spawned for a request of a connection

vars == <<setup, server, loop, net, background, conn, task>>

Numbers == 1..MaxRequests

-----------------------------------------------------------------------------
\* run(), up to the runtime's wait

\* Listener::listen: an address or a path is bound, a socket of std is put
\* into the reactor, and either can fail; a listener of tokio is there.
ListenMayFail == setup.listener # "tokio"

\* `?` on Runtime::new or on listen: the runtime is dropped with what runs on it.
Fail ==
  /\ server = "new"
  /\ setup.runtime.own \/ ListenMayFail
  /\ server' = "failed"
  /\ background' = IF background = "running" THEN "over" ELSE background
  /\ UNCHANGED <<setup, loop, net, conn, task>>

Listen ==
  /\ server = "new"
  /\ server' = "serving" /\ loop' = "running"
  /\ UNCHANGED <<setup, net, background, conn, task>>

To(c, state) == conn' = [conn EXCEPT ![c].state = state]

Unmoved == UNCHANGED <<setup, server, loop, net, background>>

\* A peer connects; it waits in the backlog.
Arrive(c) ==
  /\ loop = "running" /\ conn[c].state = "none"
  /\ To(c, "arrived") /\ Unmoved /\ UNCHANGED task

\* accept(2) begins to fail: too many open files, for example.
Break ==
  /\ loop = "running" /\ net = "up" /\ net' = "broken"
  /\ UNCHANGED <<setup, server, loop, background, conn, task>>

\* An error of the stream is logged, and ends for_each.
TransportError ==
  /\ loop = "running" /\ net = "broken" /\ loop' = "ended"
  /\ UNCHANGED <<setup, server, net, background, conn, task>>

-----------------------------------------------------------------------------
\* The task of a connection, up to its HTTP

\* Mutant: the handshake of a connection is awaited before the next is accepted.
AcceptInTurn(c) ==
  /\ loop = "running" /\ conn[c].state = "arrived"
  /\ \A d \in Conns : conn[d].state # "accepting"
  /\ To(c, "accepting") /\ Unmoved /\ UNCHANGED task

\* spawn(task): the loop goes on to the next connection at once.
Accept(c) ==
  /\ loop = "running" /\ conn[c].state = "arrived"
  /\ To(c, "accepting") /\ Unmoved /\ UNCHANGED task

\* An error of any stage is logged, and ends the task of this connection alone.
GiveUp(c) ==
  /\ conn' = [conn EXCEPT ![c].state = "over", ![c].pending = 0]
  /\ UNCHANGED <<setup, server, loop, net, background, task>>

\* Acceptor::accept: `()` hands the connection on; a function and each kind of
\* TLS can fail, and need not end as long as the peer is silent.
AcceptMayFail == setup.acceptor # "none"

Handshaken(c) ==
  /\ conn[c].state = "accepting"
  /\ To(c, "making") /\ Unmoved /\ UNCHANGED task

HandshakeFails(c) == conn[c].state = "accepting" /\ AcceptMayFail /\ GiveUp(c)

\* What a modification of a service ends in: `()` leaves it as it is.
ModifyService(modifier) == IF modifier = "none" THEN {"service"} ELSE {"service", "error"}

\* What a factory ends in: the App has a service for everyone, and passes it
\* through its modifier; make_service runs a function.
MakeService(factory) ==
  IF factory.is = "app" THEN ModifyService(factory.modifier) ELSE {"service", "error"}

\* What poll_ready of the service ends in: AppService and service_fn are ready.
PollReady(factory) ==
  IF factory.modifier = "none" THEN {"ready"} ELSE {"ready", "error"}

Make(c) ==
  /\ conn[c].state = "making"
  /\ \E made \in MakeService(setup.factory) :
       IF made = "error" THEN GiveUp(c)
       ELSE To(c, "readying") /\ Unmoved /\ UNCHANGED task

\* ReadyService
BecomeReady(c) ==
  /\ conn[c].state = "readying"
  /\ \E ready \in PollReady(setup.factory) :
       IF ready = "error" THEN GiveUp(c)
       ELSE To(c, "idle") /\ Unmoved /\ UNCHANGED task

-----------------------------------------------------------------------------
\* Requests of a connection, one after the other

\* hyper promises an upgrade with the body of a request that asks for one.
Promised(r) == r.http = "1.1" /\ r.fields.upgrade # "none"

\* LiftedHttpService::call: without another poll_ready.  A promise that was not
\* kept is void when the next is made, or before.
Receive(c, r) ==
  /\ conn[c].state = "idle" /\ conn[c].count < MaxRequests
  /\ \E old \in {0, conn[c].pending} :
       conn' = [conn EXCEPT ![c] =
         [state |-> IF r.finishes THEN "writing" ELSE "handling", req |-> {r},
          count |-> conn[c].count + 1, reply |-> 0,
          pending |-> IF Promised(r) THEN conn[c].count + 1 ELSE old]]
  /\ Unmoved /\ UNCHANGED task

Reply(c, status) ==
  conn' = [conn EXCEPT ![c].state = "replying", ![c].req = {}, ![c].reply = status]

\* Mutant: the reply is made first.
WriteSessionLast(c) ==
  /\ conn[c].state = "writing"
  /\ \E r \in conn[c].req :
       /\ Reply(c, 500)
       /\ task' = [task EXCEPT ![<<c, conn[c].count>>] = IF r.route = "ws" THEN "waiting" ELSE @]
  /\ Unmoved

\* SessionRespond: the session is written before the reply is made.
WriteSession(c) ==
  /\ conn[c].state = "writing"
  /\ To(c, "handling") \/ Reply(c, 500)
  /\ Unmoved /\ UNCHANGED task

HandlePlain(c) ==
  /\ conn[c].state = "handling"
  /\ \E r \in conn[c].req : r.route = "plain"
  /\ Reply(c, 200) /\ Unmoved /\ UNCHANGED task

\* The handler panics.  The pool ends that task; on a runtime of the current
\* thread the panic goes through `run`.
Panic(c) ==
  /\ conn[c].state = "handling"
  /\ \E r \in conn[c].req : r.route = "panic"
  /\ IF setup.runtime.is = "pool" THEN GiveUp(c)
     ELSE /\ server' = "panicked" /\ loop' = "ended"
          /\ background' = IF background = "running" THEN "over" ELSE background
          /\ conn' = [d \in Conns |-> IF conn[d].state = "none" THEN conn[d]
                                      ELSE [conn[d] EXCEPT !.state = "over", !.pending = 0]]
          /\ task' = [t \in DOMAIN task |-> IF task[t] = "none" THEN "none" ELSE "over"]
          /\ UNCHANGED <<setup, net>>

-----------------------------------------------------------------------------
\* WebSocket

\* handshake(): each of the four fields is there, alone, and right.
Handshake(r) == \A f \in DOMAIN r.fields : r.fields[f] = "right"

Answered(r) == IF r.mapped THEN 200 ELSE 101

\* Mutant: the function is called at once, and not when the upgrade is there.
RespondWsEagerly(c) ==
  /\ conn[c].state = "handling"
  /\ \E r \in conn[c].req :
       /\ r.route = "ws" /\ Handshake(r) /\ ~r.stolen
       /\ Reply(c, Answered(r))
       /\ task' = [task EXCEPT ![<<c, conn[c].count>>] = "talking"]
  /\ Unmoved

\* WsRespond: a task that waits for the upgrade, and then the reply; a modifier
\* of the application may map that reply to another.  The pool may be full.
RespondWs(c) ==
  /\ conn[c].state = "handling"
  /\ \E r \in conn[c].req :
       /\ r.route = "ws"
       /\ \/ ~Handshake(r) /\ Reply(c, 400) /\ UNCHANGED task
          \/ Handshake(r) /\ Reply(c, 500) /\ UNCHANGED task
          \/ /\ Handshake(r) /\ ~r.stolen
             /\ Reply(c, Answered(r))
             /\ task' = [task EXCEPT ![<<c, conn[c].count>>] = "waiting"]
  /\ Unmoved

\* hyper sends the reply.  After a 101 it hands the connection over, if it
\* promised to; else it closes it, or waits for the next request.
SendReply(c) ==
  /\ conn[c].state = "replying"
  /\ IF conn[c].reply = 101
     THEN IF conn[c].pending = conn[c].count
          THEN To(c, "upgraded") /\ Unmoved /\ UNCHANGED task
          ELSE GiveUp(c)
     ELSE To(c, "idle") /\ Unmoved /\ UNCHANGED task

InHttp == {"idle", "writing", "handling", "replying"}

\* The peer is gone or breaks the protocol, or the connection is not kept alive.
Close(c) == conn[c].state \in InHttp /\ GiveUp(c)

\* Of a connection that ends between requests, hyper hands over what is left.
CloseHandsOver(c) ==
  /\ conn[c].state = "idle" /\ conn[c].pending # 0
  /\ To(c, "upgraded") /\ Unmoved /\ UNCHANGED task

\* Mutant: the error of the upgrade is not looked at.
PollUpgradeForIo(c, n) ==
  /\ task[<<c, n>>] = "waiting"
  /\ conn[c].pending = n /\ conn[c].state = "upgraded"
  /\ task' = [task EXCEPT ![<<c, n>>] = "talking"]
  /\ UNCHANGED conn /\ Unmoved

\* OnUpgrade: the connection, or an error as soon as it cannot come any more.
PollUpgrade(c, n) ==
  /\ task[<<c, n>>] = "waiting"
  /\ \/ /\ conn[c].pending = n /\ conn[c].state = "upgraded"
        /\ task' = [task EXCEPT ![<<c, n>>] = "talking"]
     \/ conn[c].pending # n /\ task' = [task EXCEPT ![<<c, n>>] = "over"]
  /\ UNCHANGED conn /\ Unmoved

\* The function of the application is at an end with its UpgradedIo.
HangUp(c, n) ==
  /\ task[<<c, n>>] = "talking"
  /\ task' = [task EXCEPT ![<<c, n>>] = "over"]
  /\ UNCHANGED conn /\ Unmoved

-----------------------------------------------------------------------------
\* The end of run()

BackgroundEnds ==
  /\ background = "running" /\ background' = "over"
  /\ UNCHANGED <<setup, server, loop, net, conn, task>>

\* A connection that is handed over is no more of the server's.
Busy(c) == conn[c].state \in InHttp \cup {"accepting", "making", "readying"}

Talked == {t \in DOMAIN task : task[t] \in {"waiting", "talking"}}

\* Mutant: the runtime is dropped as soon as the loop has ended.
ReturnAtOnce ==
  /\ server = "serving" /\ loop = "ended"
  /\ server' = "returned" /\ UNCHANGED <<setup, loop, net, background, conn, task>>

\* shutdown_on_idle, or block_on and then run: until nothing is left to do.
Return ==
  /\ server = "serving" /\ loop = "ended"
  /\ background # "running" /\ Talked = {} /\ \A c \in Conns : ~Busy(c)
  /\ server' = "returned" /\ UNCHANGED <<setup, loop, net, background, conn, task>>

Advance(c) ==
  \/ Make(c) \/ BecomeReady(c)
  \/ WriteSession(c) \/ HandlePlain(c) \/ Panic(c) \/ RespondWs(c) \/ SendReply(c)

\* A task is polled as long as the runtime is there: `run` owns it, and drops it
\* with all that is left on it.
Polled == server = "serving"

Next ==
  \/ Fail \/ Listen \/ Break \/ TransportError \/ BackgroundEnds \/ Return
  \/ Polled /\ \E c \in Conns :
       \/ Arrive(c) \/ Accept(c) \/ Handshaken(c) \/ HandshakeFails(c) \/ Advance(c)
       \/ Close(c) \/ CloseHandsOver(c)
       \/ \E r \in Requests : Receive(c, r)
       \/ \E n \in Numbers : PollUpgrade(c, n) \/ HangUp(c, n)

NoConn(spent) == [state |-> "none", count |-> spent, req |-> {}, reply |-> 0, pending |-> 0]

Init ==
  /\ setup \in Setups
  /\ server = "new" /\ loop = "off" /\ net = "up"
  /\ background = IF setup.background THEN "running" ELSE "none"
  /\ conn = [c \in Conns |-> NoConn(setup.spent[c])]
  /\ task = [t \in Conns \X Numbers |-> "none"]

\* The runtime polls what was notified until `run` drops it, and what the server waits for of its
\* own makes progress: making a service, writing a session, a handler.  Nothing
\* is assumed of peers, not even that a handshake ends, nor of what a WebSocket
\* task does.
Fairness ==
  /\ WF_vars(Listen \/ Fail) /\ WF_vars(TransportError) /\ WF_vars(Return)
  /\ \A c \in Conns :
       /\ WF_vars(Accept(c)) /\ WF_vars(Polled /\ Advance(c))
       /\ \A n \in Numbers : WF_vars(Polled /\ PollUpgrade(c, n))

Spec == Init /\ [][Next]_vars /\ Fairness
-----------------------------------------------------------------------------
\* Properties

TypeOK ==
  /\ setup \in Setups
  /\ server \in {"new", "failed", "serving", "returned", "panicked"}
  /\ loop \in {"off", "running", "ended"} /\ net \in {"up", "broken"}
  /\ background \in {"none", "running", "over"}
  /\ \A c \in Conns :
       /\ conn[c].state \in InHttp \cup
            {"none", "arrived", "accepting", "making", "readying", "upgraded", "over"}
       /\ conn[c].count \in 0..MaxRequests /\ conn[c].pending \in 0..conn[c].count
       /\ conn[c].reply \in {0, 101, 200, 400, 500}
       /\ conn[c].state \in {"writing", "handling"} => conn[c].reply = 0
  /\ task \in [Conns \X Numbers -> {"none", "waiting", "talking", "over"}]

\* A WebSocket task talks only on a connection of which HTTP is at an end, one
\* task on each, the one of the request the upgrade was promised to.
OneOwner ==
  \A c \in Conns, n \in Numbers : task[<<c, n>>] = "talking" =>
    /\ conn[c].state = "upgraded" /\ conn[c].pending = n
    /\ \A m \in Numbers \ {n} : task[<<c, m>>] # "talking"

\* At every step of the server: the types, and one task for each connection that
\* was handed over.
ServerInv == TypeOK /\ OneOwner

\* A request that is answered with an error leaves no task behind, whether it
\* was the handshake, the body, the session or the pool that failed.
RefusedHasNoTask ==
  \A c \in Conns : conn[c].reply >= 400 => task[<<c, conn[c].count>>] = "none"

\* A peer is accepted although others are silent in their handshakes or never
\* finish their requests, unless the loop ends.
NoPeerHoldsUp ==
  \A c \in Conns : conn[c].state = "arrived" ~> conn[c].state # "arrived" \/ loop = "ended"

\* A task that waits for an upgrade gets it or is told that it will not come,
\* also when the loop ends meanwhile: run() does not drop it.  It has to wait
\* only where a modifier made another reply of the 101 and the client keeps the
\* connection.
UpgradeSettled ==
  \A c \in Conns, n \in Numbers :
    task[<<c, n>>] = "waiting" ~> task[<<c, n>>] # "waiting" \/ conn[c].state = "idle"

\* When the loop has ended, nothing of the server's own keeps run() from
\* returning: no service in the making, no session or reply, no connection that
\* was handed over, no task that waits for an upgrade which another request got
\* or nobody.  Only peers can, that are silent in a handshake or keep their
\* connections, and the application, in its WebSocket functions and its tasks.
RunEnds ==
  (/\ []<>(background # "running")
   /\ \A c \in Conns : []<>(conn[c].state \notin {"accepting", "idle"})
   /\ \A t \in Conns \X Numbers : []<>(task[t] # "talking"))
  => (loop = "ended" ~> server \in {"returned", "panicked"})
=============================================================================
