------------------------------- MODULE Queries -------------------------------
(***************************************************************************)
(* GraphQL requests (tsukuyomi-juniper): the extractor that parses them,   *)
(* the Responder that executes them in a task of their own, which blocks a *)
(* thread of the pool, and waits for its handle; capture_errors around the *)
(* handler.                                                                *)
(***************************************************************************)
EXTENDS BlockingPool

CONSTANTS
  QueryRequests,  \* [method, mime, payload, stolen]
  MaxQueries      \* bound on the requests of a client

\* Of what is no operation the execution makes an error.
ASSUME QueriesAssumption ==
  MaxQueries \in Nat /\ \A r \in QueryRequests : r.payload.ops \in Seq(STRING)

VARIABLES
  captured,  \* capture_errors is applied to the route
  query      \* of each task, the request it is at work on

queryVars == <<captured, query>>

-----------------------------------------------------------------------------
\* Errors: the type of the value in an `Error`, and the status of its response

ParseError(status) == [is |-> "GraphQLParseError", status |-> status]
OtherError(status) == [is |-> "other", status |-> status]

\* GraphQLHandle::poll_ready, on an error of the handle it wraps
Capture(err) ==
  IF err.is \in {"GraphQLParseError", "GraphQLError"} THEN err
  ELSE [is |-> "GraphQLError", status |-> err.status]

\* The task of the connection panicked: the client is left without a reply.
Panicked == [status |-> 0, json |-> FALSE]

\* HttpError::into_response of each type.  That of GraphQLError formats the
\* `Error` it wraps, and the Display of `Error` panics: its `&self.obj` becomes a
\* `&dyn Any` of the Box itself, which is never the type it is downcast to.
ErrorReply(err) ==
  IF err.is = "GraphQLError" THEN Panicked
  ELSE [status |-> err.status, json |-> err.is = "GraphQLParseError"]

-----------------------------------------------------------------------------
\* The extractor: what it parses, an error, or the kind of body to receive

Ops(ops)  == [is |-> "ops", ops |-> ops]
Err(err)  == [is |-> "err", err |-> err]
Receiving == [is |-> "receive"]

\* parse_query_str
ParseQueryStr(payload) ==
  IF payload.is = "single" THEN Ops(payload.ops) ELSE Err(ParseError(400))

\* State::Init
Extract(r) ==
  CASE r.method = "GET" -> ParseQueryStr(r.payload)
    [] r.method = "POST" /\ r.mime \in {"json", "graphql"} ->
         IF r.stolen THEN Err(OtherError(500)) ELSE Receiving
    [] r.method = "POST" /\ r.mime = "garbled" -> Err(OtherError(400))
    [] OTHER -> Err(ParseError(400))

\* State::Receive: JSON of one operation or of a list, or the text of one.  A
\* text that is no operation is found out only when it is executed.
Decode(r) ==
  IF r.payload.is = "garbled" THEN Err(ParseError(400))
  ELSE IF r.payload.is = "single" \/ r.mime = "json" THEN Ops(r.payload.ops)
  ELSE Ops(<<"nonsense">>)

-----------------------------------------------------------------------------
\* A request, polled by the task of its connection.  `state` is that of the
\* handle, or idle; `job` that of the task it spawned.

NoQuery == [state |-> "idle", count |-> 0, req |-> {}, job |-> "none",
            ops |-> <<>>, done |-> <<>>, raised |-> {}, reply |-> {}]

Ask(t) ==
  /\ query[t].state = "idle" /\ query[t].job = "none" /\ query[t].count < MaxQueries
  /\ \E r \in QueryRequests :
       query' = [query EXCEPT ![t] = [NoQuery EXCEPT !.state = "init", !.req = {r},
                                                     !.count = query[t].count + 1]]
  /\ UNCHANGED captured

\* The handle of the route returns an error; capture_errors sees it.
Raise(t, err) ==
  query' = [query EXCEPT ![t].state = "idle", ![t].raised = {err},
              ![t].reply = {ErrorReply(IF captured THEN Capture(err) ELSE err)}]

Continue(t, parsed) ==
  \/ parsed.is = "err" /\ Raise(t, parsed.err)
  \/ parsed.is = "ops" /\ query' = [query EXCEPT ![t].state = "call", ![t].ops = parsed.ops]
  \/ parsed.is = "receive" /\ query' = [query EXCEPT ![t].state = "receive"]

PollInit(t) ==
  /\ query[t].state = "init"
  /\ \E r \in query[t].req : Continue(t, Extract(r))
  /\ UNCHANGED captured

\* The rest of the body comes in, or it breaks off: hyper::Error as HttpError.
Receive(t) ==
  /\ query[t].state = "receive"
  /\ \/ \E r \in query[t].req : Continue(t, Decode(r))
     \/ Raise(t, OtherError(500))
  /\ UNCHANGED captured

\* The handler function of the application: another error, or a call of
\* GraphQLRequest::execute, whose respond() spawns a task.
CallHandler(t) ==
  /\ query[t].state = "call"
  /\ \/ Raise(t, OtherError(401))
     \/ query' = [query EXCEPT ![t].state = "spawned", ![t].job = "queued"]
  /\ UNCHANGED captured

JobTo(t, job) == query' = [query EXCEPT ![t].job = job] /\ UNCHANGED captured

\* A poll of the spawned task, on a thread of the pool
StartJob(t) == query[t].job = "queued" /\ query[t].state = "spawned" /\ JobTo(t, "running")

\* juniper executes an operation, and the batch goes on whatever came of it.
Execute(t) ==
  /\ query[t].job = "running" /\ Len(query[t].done) < Len(query[t].ops)
  /\ query' = [query EXCEPT ![t].done = Append(@, query[t].ops[Len(@) + 1])]
  /\ UNCHANGED captured

\* Mutant: the client is looked after between two operations of a batch.
FinishUnwanted(t) ==
  /\ query[t].job = "running"
  /\ query[t].done = query[t].ops \/ query[t].state = "idle"
  /\ JobTo(t, IF query[t].state = "spawned" THEN "finished" ELSE "none")

FinishJob(t) ==
  /\ query[t].job = "running" /\ query[t].done = query[t].ops
  /\ JobTo(t, IF query[t].state = "spawned" THEN "finished" ELSE "none")

\* The handle was dropped before the closure began to run: the task ends, and
\* gives back the thread that was kept for it.
CancelJob(t) == query[t].job = "queued" /\ query[t].state = "idle" /\ JobTo(t, "none")

\* There are no threads to block: BlockingError.
FailJob(t) == query[t].job = "queued" /\ query[t].state = "spawned" /\ JobTo(t, "failed")

Succeeds(op) == op \notin {"nonsense", "bad"}

\* Mutant: a batch is all right if one of its operations is.
ExecutionStatusAny(ops) ==
  IF ops = <<>> \/ \E i \in DOMAIN ops : Succeeds(ops[i]) THEN 200 ELSE 400

ExecutionStatus(ops) == IF \A i \in DOMAIN ops : Succeeds(ops[i]) THEN 200 ELSE 400

\* Mutant: the future of the handle is polled for results only.
PollHandleForResults(t) ==
  /\ query[t].state = "spawned" /\ query[t].job = "finished"
  /\ query' = [query EXCEPT ![t].state = "idle", ![t].job = "none",
                 ![t].reply = {[status |-> ExecutionStatus(query[t].done), json |-> TRUE]}]
  /\ UNCHANGED captured

\* GraphQLRespond::poll_ready: the handle is resolved.  Its errors come from
\* the Responder, outside of the handler that capture_errors wraps.
PollHandle(t) ==
  /\ query[t].state = "spawned" /\ query[t].job \in {"finished", "failed"}
  /\ query' = [query EXCEPT ![t].state = "idle", ![t].job = "none",
                 ![t].reply = {IF query[t].job = "finished"
                               THEN [status |-> ExecutionStatus(query[t].done), json |-> TRUE]
                               ELSE ErrorReply(OtherError(500))}]
  /\ UNCHANGED captured

\* The client is gone: the handle of the route is dropped, and the handle of
\* the spawned task with it.
HangUp(t) ==
  /\ query[t].state \in {"receive", "spawned"}
  /\ query' = [query EXCEPT ![t].state = "idle", ![t].job =
                 IF @ \in {"finished", "failed"} THEN "none" ELSE @]
  /\ UNCHANGED captured

\* Mutant: the task does not end when the closure has run.
PollJobHoldsOn(t) ==
  \/ Enter(t) /\ StartJob(t)
  \/ Wait(t) /\ query[t].job = "queued" /\ query[t].state = "spawned" /\ UNCHANGED queryVars
  \/ (Execute(t) \/ FinishJob(t)) /\ UNCHANGED poolVars
  \/ CancelJob(t) /\ Dropped(t)
  \/ ~pooled /\ FailJob(t) /\ UNCHANGED poolVars

PollJob(t) ==
  \/ Enter(t) /\ StartJob(t)
  \/ Wait(t) /\ query[t].job = "queued" /\ query[t].state = "spawned" /\ UNCHANGED queryVars
  \/ Execute(t) /\ UNCHANGED poolVars
  \/ FinishJob(t) /\ Leave(t)
  \/ CancelJob(t) /\ Dropped(t)
  \/ ~pooled /\ FailJob(t) /\ UNCHANGED poolVars

PollQuery(t) == PollInit(t) \/ CallHandler(t) \/ PollHandle(t)

QueryStep(t) ==
  \/ (Ask(t) \/ PollQuery(t) \/ Receive(t) \/ HangUp(t)) /\ UNCHANGED poolVars
  \/ PollJob(t)

QueriesInit(s) ==
  captured = s.captured /\ query = [t \in Tasks |-> [NoQuery EXCEPT !.count = s.spent]]
-----------------------------------------------------------------------------
\* Properties

QueriesTypeOK ==
  \A t \in Tasks :
    /\ query[t].state \in {"idle", "init", "receive", "call", "spawned"}
    /\ query[t].job \in {"none", "queued", "running", "finished", "failed"}
    /\ query[t].count \in 0..MaxQueries /\ query[t].req \subseteq QueryRequests
    /\ IsPrefix(query[t].done, query[t].ops)

\* A batch is executed as a whole, each operation once and in order, or not at
\* all: an operation that fails does not stop it, nor does a client that leaves
\* while it waits for a thread, runs or is answered.
WholeOrNothing ==
  \A t \in Tasks : query[t].job # "running" => query[t].done \in {<<>>, query[t].ops}

\* The reply tells what happened: 200 if every operation was executed and
\* succeeded, and of an error that was raised before, that nothing was executed.
ReplyIsTrue ==
  \A t \in Tasks : \A r \in query[t].reply :
    /\ r.status = 200 => /\ query[t].done = query[t].ops
                         /\ \A i \in DOMAIN query[t].ops : Succeeds(query[t].ops[i])
    /\ query[t].raised # {} => query[t].done = <<>> /\ (r = Panicked \/ r.status >= 400)

\* What the comment on capture_errors says: all kinds of errors that the handler
\* throws are converted into GraphQL errors.  Does not hold.
CapturedAreAnswered ==
  \A t \in Tasks : \A r \in query[t].reply, err \in query[t].raised :
    captured => r = [status |-> err.status, json |-> TRUE]
=============================================================================
