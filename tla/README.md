# Verification of tsukuyomi

TLA+ models of tsukuyomi, an asynchronous Web framework on futures 0.1 and hyper, with TLC
configurations and TLAPS proofs. Every definition was translated from the Rust source; file and
line of each are in `PROJECT.json` under `map`. Paths below are relative to `src/`.

```
tlc -workers 2 -config RouteTree.cfg MCRouteTree      # any run: the .cfg and its MC module
tlapm RouteTree_proofs.tla                            # the proofs
```

## 1. The system

### Parts, their state and their operations

| Part | Source | State | Operations | What makes it correct |
|---|---|---|---|---|
| Route recognizer | `tsukuyomi/src/app/recognizer.rs` | an IndexMap of routes, a radix tree whose nodes have a leaf (an index) and a set of candidate indices, the index of the route `*` | `insert`, `recognize` | the leaves are the routes; a refused route does no harm; the search finds what matches, and where it fails the candidates cover what the path could become |
| Configuration | `app/config.rs`, `app/config/*`, `config.rs` | a stack of contexts (scope, modifier), the list of scopes, the recognizer | `route`, `mount`, `modify`, default handlers, `App::create` | keys and values of the recognizer in step; each scope's ancestors are the path from the root; no state survives an error unnoticed |
| Application | `app.rs`, `app/scope.rs`, `app/service.rs`, `uri.rs` | none after configuration; `AppFuture`: endpoint, captures, cookie jar, locals, state of the handler's future | `find_endpoint`, `infer_scope`, `find_default_handler`, `poll`, `process_before_reply` | a request is answered by the endpoint that matches, or by the default handler of the scope it belongs to |
| Extractors | `extractor.rs`, `extractor/*` | one future per extractor; the body in the request's locals | `poll_ready` of chain, or, optional, fallible, map, map_err and the primitives | nothing is polled past its end, the body is taken once, no wakeup is lost |
| Endpoints and methods | `config/endpoint.rs`, `config/path.rs`, `endpoint.rs` | `CallFuture`, `CallAsyncFuture`: the extractor's future, then the handler's | `apply`, `call`, `call_async`, `allowed_methods` | the method selects the endpoint; 405 and `Allow` agree with it |
| Handlers, modifiers, responders | `handler.rs`, `modifiers.rs`, `responder.rs`, `app/config.rs` | the boxed handler: the handle, then the responder's future | `handle`, `modify`, `respond` | modifiers wrap in the order of the contexts; OPTIONS lists the methods |
| Local map, input, output, errors | `input/*`, `output.rs`, `error.rs` | `LocalMap`, `CookieJar` | typed map operations, `jar.add`, `jar.remove`, `delta` | values come back as they were put; `Set-Cookie` is the change |
| Session interface | `tsukuyomi-session/src/lib.rs` | `Session` around a backend's `RawSession` | `get`, `set`, `remove`, `clear`, `finish` | a client that sends one request at a time sees one map |
| Redis backend | `tsukuyomi-session/src/backend/redis.rs` | Redis, the browser's cookie with an id, futures that read and write | `ReadSession`, `WriteSession` | sessions never mix; a deleted one stays deleted |
| Cookie backend | `tsukuyomi-session/src/backend/cookie.rs` | the cookie | `read`, `write` | the session is the cookie, all or nothing |
| Static files | `fs.rs` | an open file, its metadata and the stream's place in it | `ServeFile`, `StaticFiles`, conditional GET, `ReadStream` | a copy received in full is what its tag stands for; 304 only of what the client has |
| Blocking runtime | `tsukuyomi-server/src/rt.rs`, `fs.rs:385` | a handle to a task | `spawn_with_handle`, `blocking`, `blocking_io` | who waits for a thread gets one |
| CORS | `tsukuyomi-cors/src/lib.rs` | the policy; per request, whether it was decided | builder, simple and preflight requests, endpoint and modifier | what is forbidden is not served; preflight and request agree |
| GraphQL | `tsukuyomi-juniper/src/*` | the state of the extractor; the handle of the task that executes | `request`, `execute`, `capture_errors` | a batch as a whole or not at all; the status tells what happened |
| Server | `tsukuyomi-server/src/{lib,io,error}.rs` | listener, the task of each connection, runtime | `run`, `run_forever`, `accept` | a connection's failure is its own; `run` returns when nothing is left to do |
| Service traits | `tsukuyomi-service/src/lib.rs` | none | `make_service`, `modify_service`, `poll_ready` | |
| WebSocket | `tsukuyomi-tungstenite/src/lib.rs` | a task spawned for a reply | handshake, `WsRespond` | the upgrade follows the reply and has one owner |
| Test server | `tsukuyomi-server/src/test/*` | the cookies of a test session | `perform` | cookies are kept |
| Templates, macros, examples | `tsukuyomi-askama`, `macros`, `examples` | none | | |

### How they interact

At start, `App::create` runs a tree of `Config`s; each gets a `Scope` context that points to the one
recognizer and the one list of scopes, so nested configurations change shared state in the order they
run, and an error of one is seen only if the caller propagates it. `Scope::route` gives the
recognizer a key (the URI) and an endpoint value that must be stored under the same index.

At run time hyper calls `AppService::call` per request and polls the `AppFuture`. Its first poll
searches the recognizer; the result is an endpoint, or a scope from whose chain of ancestors a default
handler is taken. The handler's future holds the tree of extractor futures, then the future of the
handler function, then that of the responder, and passes every poll down with the `Input`: the
request, parameters, the cookie jar and the `LocalMap` with the body in it. Sessions are an extractor
(read) and a responder (write) around a backend, which talks to Redis by asynchronous commands or to
the cookie jar. When the response is ready the jar's delta is appended, on errors too. The modifiers of the
enclosing scopes are layers around that future: each poll goes through all of them, from the one applied
last to the handler, and each may answer itself, as CORS and `default_options` do.

Static files and GraphQL need threads that block. Both go through `poll_blocking` of one pool: a file
asks for a thread at each system call, in the middle of the poll of its connection, a query asks once, in
a task of its own, and the connection waits for the handle of that task.

The server's accept loop spawns a task per connection: TLS handshake, `make_service`, `poll_ready`, then
hyper, which calls the service for one request after the other. A WebSocket route replies 101 and spawns a
task that waits until hyper has sent this reply and hands the connection over. `run` ends when the
runtime has no task left.

### What is hard

- insertion changes a tree while walking it, and may fail halfway, after having split nodes and added
  candidate indices; there is no rollback, and the index of a failed route is given out again;
- the search works with two different notions of "did not match", which lead to different scopes;
- configurations nest; correctness of the fallback needs the ancestor lists of all scopes to agree;
- futures are polled in any order of arrivals; every combinator must stop polling what has returned
  and must leave each waiting future polled before it reports NotReady itself;
- modifiers are polled again and again and must decide once; a preflight and the request it is for are
  checked by different code;
- files change between the system calls of one reply; threads are few, and clients leave while others wait;
- a WebSocket task exists before its reply was sent, and the reply may change, fail or be lost;
- a peer may be silent in its handshake, or never finish; the listener may break; a service may panic;
- requests of one session overlap; Redis commands may be carried out after their sender is gone; keys
  expire; a reply, and with it the new cookie, may never reach the browser.

`PROJECT.json` lists these places one by one under `hazards`, with the properties aimed at each.

## 2. The modules

| Module | Models | State and actions |
|---|---|---|
| `RoutePattern` | paths and routes as sequences of letters, `/`, `:`, `*`; the reference definition of matching (`Matches`, `Extendable`, `Fill`) | pure operators |
| `RouteTree` | `Recognizer`, `Tree`, `InsertContext::add_path`, `insert_child`, `RecognizeContext::recognize` | a node is the text it spells from the root, so parent, children and label follow from the prefix order. One action per turn of the two loops: `Segment` (with the split), `AddWildcard`, `FollowWildcard`, `AddStatic`, `FollowStatic`, three refusals, `SetLeaf`; `MatchStatic`, `MatchParam`, `MatchCatchAll` |
| `App` | EXTENDS `RouteTree` with scopes, contexts, endpoints, `infer_scope`, `find_default_handler` | phase `configure`: `Route`, `InsertTurn` (the recognizer's turns with what `Scope::route` does around them), `RouteAsterisk`, `Mount`, `Modify`, `BadUri`, `Return`; phase `serve`: `Request`, `RequestAsterisk`, `MatchTurn` |
| `Extraction` | `AppFuture::poll`, `RouteHandle`, `CallFuture`, `CallAsyncFuture`, the futures of `ext.rs`, `MaybeDone`, the body readers, the boxed handler | the tree of futures as a function of paths; a poll is a walk through it: `Call...` goes down, `ReturnTo...` takes a result. `Arrive` lets something waited for come in, at any moment |
| `SessionData` | `Inner` and the `RawSession` methods both backends write out alike | pure operators |
| `Sessions` | the abstract specification: what a backend promises a client with one request at a time | a map per client and at most one working copy: open, work, finish, commit, abandon, forget |
| `RedisSession` | `redis.rs` with Redis, the wire and browsers around it | `Begin`, `Connected`, `Fetch`, the field operations, `FinishEmpty`/`Some`/`Clear`, `Abandon`, `OpDone`, `Reply`; `Redis` carries a command out at any time; `Expire`, `RedisFails`, `Cancel`, `Lose` |
| `CookieSession` | `cookie.rs`, plain and signed | `Begin`, the field operations, `Finish`, `Abandon`, `Reply`, `Cancel` |
| `Cors` | the builder of a policy, the checks of `Inner`, preflight and simple requests | pure operators, one per method of the source |
| `Handlers` | EXTENDS `Cors`: endpoints by method (`Chain`), `path!(..).to(..)`, `allowed_methods` through every layer, `default_options`, `map_output`, `CORS` as modifier and as endpoint, polled by `AppFuture`; a browser around it | `Configure`; `SendAny`, `SendPreflight`, `Decide`, `SendGranted`, `SendSimple`; one action per layer of a poll: `PollCors`, `PollDefaultOptions`, `PollMapOutput`, `Apply`, `PollCorsOfChain`, `PollExtract`, `PollAction`; `PollAgain` |
| `BlockingPool` | `poll_blocking`: threads, the queue for them, a thread kept for a task that was notified | `Enter`, `Wait`, `Leave`, `Dropped`, taken by the modules below as parts of their steps |
| `Files` | EXTENDS `BlockingPool`: a directory made into routes, requests for a file, the conditions and tags of a client that keeps its copies, `ReadStream`; others that truncate, extend, overwrite, replace or remove the file | `ConfigureFiles`, `Fetch`, `AskThread`, `Open`, `Stat`, `ReadChunk`, `ReadEof`, their failures, `Disconnect`, `Change` |
| `Queries` | EXTENDS `BlockingPool`: GraphQL's extractor, executing task, handle and `capture_errors` | `Ask`, `PollInit`, `Receive`, `CallHandler`, `PollJob`, `Execute`, `FinishJob`, `PollHandle`, `HangUp` |
| `Blocking` | EXTENDS `Files` and `Queries`: both on one pool | `kind` says what each connection asks for |
| `Server` | `serve!`, both forms of `run`, acceptors, services, the WebSocket handshake and its task | `Listen`, `Fail`, `Arrive`, `Accept`, `Handshaken`, `Make`, `BecomeReady`, `Receive`, `WriteSession`, `HandlePlain`, `RespondWs`, `Panic`, `SendReply`, `Close`, `PollUpgrade`, `TransportError`, `Return` |
| `MC...` | small instances: sets of routes, requests, mounts, trees of extractors, values marked with their owner | |
| `RouteTree_proofs`, `App_proofs`, `RedisSession_proofs`, `CookieSession_proofs`, `Extraction_proofs`, `Handlers_proofs`, `Blocking_proofs`, `Server_proofs` | theorems about the module of that name, and about those it extends | the parts of an inductive invariant, the lemmas, the theorems (section 4) |

`App` and `RouteTree` are composed by EXTENDS because the application drives the recognizer turn by
turn; `Handlers` extends `Cors`, whose checks it calls between the turns of a poll; `Blocking` puts `Files`
and `Queries` on the one `BlockingPool`. `RedisSession` and `CookieSession` share `SessionData` and each is shown to implement
`Sessions` (`Promise == INSTANCE Sessions WITH ...`, `KeepsPromise == Promise!SSpec`).

Definitions that a comment marks as mutants are plausible slips in the code; each property was seen
to fail with one of them in the place of the definition they vary.

### Abstractions

- A static text is a sequence of letters, a parameter is its kind; names of parameters appear only
  where `Uri` compares them. The ASCII check of `insert` is left out.
- `pc` of the recognizer is the point in the loop; the insertion loop of `insert_child` only extends
  the node just made, so it is one step (`Grow`).
- What a modifier, handler or `ready` extractor computes is left out; it succeeds or fails.
- A session has fields with opaque values; JSON conversion is not modelled, a cookie that does not
  deserialize is the value `Malformed`, one that fails verification `Unverified`.
- `Handlers`: methods, origins and header names are small sets; `garbled` stands for text that does not
  parse. An extractor is one step that waits, fails or succeeds (`Extraction` has the detail). It and the
  handler may fail with any status; 400, 405 and 500 stand for all (`ErrorStatuses`).
- `Files`: every change has a modification time of its own, the tick of `clock`, and writes that tick, so
  that a byte tells when it was written. File systems with coarser clocks are outside the model. `Second`
  ticks make a second of the dates that HTTP carries. Opening a file or asking for its metadata may fail at
  any time, with 403 or 500, besides 404 where there is none.
- `Queries`: what an operation computes is juniper's: it succeeds, fails, or is nonsense.
- `Server`: of hyper, tokio and tungstenite only what the code uses, HTTP version 1, no frames. A panic on
  the thread that `run` blocks goes through `run`; one on a pool ends the task it happens in. A panic inside
  the application's WebSocket closure is not modelled.
- The `io` leaves of `Extraction` stand for any future that is notified by something outside, and must
  not be polled again once it returned.

## 3. The runs

| Run | Question | Bounds |
|---|---|---|
| `RouteTree` | is the tree a correct index, and the search right, after any sequence of accepted and refused registrations? | 8 routes, up to 3 registered in any order (any number refused), 14 requests |
| `RouteTreeExact` | (violated) is a match always exact? | the same routes, the request "/a" |
| `App` | do scopes, endpoints and fallbacks agree, with errors propagated or dropped? | 2 routes, 3 scopes, 3 nested contexts, 1 modifier, 3 route and 2 mount texts, 4 requests |
| `RedisPromise` | does one client at a time see what `Sessions` promises? | 2 clients, 3 requests, 3 ids, 1 field, 2 values per client, expiry |
| `RedisFaults` | do sessions stay apart, and deleted ones deleted, with overlapping requests and faults? | 2 clients, 3 requests, 3 ids |
| `RedisAnswers` | is every request answered? | 2 clients, 2 requests, 2 ids |
| `Cookie` | is the cookie session all or nothing, also when replies are lost? | 2 clients, 3 requests, 1 field, 2 values |
| `Extraction` | does the protocol of polled futures hold for trees of extractors? | 8 trees of up to 7 nodes, called or called asynchronously |
| `Handlers` | do method dispatch, CORS and the other modifiers agree, in every order of layers, when the handle has to be polled again? | 279 routes (9 lists of endpoints under 31 lists of modifiers, 4 policies), 4 methods, 2 origins, `MaxPends` 2 |
| `Blocking` | are copies whole, 304 true, batches whole, and is everyone served, on one thread that may block? | `Slots` 1, 2 connections, 2 inodes, `MaxTick` 5, `MaxLen` 2, 2 requests each, 9 scenes |
| `CapturedErrors` | (violated) is an error captured by `capture_errors` answered? | the same |
| `Server` | do connections stay apart, upgrades settle, the loop go on, and does nothing of the server's own hold up `run`? | 2 connections, 2 requests each, 10 kinds of request, 4 setups |

### Why these bounds

- *Routes.* Every branch of `add_path` needs at most two routes before it: one to make a node, one to
  split it; the third sees the result. The eight texts include one that is a prefix of others, one
  that splits, parameters in the middle and at the end, a catch-all, a route that is refused after it
  has changed the tree (`/b/:x/*p/`), and one of the other kind in the same place. A refused route
  does not count, so any number of them precede and follow. Every action fires.
- *Scopes.* Three scopes are the least with two below the root, beside or inside each other, which is
  where the place-by-place comparison of ancestors matters; two routes are the least with two
  candidates.
- *Sessions.* Three requests let one client have two and the other one, or a request of the same
  client begin while the command of an earlier one is still under way, and a third see the outcome.
  Three ids are one per request: a request makes at most one. The cookie run starts with each of the
  three kinds of cookie that is no session.
- *Trees of extractors.* Every combinator has every kind of child that can wait, fail, return at once
  or read the body, at depth two or three, on both sides of an `or`. What arrives may do so between
  any two turns of a poll.

- *Routes with modifiers.* Two endpoints are the least with an order; three modifiers allow one on either
  side of a policy, and every pair of policies is tried. A handle waits at most twice: in the extractor and
  in the handler, or twice in one.
- *Files and queries.* One thread is the least and makes all wait for each other; two connections are the
  least that do. Two bytes and chunks of one or two give an empty file, one chunk, and more than one; two
  inodes let a file be replaced by an older or a younger one. `chunk` 0 is an option the code accepts. A
  scene gives the connections their kinds and sets, by `first` and `spent`, how much of the bounds on
  changes and requests is left, so that two connections stay within reach.
- *Connections.* Two are the least for one to hold up another; two requests let the promise of an upgrade
  outlive its request. The four setups have both runtimes, own and supplied, every kind of listener,
  TLS or none, both factories and the modifier of a service. Where `spent` is `One` the second connection
  can be accepted and closed, but sends nothing.

Symmetry is used in the session runs with ids and requests, which are only compared; not in the
liveness run. Deadlock is not checked, because the systems may really stop: a refused application
(`App`), sessions with all their requests over, an answered request (`Extraction`, `Handlers`), a recognizer
with no request or registration left to try, clients that have asked all they may (`Blocking`), a server
that has returned, or whose peers are silent (`Server`).

### Fairness

- `RedisSession!FairSpec`: weak fairness of a future that can progress (the executor polls what was
  notified) and of Redis: nothing in `redis.rs` bounds how long a connection or a command takes, so
  "every request is answered" rests on Redis answering or failing. Handlers are assumed to end.
  Faults, field operations and expiry are not fair.
- `Extraction!FairSpec`: a poll once begun runs to its return (sequential code), a task that was
  notified is polled (tokio), and what may be waited for arrives in the end. A task that was *not*
  notified may be polled, as hyper does for reasons of the connection, but this is not relied upon,
  which is why a lost wakeup would show.
- `Blocking!Fairness`: the runtime polls a task that was notified: one a thread is kept for, one whose
  handle is ready. What runs on a thread ends (a system call returns, juniper finishes). Nothing is assumed of
  clients, or of those who write to the file.
- `Server!Fairness`: the loop and the tasks that are ready are polled for as long as `run` has not dropped the
  runtime (`Polled`), so a `run` that returned early would leave them where they are; a broken listener
  reports its error.
  Nothing is assumed of peers, of handshakes, of requests being sent or read, or of what a WebSocket task
  does: `UpgradeSettled` is about the waiting, not the talking.

### What the runs show

- The recognizer's tree is a correct index: leaves and routes are in bijection, a leaf lies where its
  route leads, candidates cover the routes below, siblings are told apart by their first token, the
  index returned is always valid, and no later registration, accepted or refused, moves a route.
- A search agrees with the reference definition of matching with two exceptions:
  it accepts a request that stops inside the static text before a last parameter (with an empty
  capture past its end: finding `RouteTreeExact`), and a route is taken for one of the other kind where `:x` and `*x` were let
  stand in one place. Under `KindsKept` (every leaf lies at its route, kinds included)
  `SearchSound` and `SearchComplete` hold.
- Keys, values and ancestors stay in step through every configuration (`AppInv`, `ScopesNest`). The fallback
  starts from a scope that contains every route the request may be the beginning of, as long as no `*name`
  was taken for the `:name` of a mounted scope (`KindsKept` in `FallbackCovers`). Its default handler has to
  do with the request (`FallbackIsLocal`) as long as the candidates of a node are routes that lead there and
  static text ends only where a route ends, forks or has a parameter. A configuration that passes every error
  on leaves no other tree (theorem `DefaultsStayInScope`), one that goes on after an error may.
- Both session backends implement `Sessions` for a client that sends one request at a time: the
  cookie backend even when replies are lost, Redis when nothing fails. With overlapping requests and
  failures sessions never mix between clients and a deleted one never comes back.
- The combinators of `ext.rs` never poll a future past its end, compute what their leaves determine,
  lose no wakeup, and the body is read by one extractor.
- Whatever the order of the layers, a request from an origin that one of the policies around a route does
  not permit does not reach the handler; a preflight is granted exactly if the policy that answers it
  permits what is asked; what the one policy around a route granted it also lets pass; every policy signs a reply once, the reply of an error
  included; `Allow` is exact, but for extension methods where an endpoint accepts all methods; the handler is
  called once. The methods a handler lists, through every layer, are those it has an endpoint for, with
  the exception below; an endpoint that was chosen may still answer 405, as its extractors please.
- A copy of a file that was received in full is what its tag stands for: as long as a file has the time of the
  copy it has its bytes, whatever was written between the system calls of the reply. A 304 is said of what
  the client has, with the exceptions below. A batch of GraphQL operations runs
  once and whole, also if the client leaves; the status is 200 only if all succeeded; no one waits for a
  thread in vain. An error captured by `capture_errors` makes the task of the connection panic (finding
  `CapturedErrors`).
- No peer keeps another from being accepted; a WebSocket task talks alone and only after HTTP is over; no
  request that is refused, by the session that is written last included, leaves a task; a task that waits for an
  upgrade is told in the end, also if the loop ends meanwhile, with the exception below. Once the loop
  has ended only silent or idle peers and the application (its WebSocket functions, its own tasks) can keep
  `run` from returning (`RunEnds`): a service in the making, a session that is written, a connection that
  was handed over, a task whose upgrade went to another request or to nobody do not.

### Observations that are not findings

No document promises otherwise, but a maintainer may want to know:

Recognizer and scopes:

- a route of the other kind is accepted where it goes on in the same place: "/:id/foo", then "/*path"
  (`recognizer.rs:202`; the tests at 823 and 830 refuse other such pairs);
- `NotMatched` falls back to the root scope whatever the prefix of the path (`app.rs:168`), and
  whether a search ends so depends on how other routes split the tree;
- after an error that the caller drops, candidates of the refused route stay (`recognizer.rs:75`), and the
  default handler of an unrelated scope may answer (`app.rs:173`).

Sessions, extractors, URIs:

- overlapping requests of one session lose updates, and one that read the session before `clear`
  writes it back (`redis.rs:306`), which is why `SessionsApart` and `DeletedForGood` do not ask for more;
- `set` after `clear` is dropped while the call returns `Ok` (`redis.rs:139`, `cookie.rs:235`);
- `clear` of a session Redis no longer knows leaves the browser's cookie (`redis.rs:333`);
- an id is put into the jar before `SET` was carried out, and an error reply still sends it;
- a `Cookie` header that does not parse is 400 until the browser drops the cookie;
- joining a prefix and a route that both have names always fails (`uri.rs:203`);
- `Uri::parse` accepts `/*path/`, which the recognizer refuses after it has changed the tree: the nodes
  it leaves can make a later route with the other kind of parameter unreachable;
- of two body extractors in an `or`, the right one fails with 500 when the left one took the body and
  failed: `BodyTakenOnce` is what the code promises, not that the alternative can succeed.

Handlers and CORS:

- an OPTIONS request without `Origin` is passed on by CORS, which lists OPTIONS, and ends in 405: the
  exception in `ListMatchesDispatch`; one with `Origin` but without `Access-Control-Request-Method` is
  taken for a preflight;
- what a handler lists leaves its extractors out: `endpoint::any().extract(method::get())` reports every method
  (`handler.rs:142`) and answers PUT by 405 (`extractor/method.rs:11`);
- two policies around one route sign twice, possibly `*` next to `Allow-Credentials`; the reply to a preflight
  never has `Allow-Credentials` (`lib.rs:471-504`); a policy without a list of headers echoes what was asked;
- `default_options` outside of CORS answers preflights itself. The modifier applied last, and that of the inner
  scope, is the outermost layer.

Files and GraphQL:

- `Last-Modified` is local time and is read back as UTC: east of Greenwich a changed file can be 304; with
  nanoseconds it is never 304 by date; an older file moved into place is not noticed by date;
- strong tags and lists never match, `*` is 400;
- a directory opens with 200 and a body that breaks off; names that begin with `:` or `*` become parameters;
  static files answer any method, while `allowed_methods` says GET;
- on a runtime of one thread files and queries answer 500;
- errors of the Responder pass by `capture_errors`; a batch answers 400 though some operations took effect;
  a panic in a resolver makes the poll of its handle panic; any `Debug` or `Display` of `Error` panics.

Server and WebSocket:

- any error of the listener (too many open files, an aborted connection) ends accepting for good
  (`lib.rs:147`); `poll_ready` is asked once per connection;
- `Connection: keep-alive, Upgrade` is refused with 400; a handshake over HTTP/1.0 is answered 101, and no
  upgrade follows;
- a modifier that replaces the 101 leaves the task waiting as long as the client keeps the connection idle:
  the exception in `UpgradeSettled`;
- `run` on a runtime that was supplied waits for the application's own tasks.

## 4. The proofs

Each theorem holds for every value of the constants that meets the assumptions of its module, which TLC
evaluates for the instances of the runs.

| Module | Theorem | States | Property of a run |
|---|---|---|---|
| `RouteTree_proofs` | `Invariance` | `Spec => []IInv` | |
| | `TypeCorrect`, `NoPanic`, `LeavesAreRoutes`, `OneWay` | types; the `expect` at `recognizer.rs:101` never fires; leaves and routes in bijection; one way down | `TypeOK`, `LookupNeverPanics`, `LeafSpellsRoute`, `OneWayDown` |
| | `RegisteredForGood` | no insertion, refused or not, moves a route | `RoutesAreStable` |
| | `SearchInvariance` | `Spec => []SearchInv`: the tree is a radix tree whose nodes know their routes, and a search knows what it has left | |
| | `FoundIsRight`, `NotFoundIsRight` | for every tree and every request: what is found is spelled by its route; what is not found matches none, and what it may become is among the candidates | `SearchSound`, `SearchComplete` |
| `App_proofs` | `AppInvariance` | `AppSpec => []AppIInv` | |
| | `EndpointsInStep`, `ScopesAreNested` | keys and values in step; ancestors are the path from the root | `AppInv`, `ScopesNest` |
| | `DispatchInvariance` | `AppSpec => []DispatchInv`: where a search stopped and what its answer was made of | |
| | `NoScopeIsPassedOver`, `DefaultIsLocal` | the scope a fallback starts from, and whose default handler answers | `FallbackCovers`, `FallbackIsLocal` |
| | `DefaultsStayInScope` | `~Lenient => (AppSpec => []AnswersInScope)`: the same without a condition on the tree, when every error ends the configuration | |
| `RedisSession_proofs` | `Invariance`, `SessionsStayApart`, `DeletedStaysDeleted` | whatever overlaps and fails, sessions do not mix and a dead key stays dead | `SessionInv`, `DeletedForGood` |
| | `PromiseKept` | refinement of `Sessions`, with neither overlaps nor faults | `KeepsPromise` |
| `CookieSession_proofs` | `TypeCorrect`, `PromiseKept` | types; refinement of `Sessions`, lost replies included | `TypeOK`, `KeepsPromise` |
| `Extraction_proofs` | `Invariance`, `NoPollPanics`, `BodyGoesToOne` | for every tree of extractors: no poll past the end, one reader of the body | `PollInv`, `BodyTakenOnce` |
| | `ResultsFollow`, `WakeupsAreKept` | a tree returns what its leaves determine; a future that waits is one the task is notified of | `OutcomeOfLeaves`, `NoLostWakeup` |
| `Handlers_proofs` | `Invariance`, `FunctionCalledOnce` | one call of the function, however often it is polled | `HandleInv` |
| | `RefusedIsNotServed`, `PreflightTellsPolicy`, `LeaveIsHonoured`, `SignedOnce` | CORS around a route, with any layers in any order | `RefusedNotServed`, `PreflightFaithful`, `GrantedIsServed`, `EachPolicySignsOnce` |
| | `AllowHeaderIsExact`, `DispatchFollowsList` | the `Allow` header and the choice of an endpoint agree with what is listed, through every list of modifiers | `AllowIsExact`, `ListMatchesDispatch` |
| `Blocking_proofs` | `Invariance`, `NoMoreThreadsThanSlots` | the pool; who waits is in the queue, once | |
| | `BatchesAreWhole`, `RepliesAreTrue` | GraphQL batches | `BlockingInv`, `ReplyIsTrue` |
| | `CopiesAreWhole`, `ToldOnlyIfCurrent` | copies of files | `CopyIsWhole`, `NotModifiedMeansCurrent` |
| `Server_proofs` | `Invariance`, `OneTalks`, `RefusedAlone` | one owner of a connection; nothing left behind a refusal | `ServerInv`, `RefusedHasNoTask` |

### Assumptions

- `RouteTree`: `LettersAreStatic`; `PatternsAssumption` and `RequestsAssumption`, what `Uri::parse` and
  the parser of a request let through (nonempty, starts with a slash, names in order);
  `MaxRoutesAssumption`. `App`: `MountPointsAssumption`, `ScopeBounds`.
- `Extraction`: `ShapesAssumption`, that a shape is a tree whose nodes have the children their combinator takes, of
  finite depth.
- `RedisSession`, `CookieSession`: `RedisAssumption`, `CookieAssumption`, and `NoValueIsNone`, that a
  value differs from the mark of an absent field.
- `Handlers`: `HandlersAssumption`; `BlockingPool`: `PoolAssumption`; `Files`: `FilesAssumption`;
  `Queries`: `QueriesAssumption`; `Blocking`: `ScenesAssumption`; `Server`: `ServerAssumption`: types, and
  that bounds are natural numbers.

None of them bounds anything, except where a set must be finite for its elements to be counted.
The hypothesis `~Overlaps` of `PromiseKept` is in the code's own hands only as far as the client waits for
its replies; the two observations on overlapping requests say what happens otherwise.

### The arguments

In every module the theorems rest on an inductive invariant `IInv`; one lemma per action shows that the
action preserves each part it can disturb, `NextInv` or `StepInv` puts them together, and the property is
one of the parts or follows from them.

**Recognizer.**

    IInv == TypeOK /\ (LeafSpellsRoute /\ OneWayDown /\ ParametersAreNodes) /\ OnTheWay /\ LookupNeverPanics

`LeafSpellsRoute` alone is not inductive: `SetLeaf` stores the index at the node the walk has reached,
so one has to know that this node spells the path (`OnTheWay`, the loop invariant of `add_path`). That
in turn is preserved by `FollowStatic` and `FollowWildcard` only because there is one way down
(`OneWayDown`: two texts with the same shape are the same text) and because a parameter is a node of
its own (`ParametersAreNodes`: a split never cuts it off). `LookupNeverPanics` follows from leaves
being indices of routes at the moment of the search; the registry does not shrink. `RoutesAreStable`
is an action property: from the same invariant, the one action that registers appends, and the others
keep leaves, a split included.

*The search.* `SearchInv == IInv /\ Radix /\ Marked /\ Searching /\ Answered`. `Radix` is what a search needs
of the tree: two texts part at a node and never at a parameter (`Branching`), a parameter is followed by a
slash, a catch-all has a leaf, and a node has the indices of all leaves at and below it as candidates
(`Candidates`). For that last part an insertion must have left its index on all nodes it has passed
(`Marked`). `Searching` says of the node and offset of a search that the tokens above read the request up to
the offset with the captured spans, and that this is the furthest reading (`Reaches`, `Laid`); and that no leaf
outside the part of the tree that is left can match (`Elsewhere`). A route outside is excluded because it
parts from the text at a node where the other token was read (`ReachStuck`), or because the request ends there
(`TooLong`); the lemmas `FootStuck`, `FootOther` do this for the choice of a child.
`Answered` is right of the leaf's own text; with `KindsKept` that text is the route. What `Ends`, `Count` and
`FlattenSeq` compute is used through their equations: those of `Ends` and of the sequences are obtained
by taking the least length at which they would fail, as no induction rule can be instantiated.

**Application.** `AppIInv` is the recognizer's invariant, whose step lemmas are used again for the turns that
`InsertTurn` and `MatchTurn` take, with: `Underway`, what is on its way into the table during an insertion
is the endpoint of the path that the recognizer walks; `EndpointOfRoute`, the endpoint of an index has
the route's path; `Rooted`, a scope's ancestors are those of its parent and itself; `AllPlaced`, the same
of the endpoints, registered and pending. `ScopesNest`, which compares ancestors of any two scopes place
by place, follows from `Rooted`, which speaks of one scope.

*Fallbacks.* `DispatchInv == AppIInv /\ SearchInv /\ Dispatch`. `Dispatch` adds that prefixes are well named
(so the joined paths are patterns the recognizer's lemmas apply to), that every node has a candidate, that
the answer is what `process_recognize` makes of the result, and where a partial match has stopped: at a node
of which it has read as much as the request has, or all, with no parameter below (`Stops`). A scope that is inferred is
an ancestor of every candidate (`InferredScope`), so `FallbackCovers` follows from `SearchComplete`. For
`FallbackIsLocal` all candidates have the prefix of the scope in common, and lead through the node; if the prefix went
further than the node, all nodes below would go on with the same token, and none of them could be a leaf or a
fork (`PrefixEnds`). So the prefix ends along what the request has read (`AlongNode`).

*Without errors that are dropped.* `Strict`: until the configuration is refused, every candidate is the index of a
route that leads to its node, or of the one on its way (`AllLed`), and every node of static text is there for a
leaf, a parameter or a fork, or is the one where the insertion is about to make it (`AllForked`, `Due`). A
refused insertion leaves neither true, which is why `FallbackIsLocal` has its conditions: after a refused
"/b/:/*/" the index it had goes to a route of the scope "/b/:/c", and the default handler of that
scope answers "/b/a/d".
`App.cfg` sets `Lenient`, whose behaviours include those of a configuration that stops at its first error.

**Sessions.** `RedisSession`: an id that was generated is held by one client: by its cookie, its
requests, the commands on the wire (`WireOwned`), the session in a request's hands (`InnerOwned`) and the
value stored under it (`StoreOwned`). `OneOwner` is preserved by `Begin`, which sends a cookie, only
because a fresh id is not yet `used`. `Buried` keeps a dead key from the only sources of a `SET`.
`PromiseInv` adds, where clients wait and nothing fails, that a client has one request under way (`Alone`),
that its stage says what Redis holds and what is still on its way there (`Orderly`, `Waited`); with it each step
maps to one step of `Sessions` or to none: the working copy is the request's `inner`, the map is the store
under the cookie's id, and a `SET` or `DEL` is committed where Redis carries it out, an answer that is
not waited for included. `CookieSession` needs `Alone` and `Orderly` alone: the commit is the reply.

**Extraction.** A poll on its way down at a node finds what it needs because of what is true off
the path: `Polling` says that every future on the path is there (`Live`), that the right side of a chain
is polled only after the left left its output (`InOrder`), and that every other subtree that still has
an owner can be polled (`Ready`). The order of paths does the rest: what a step changes is above, at, or
beside the node. `OneReader` counts readers through the one token in `locals`.
`ResultInv` adds what a future has said: it is `Result`, one step of the combinator from what the children
said (`SaysResult`), and owners keep the outputs they were given. `Outcome` and `Blocked` of the properties are
recursive functions on the tree; a set of nodes at which they differ from what was said has a deepest one,
which one step of the combinator refutes. `WakeInv` says of every leaf that the next poll will come to, and
that the present one has passed, that it waits for something that notifies the task, or has (`LeavesWait`), and the same of the future of the stage.

**Handlers.** `Onward` says which layers the request has passed, from the place `at` of the poll: those
outside of it have all let it through, and those that are policies permit it. `Calls` ties the number of
calls of the function to the stage of the innermost future, `Signing` the signatures on the reply to the
policies on the way back. `Browsing` ties what the browser learned from a preflight to the site as it was
configured; the policy that answered is the outermost, which `GrantedIsServed` compares with the only one.
`ListInv` adds that what `default_options` lists is what the layers inside of it report (`ListsMethods`), which is put in
closed form (`Listed`): the methods of the endpoints, with OPTIONS as soon as one layer adds it. `Chosen`, the endpoint a
method selects, is the one with the least index that accepts it; it exists exactly if the
method is in that closed form, but for an OPTIONS that a layer added, which is `ListMatchesDispatch`.

**Blocking.** `IInv == PoolInv /\ FilesInv /\ QueriesInv`. In the pool, lent and kept threads are as many as
`Slots` at most (`ThreadsBounded`), and who waits is in the queue once (`Queued`); a thread that is let go
is passed on to the first in it. For files, bytes tell when they were written; what was read in a chunk
is not younger than the clock, and the tag was taken of the same inode before the first byte was, so a file that
has the tag's time now was not written since. For queries, what was executed is a beginning of the batch
for as long as the task holds its thread.

**Server.** `Counted`, `Spawned` and `Handed`, each of one connection: tasks are those of requests that came in,
a request has a task only after a good reply, and a connection that was handed over is talked on only by the
task of the request its upgrade was promised to.

### What stays with TLC

- Liveness: `AllAnswered`, `Answered`, `WaitersServed`, `QueriesAnswered`, `NoPeerHoldsUp`, `UpgradeSettled`,
  `RunEnds`.
- The two properties the code violates, `SearchExact` and `CapturedAreAnswered`, whose counterexamples are TLC's.

Every other property of a run, action property and refinement is a theorem.

## 5. What is not modelled, and the plan

Not modelled:

- the content of responses (`output.rs`, templates, GraphiQL's page) and of headers beyond those that decide
  something: conversions of values without state;
- the procedural macros and the type-level lists (`generic.rs`), which act at compile time;
- the local map: a typed map used by one task; its one protocol, that the body is taken once, is in
  `Extraction`;
- the test server: one request after the other, each driven to its end before the next;
- examples;
- what happens inside hyper, tokio, rustls, redis, juniper, tungstenite and cookie; the models have of them
  what the code relies on, marked external in the map. HTTP/2 is left out.

Modelled: recognizer and configuration (`RouteTree`, `App`), sessions (`Sessions`, `RedisSession`,
`CookieSession`), extractors (`Extraction`), methods, modifiers and CORS (`Handlers`), files and GraphQL on
one pool (`Blocking`), server and WebSocket (`Server`).

Next, in order of importance:

1. `RouteTree`: an abstract table of routes that the tree implements, as a refinement next to `NotFoundIsRight`
2. `RedisSession`: `PromiseKept` with lost replies, with a weaker promise that allows for them
3. `Extraction`: the two extractors of one body in an `or`, which `BodyTakenOnce` permits to fail
4. the local map as a module, should a second protocol come to depend on it
