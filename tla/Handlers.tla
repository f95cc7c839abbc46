------------------------------ MODULE Handlers ------------------------------
(***************************************************************************)
(* A route's handler at work: `path!(..).to(chain![endpoint, ..])`, with   *)
(* the modifiers of the scopes it was registered in wrapped around it      *)
(* (default_options, map_output and CORS), polled by AppFuture until it    *)
(* has a reply.  Around it a client: a browser, which may have to ask for  *)
(* leave by a preflight before it sends the request it wants to send, or   *)
(* any other client, which sends what it likes.                            *)
(*                                                                         *)
(* A poll of the handle is a call of poll_ready of the outermost modifier, *)
(* which answers or calls the next one.  One action is one such turn: `at` *)
(* is the modifier whose turn it is (the last one applied is the outermost *)
(* one), 0 the route's own handle.                                         *)
(***************************************************************************)
EXTENDS Cors, SequencesExt

CONSTANTS
  Methods,   \* the methods of the instance, OPTIONS among them
  Sites,     \* [endpoints, modifiers]: what the application is built from
  Wants,     \* what a browser wants to send: [method, origin, headers]
  Requests,  \* what other clients send
  MaxPends   \* bound on the polls of a handle that return NotReady

Parked == -1

\* What is configured: an endpoint has the methods it was given, or is a CORS
\* endpoint, and a modifier may be a CORS; both have the calls on its builder.
EndpointConfigs ==
  [by : {"any"}, async : BOOLEAN]
  \cup [by : {"only"}, methods : Seq(Methods \cup {"garbled"}), async : BOOLEAN]
  \cup [by : {"cors"}, policy : Builders]
ModifierConfigs == [is : {"map", "options"}] \cup [is : {"cors"}, policy : Builders]

\* A browser sends an origin, and a method and headers that are valid.
ASSUME HandlersAssumption ==
  /\ "OPTIONS" \in Methods /\ MaxPends \in Nat
  /\ Origins \cap {Absent, Wildcard} = {} /\ {"garbled", Absent} \cap (Headers \cup Methods) = {}
  /\ \A s \in Sites : s \in [endpoints : Seq(EndpointConfigs), modifiers : Seq(ModifierConfigs)]
  /\ \A w \in Wants : w.origin # Absent /\ w.method \in Methods /\ w.headers \subseteq Headers
  /\ \A r \in Requests : r.method \in Methods

VARIABLES
  site,    \* as it is configured, and then as it is built
  stage,   \* of the exchange
  want,    \* Option: what the browser of the exchange wants to send
  req,     \* the last request sent
  at,      \* whose turn it is in the poll under way, or Parked
  taken,   \* the CORSHandles whose `cors` was taken
  route,   \* the state of the RouteHandle and of the future of its endpoint
  pends,   \* the polls that returned NotReady
  called,  \* how often the handler function was called
  hdrs,    \* Input::response_headers
  reply    \* Option: the response sent last

vars == <<site, stage, want, req, at, taken, route, pends, called, hdrs, reply>>

-----------------------------------------------------------------------------
\* AllowedMethods, or None for all methods

Every    == [all |-> TRUE, of |-> {}]
Only(ms) == [all |-> FALSE, of |-> ms]

Accepts(allowed, m) == allowed.all \/ m \in allowed.of

\* What `modify` makes of the allowed methods of the handler it wraps:
\* default_options and CORS add OPTIONS to the list, if there is one.
DefaultOptionsModify(allowed) ==
  IF allowed.all THEN allowed ELSE Only(allowed.of \cup {"OPTIONS"})
CorsModify(allowed) ==
  IF allowed.all THEN allowed ELSE Only(allowed.of \cup {"OPTIONS"})
MapModify(allowed) == allowed

AllOfThem == {"GET", "POST", "PUT", "DELETE", "HEAD", "OPTIONS", "CONNECT", "PATCH", "TRACE"}

\* The value of the Allow header
HeaderValue(allowed) == IF allowed.all THEN AllOfThem ELSE allowed.of

\* What the functions of config::endpoint give a Builder: any(), get() and its
\* like, allow_only(..) of a list, whose methods must all be valid.
Valid(e) == e.by = "only" => "garbled" \notin Range(e.methods)

CorsAllow == Only({"OPTIONS"})

Allow(e) ==
  CASE e.by = "any"  -> Every
    [] e.by = "only" -> Only(Range(e.methods))
    [] e.by = "cors" -> CorsAllow

\* Mutant: the methods of the right endpoint are lost.
EndpointsAllowLeft(es) == Allow(es[1])

\* Chain::allowed_methods: None as soon as one of the endpoints accepts all.
EndpointsAllow(es) ==
  IF \E i \in DOMAIN es : Allow(es[i]).all THEN Every
  ELSE Only(UNION {Allow(es[i]).of : i \in DOMAIN es})

\* What one modifier makes of them
Modify(m, allowed) ==
  CASE m.is = "map"     -> MapModify(allowed)
    [] m.is = "options" -> DefaultOptionsModify(allowed)
    [] m.is = "cors"    -> CorsModify(allowed)

\* Handler::allowed_methods with the first k modifiers applied, the left one of
\* a Chain before the right one
AllowedAt(s, k) ==
  LET allowed[j \in 0..Len(s.modifiers)] ==
        IF j = 0 THEN EndpointsAllow(s.endpoints)
        ELSE Modify(s.modifiers[j], allowed[j - 1])
  IN  allowed[k]

-----------------------------------------------------------------------------
NoHeaders == [acao |-> <<>>, creds |-> 0]
NoRoute   == [state |-> "init", ep |-> 0]
NoRequest == [method |-> "OPTIONS", origin |-> Absent, ask |-> Absent, lists |-> {}]

\* A CORS, as a modifier or as an endpoint, is built from its Builder.
BuildCors(c) == [c EXCEPT !.policy = Build(@)]

\* What was configured is built: a list with an invalid method is an error, and
\* so is the configuration of the App.
Configure ==
  /\ stage = "setup"
  /\ IF \A i \in DOMAIN site.endpoints : Valid(site.endpoints[i])
     THEN /\ site' = [endpoints |-> [i \in DOMAIN site.endpoints |->
                          LET e == site.endpoints[i]
                          IN  IF e.by = "cors" THEN BuildCors(e) ELSE e],
                      modifiers |-> [i \in DOMAIN site.modifiers |->
                          LET m == site.modifiers[i]
                          IN  IF m.is = "cors" THEN BuildCors(m) ELSE m]]
          /\ stage' = "idle"
     ELSE stage' = "misconfigured" /\ UNCHANGED site
  /\ UNCHANGED <<want, req, at, taken, route, pends, called, hdrs, reply>>

\* Handler::handle, of every modifier and the route: nothing has been polled.
NewHandle == taken' = {} /\ route' = NoRoute

\* A request comes in, and AppFuture polls its handle for the first time.
Send(r, s) ==
  /\ req' = r /\ stage' = s
  /\ at' = Len(site.modifiers)
  /\ NewHandle /\ pends' = 0 /\ called' = 0
  /\ hdrs' = NoHeaders /\ reply' = {}
  /\ UNCHANGED site

\* A client that is not a browser
SendAny ==
  /\ stage = "idle"
  /\ \E r \in Requests : Send(r, "any")
  /\ UNCHANGED want

Simple(w) == w.method \in {"GET", "HEAD", "POST"} /\ w.headers = {}

\* A browser asks first, unless the request is a simple one.
SendPreflight ==
  /\ stage = "idle"
  /\ \E w \in Wants :
       /\ ~Simple(w)
       /\ want' = {w}
       /\ Send([method |-> "OPTIONS", origin |-> w.origin, ask |-> w.method,
                lists |-> IF w.headers = {} THEN {} ELSE {w.headers}], "preflight")

Actual(w) == [method |-> w.method, origin |-> w.origin, ask |-> Absent, lists |-> {}]

SendSimple ==
  /\ stage = "idle"
  /\ \E w \in Wants : Simple(w) /\ want' = {w} /\ Send(Actual(w), "actual")

SendGranted ==
  /\ stage = "granted"
  /\ \E w \in want : Send(Actual(w), "actual")
  /\ UNCHANGED want

\* The rule of the browser: does the answer to the preflight allow w?
Grants(r, w) ==
  /\ r.status = 204
  /\ r.acao \in {<<w.origin>>, <<Wildcard>>}
  /\ w.method \in {"GET", "HEAD", "POST"} \cup UNION r.acam
  /\ w.headers \subseteq UNION r.acah

Decide ==
  /\ stage = "preflight"
  /\ \E r \in reply, w \in want : stage' = IF Grants(r, w) THEN "granted" ELSE "denied"
  /\ UNCHANGED <<site, want, req, at, taken, route, pends, called, hdrs, reply>>

-----------------------------------------------------------------------------
Replied == reply # {}

\* process_before_reply: the supplemental headers are appended to what the
\* handler made, be it a response or the response of an error.
BeforeReply(out) ==
  [out EXCEPT !.acao = @ \o hdrs.acao, !.creds = @ + hdrs.creds]

\* poll_ready returns Ready or an error, through the modifiers further out; the
\* AppFuture replies.
Answer(out) ==
  /\ reply' = {BeforeReply(out)}
  /\ at' = Parked

\* poll_ready returns NotReady; the future is polled again when it is notified.
Park == at' = Parked /\ pends' = pends + 1

PollAgain ==
  /\ at = Parked /\ ~Replied /\ stage \in {"any", "preflight", "actual"}
  /\ at' = Len(site.modifiers)
  /\ UNCHANGED <<site, stage, want, req, taken, route, pends, called, hdrs, reply>>

Turn(kind) == at > 0 /\ site.modifiers[at].is = kind

CallInner == at' = at - 1

\* Mutant: `cors` is cloned, not taken, and decides again at every poll.
PollCorsEveryTime ==
  /\ Turn("cors")
  /\ LET p == ProcessRequest(site.modifiers[at].policy, req, hdrs) IN
       IF p.is = "reply"
       THEN Answer(p.of) /\ UNCHANGED hdrs
       ELSE CallInner /\ hdrs' = p.of /\ UNCHANGED reply
  /\ UNCHANGED <<site, stage, want, req, taken, route, pends, called>>

\* CORSHandle takes its `cors` when it is polled first.
PollCors ==
  /\ Turn("cors")
  /\ taken' = taken \cup {at}
  /\ IF at \in taken
     THEN CallInner /\ UNCHANGED <<hdrs, reply>>
     ELSE LET p == ProcessRequest(site.modifiers[at].policy, req, hdrs) IN
          IF p.is = "reply"
          THEN Answer(p.of) /\ UNCHANGED hdrs
          ELSE CallInner /\ hdrs' = p.of /\ UNCHANGED reply
  /\ UNCHANGED <<site, stage, want, req, route, pends, called>>

PollDefaultOptions ==
  /\ Turn("options")
  /\ IF req.method = "OPTIONS"
     THEN Answer([Response(204) EXCEPT !.allow = {HeaderValue(AllowedAt(site, at))}])
     ELSE CallInner /\ UNCHANGED reply
  /\ UNCHANGED <<site, stage, want, req, taken, route, pends, called, hdrs>>

PollMapOutput ==
  /\ Turn("map")
  /\ CallInner
  /\ UNCHANGED <<site, stage, want, req, taken, route, pends, called, hdrs, reply>>

\* Endpoint::apply of what a Builder made
Applies(e, m) == Accepts(Allow(e), m)

\* Mutant: the right endpoint is not tried.
ChosenLeft(es, m) == {i \in {1} : Applies(es[i], m)}

\* Chain::apply: the left endpoint, or else the right one; an Option
Chosen(es, m) ==
  {i \in DOMAIN es : Applies(es[i], m) /\ \A j \in 1..i-1 : ~Applies(es[j], m)}

MethodNotAllowed == Response(405)

\* What an error answers with: any status, that of an endpoint which is not
\* there among them, as the extractors of extractor::method do.
ErrorStatuses == {400, 405, 500}

AnswerError == \E status \in ErrorStatuses : Answer(Response(status))

\* What the handler function returns is a response, or an error.
AnswerResult == Answer(Response(200)) \/ AnswerError

\* RouteHandle, polled first: the parameters are extracted from the path, and
\* the endpoint is applied.
Apply ==
  /\ at = 0 /\ route.state = "init"
  /\ \/ AnswerError /\ UNCHANGED route               \* E::extract(..)?
     \/ Chosen(site.endpoints, req.method) = {} /\ Answer(MethodNotAllowed) /\ UNCHANGED route
     \/ \E i \in Chosen(site.endpoints, req.method) :
          route' = [state |-> "extract", ep |-> i] /\ UNCHANGED <<at, reply>>
  /\ UNCHANGED <<site, stage, want, req, taken, pends, called, hdrs>>

Endpoint == site.endpoints[route.ep]

PollCorsOfChain ==
  /\ at = 0 /\ route.state # "init" /\ Endpoint.by = "cors"
  /\ Answer(PollCorsEndpoint(Endpoint.policy, req))
  /\ UNCHANGED <<site, stage, want, req, taken, route, pends, called, hdrs>>

\* Mutant: the future of the function is made, and the state stays First.
PollExtractStays ==
  /\ at = 0 /\ route.state = "extract" /\ Endpoint.by # "cors"
  /\ \/ pends < MaxPends /\ Park /\ UNCHANGED <<route, called, reply>>
     \/ AnswerError /\ UNCHANGED <<route, pends, called>>
     \/ /\ called' = called + 1
        /\ \/ AnswerResult /\ UNCHANGED <<route, pends>>
           \/ Endpoint.async /\ pends < MaxPends /\ Park /\ UNCHANGED <<route, reply>>
  /\ UNCHANGED <<site, stage, want, req, taken, hdrs>>

\* CallFuture and CallAsyncFuture: the extractor, then the function; that of
\* call_async gives a future, which the same poll goes on with.
PollExtract ==
  /\ at = 0 /\ route.state = "extract" /\ Endpoint.by # "cors"
  /\ \/ pends < MaxPends /\ Park /\ UNCHANGED <<route, called, reply>>
     \/ AnswerError /\ UNCHANGED <<route, pends, called>>
     \/ /\ called' = called + 1
        /\ IF Endpoint.async
           THEN route' = [route EXCEPT !.state = "action"] /\ UNCHANGED <<at, reply>>
           ELSE AnswerResult /\ UNCHANGED route
        /\ UNCHANGED pends
  /\ UNCHANGED <<site, stage, want, req, taken, hdrs>>

PollAction ==
  /\ at = 0 /\ route.state = "action"
  /\ \/ pends < MaxPends /\ Park /\ UNCHANGED reply
     \/ AnswerResult /\ UNCHANGED pends
  /\ UNCHANGED <<site, stage, want, req, taken, route, called, hdrs>>

-----------------------------------------------------------------------------
Init ==
  /\ site \in Sites /\ stage = "setup" /\ want = {} /\ req = NoRequest
  /\ at = Parked /\ taken = {} /\ route = NoRoute /\ pends = 0 /\ called = 0
  /\ hdrs = NoHeaders /\ reply = {}

Next ==
  \/ Configure
  \/ SendAny \/ SendPreflight \/ SendSimple \/ SendGranted \/ Decide
  \/ PollAgain \/ PollCors \/ PollDefaultOptions \/ PollMapOutput
  \/ Apply \/ PollCorsOfChain \/ PollExtract \/ PollAction

Spec == Init /\ [][Next]_vars
-----------------------------------------------------------------------------
\* Properties

CorsLayers == {k \in DOMAIN site.modifiers : site.modifiers[k].is = "cors"}

Built == stage \notin {"setup", "misconfigured"}

\* What a policy is for, told apart from the checks that enforce it
Permits(p, origin, method) ==
  /\ origin \in Origins
  /\ p.origins = {} \/ origin \in UNION p.origins
  /\ method \in p.methods

TypeOK ==
  /\ stage \in {"setup", "misconfigured", "idle", "any", "preflight", "granted", "denied", "actual"}
  /\ want \subseteq Wants /\ Cardinality(want) <= 1
  /\ req.method \in Methods
  /\ at \in Parked..Len(site.modifiers)
  /\ taken \subseteq CorsLayers
  /\ route.state \in {"init", "extract", "action"} /\ route.ep \in 0..Len(site.endpoints)
  /\ pends \in 0..MaxPends /\ called \in Nat
  /\ Cardinality(reply) <= 1

\* A request from another origin which one of the policies around the route
\* does not permit never gets as far as the handler function, whatever the
\* order of the modifiers and however often the handle is polled; nor does any
\* OPTIONS request with an Origin, which is a preflight for CORSHandle.
RefusedNotServed ==
  Built => \A k \in CorsLayers :
    /\ req.origin # Absent
    /\ req.method = "OPTIONS" \/ ~Permits(site.modifiers[k].policy, req.origin, req.method)
    => called = 0

\* The policy that answers a preflight: that of the outermost CORS, unless
\* default_options lies further out and answers instead.
Answering ==
  LET ks == {k \in DOMAIN site.modifiers : site.modifiers[k].is # "map"}
  IN  {site.modifiers[k].policy : k \in {k \in ks \cap CorsLayers : \A j \in ks : j <= k}}

\* A browser takes the answer to a preflight for a leave exactly if the policy
\* permits the request, its method and its headers.
PreflightFaithful ==
  stage \in {"granted", "denied"} =>
    \A p \in Answering, w \in want :
      stage = "granted" <=> /\ Permits(p, w.origin, w.method)
                            /\ p.headers = {} \/ w.headers \subseteq UNION p.headers

\* What a preflight gave leave for is not refused when it comes: the check of
\* the request itself agrees with the answer that was given before.
GrantedIsServed ==
  stage = "actual" /\ Cardinality(CorsLayers) = 1 =>
    \A w \in want, r \in reply : Simple(w) \/ r.why = Absent

\* Every policy a request from another origin has passed signs the reply once,
\* with an Allow-Origin header: not once for every poll, and also if the reply
\* is that of an error from further in.
EachPolicySignsOnce ==
  \A r \in reply :
    req.origin # Absent /\ req.method # "OPTIONS" /\ r.why = Absent
      => Len(r.acao) = Cardinality(CorsLayers)

\* The Allow header of default_options lists, besides OPTIONS, exactly the
\* methods that one of the endpoints accepts, whatever modifiers lie between;
\* only the extension methods are left out if an endpoint accepts all methods.
AllowIsExact ==
  \A r \in reply : r.allow # {} =>
    \A m \in Methods \cup AllOfThem :
      m \in AllOfThem \/ ~EndpointsAllow(site.endpoints).all =>
        (m \in UNION r.allow <=>
           m = "OPTIONS" \/ \E i \in DOMAIN site.endpoints : Accepts(Allow(site.endpoints[i]), m))

\* The handler function is called once for a response it returns, and never where
\* a modifier, the route or a CORS endpoint replies; waiting does not call it again.
CalledOnce ==
  /\ called <= 1
  /\ \A r \in reply : /\ r.status = 200 => called = 1
                      /\ route.state = "init" \/ Endpoint.by = "cors" => called = 0

\* At every step of a handle: the types, and no second call.
HandleInv == TypeOK /\ CalledOnce

\* What a handler says it accepts, through all of its modifiers, is what it has an
\* endpoint for: whenever a poll comes to the route, one of the endpoints is
\* chosen exactly if the method is on the list.  The one exception is OPTIONS,
\* which CORS puts on the list and passes on if there is no Origin.  (An endpoint
\* that was chosen may still answer by 405, as its extractors please.)
ListMatchesDispatch ==
  at = 0 /\ route.state = "init" =>
    LET listed == Accepts(AllowedAt(site, Len(site.modifiers)), req.method)
        chosen == Chosen(site.endpoints, req.method) # {}
    IN  \/ listed <=> chosen
        \/ listed /\ req.method = "OPTIONS" /\ req.origin = Absent /\ CorsLayers # {}
=============================================================================
