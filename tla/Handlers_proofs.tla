--------------------------- MODULE Handlers_proofs ---------------------------
(***************************************************************************)
(* Theorems about a route's handler: whatever the endpoints, the modifiers *)
(* and the policies, a request a policy refuses is not served, a browser   *)
(* is told what the policy says, the function is called once, and the      *)
(* methods a handler lists are the ones it accepts.                        *)
(***************************************************************************)
EXTENDS Handlers, SequenceTheorems, FiniteSetTheorems, WellFoundedInduction, TLAPS

Layers == DOMAIN site.modifiers
Is(k) == site.modifiers[k].is
Policy(k) == site.modifiers[k].policy

SiteOK ==
  /\ Len(site.modifiers) \in Nat /\ Layers = 1..Len(site.modifiers)
  /\ \A k \in Layers : Is(k) \in {"map", "options", "cors"}
  /\ Len(site.endpoints) \in Nat /\ DOMAIN site.endpoints = 1..Len(site.endpoints)
  /\ stage = "setup" => site \in Sites

\* Nothing was sent yet.
Fresh ==
  stage \in {"setup", "misconfigured", "idle"} =>
    /\ want = {} /\ at = Parked /\ taken = {} /\ route = NoRoute
    /\ called = 0 /\ reply = {}

\* The policy p lets the request r through to the inner handler.
Lets(p, r) ==
  LET o == ValidateOrigin(p, r.origin)
  IN  o.is = "none" \/ (o.is = "ok" /\ r.method # "OPTIONS" /\ r.method \in p.methods)

\* The request has gone through modifier k, and may again.
Cleared(k) ==
  /\ Is(k) = "cors" => k \in taken /\ Lets(Policy(k), req)
  /\ Is(k) = "options" => req.method # "OPTIONS"

\* The poll is where it is because it was let through, and so is the route.
Onward ==
  /\ at # Parked => reply = {} /\ \A k \in Layers : k > at => Cleared(k)
  /\ reply = {} => \A k \in taken : Lets(Policy(k), req)
  /\ route.state # "init" =>
       /\ route.ep \in DOMAIN site.endpoints
       /\ Applies(Endpoint, req.method)
       /\ \A k \in Layers : Cleared(k)

\* The state of the route tells if the function was called.
Calls ==
  /\ DOMAIN route = {"state", "ep"}
  /\ route.state = "init" => called = 0
  /\ route.state = "extract" /\ reply = {} => called = 0
  /\ route.state = "action" => called = 1 /\ Endpoint.by # "cors"

Signing ==
  /\ hdrs.acao \in Seq(Origins \cup {Wildcard}) /\ hdrs.creds \in Nat
  /\ req.origin # Absent /\ req.method # "OPTIONS" /\ reply = {}
       => Len(hdrs.acao) = Cardinality(taken)

Outermost(k) ==
  k \in Layers /\ Is(k) # "map" /\ \A j \in Layers : Is(j) # "map" => j <= k

\* What the policy p is to tell a browser that wants to send w
Agrees(p, w) ==
  /\ Permits(p, w.origin, w.method)
  /\ p.headers = {} \/ w.headers \subseteq UNION p.headers

\* The answer that the browser of w was given is that of the outermost modifier.
Told(w, yes) ==
  \/ \A k \in Layers : Is(k) = "map"
  \/ \E k \in Layers : Outermost(k) /\ (yes <=> Is(k) = "cors" /\ Agrees(Policy(k), w))

Asked(w) ==
  [method |-> "OPTIONS", origin |-> w.origin, ask |-> w.method,
   lists |-> IF w.headers = {} THEN {} ELSE {w.headers}]

Browsing ==
  /\ \A v, w \in want : v = w
  /\ stage \in {"preflight", "granted", "denied", "actual"} => want # {}
  /\ stage = "preflight" => \A w \in want :
       /\ req = Asked(w)
       /\ reply = {} => hdrs = NoHeaders
       /\ \A r \in reply : Told(w, Grants(r, w))
  /\ stage \in {"granted", "denied"} => \A w \in want : Told(w, stage = "granted")
  /\ stage = "actual" => \A w \in want : req = Actual(w) /\ (Simple(w) \/ Told(w, TRUE))

IInv ==
  /\ TypeOK /\ SiteOK /\ Fresh /\ Onward /\ Calls /\ Signing /\ Browsing
  /\ CalledOnce /\ EachPolicySignsOnce /\ GrantedIsServed

\* A reply that lists methods is of default_options, with the methods as they
\* were when it was applied.
ListsMethods ==
  \A r \in reply : r.allow # {} =>
    \E k \in Layers : Is(k) = "options" /\ r.allow = {HeaderValue(AllowedAt(site, k))}

ListInv == IInv /\ ListsMethods

-----------------------------------------------------------------------------
(* Policies and replies. *)

ReplyFields == {"status", "acao", "creds", "acam", "acah", "age", "allow", "why"}
Signs == Seq(Origins \cup {Wildcard})

\* A check of the origin passes, refuses or signs.
LEMMA OriginCheck ==
  ASSUME NEW p, NEW origin
  PROVE  LET o == ValidateOrigin(p, origin) IN
         /\ o.is \in {"none", "err", "ok"}
         /\ o.is = "none" <=> origin = Absent
         /\ o.is = "err" => o.of # Absent
         /\ o.is = "ok" => o.of \in Origins \cup {Wildcard} /\ o.of \in {origin, Wildcard}
         /\ o.is = "ok" <=> origin \in Origins /\ (p.origins = {} \/ origin \in UNION p.origins)
<1>1. Absent \notin Origins
  BY HandlersAssumption
<1> QED BY <1>1 DEF ValidateOrigin, Pass, Deny, Give, Absent

\* So do those of the method and of the headers that a preflight asks about.
LEMMA MethodCheck ==
  ASSUME NEW p, NEW ask
  PROVE  LET m == ValidateRequestMethod(p, ask) IN
         /\ m.is \in {"none", "err", "ok"}
         /\ m.is = "err" => m.of # Absent
         /\ ask = Absent => m.is = "none"
         /\ ask \notin {Absent, "garbled"} =>
              IF ask \in p.methods THEN m = Give(p.methods) ELSE m.is = "err"
BY DEF ValidateRequestMethod, Pass, Deny, Give, Absent

\* The headers are echoed by a policy that has none of its own.
LEMMA HeadersCheck ==
  ASSUME NEW p, NEW lists
  PROVE  LET h == ValidateRequestHeaders(p, lists)
             asked == UNION lists IN
         /\ h.is \in {"none", "err", "ok"}
         /\ h.is = "err" => h.of # Absent
         /\ lists = {} => h.is = "none"
         /\ lists # {} /\ p.headers = {} => h = Give(asked)
         /\ lists # {} /\ p.headers # {} /\ asked # {} /\ asked \subseteq Headers =>
              IF asked \subseteq UNION p.headers THEN h = Give(UNION p.headers) ELSE h.is = "err"
BY DEF ValidateRequestHeaders, Pass, Deny, Give, Absent

\* A plain response, and one that tells why a request was refused.
LEMMA PlainReply ==
  ASSUME NEW status
  PROVE  /\ DOMAIN Response(status) = ReplyFields
         /\ Response(status).status = status /\ Response(status).acao = <<>>
         /\ Response(status).creds = 0 /\ Response(status).acam = {} /\ Response(status).acah = {}
         /\ Response(status).why = Absent /\ Response(status).allow = {}
BY DEF Response, ReplyFields

\* A refusal is a response with status 403 and its reason.
LEMMA Refusal ==
  ASSUME NEW kind
  PROVE  /\ DOMAIN Forbidden(kind) = ReplyFields
         /\ Forbidden(kind).status = 403 /\ Forbidden(kind).acao = <<>>
         /\ Forbidden(kind).creds = 0 /\ Forbidden(kind).why = kind /\ Forbidden(kind).allow = {}
BY DEF Forbidden, Response, ReplyFields

\* The answer to a preflight says no more than the policy.
LEMMA PreflightReply ==
  ASSUME NEW p, NEW r, NEW origin \in Origins \cup {Wildcard}
  PROVE  LET m == ValidateRequestMethod(p, r.ask)
             h == ValidateRequestHeaders(p, r.lists)
             out == ProcessPreflightRequest(p, r, origin) IN
         /\ DOMAIN out = ReplyFields /\ out.status \in {204, 403}
         /\ out.acao \in Signs /\ out.creds = 0 /\ out.allow = {}
         /\ m.is = "err" \/ h.is = "err" => out.status = 403
         /\ m.is # "err" /\ h.is # "err" =>
              /\ out.status = 204 /\ out.acao = <<origin>> /\ out.why = Absent
              /\ out.acam = Value(m) /\ out.acah = Value(h)
<1> DEFINE m == ValidateRequestMethod(p, r.ask)
           h == ValidateRequestHeaders(p, r.lists)
           out == ProcessPreflightRequest(p, r, origin)
<1>0. <<>> \in Signs /\ <<origin>> \in Signs
  BY EmptySeq DEF Signs
<1>1. CASE m.is = "err"
  <2>1. out = Forbidden(m.of) BY <1>1 DEF ProcessPreflightRequest
  <2> QED BY <1>0, <1>1, <2>1, Refusal
<1>2. CASE m.is # "err" /\ h.is = "err"
  <2>1. out = Forbidden(h.of) BY <1>2 DEF ProcessPreflightRequest
  <2> QED BY <1>0, <1>2, <2>1, Refusal
<1>3. CASE m.is # "err" /\ h.is # "err"
  <2>1. out = [Response(204) EXCEPT !.acao = <<origin>>, !.acam = Value(m),
                                    !.acah = Value(h), !.age = p.age]
    BY <1>3 DEF ProcessPreflightRequest
  <2> HIDE DEF out, m, h
  <2>2. /\ DOMAIN out = ReplyFields /\ out.status = 204 /\ out.acao = <<origin>> /\ out.why = Absent
        /\ out.acam = Value(m) /\ out.acah = Value(h) /\ out.creds = 0 /\ out.allow = {}
    BY <2>1 DEF Response, ReplyFields
  <2> QED BY <1>0, <1>3, <2>2 DEF out, m, h
<1> QED BY <1>1, <1>2, <1>3

\* A request with an origin is let through if the policy permits it.
LEMMA LetsPermitted ==
  ASSUME NEW p, NEW r, r.origin # Absent
  PROVE  Lets(p, r) <=> r.method # "OPTIONS" /\ Permits(p, r.origin, r.method)
BY OriginCheck DEF Lets, Permits

\* The response headers h, with a policy's signature.
SignedBy(p, h, o) ==
  [acao |-> Append(h.acao, o), creds |-> h.creds + (IF p.credentials THEN 1 ELSE 0)]

\* One that is let through goes on, with the policy's signature if it has an origin.
LEMMA ProcessLets ==
  ASSUME NEW p, NEW r, NEW h, Lets(p, r)
  PROVE  /\ ProcessRequest(p, r, h).is = "next"
         /\ r.origin = Absent => ProcessRequest(p, r, h).of = h
         /\ r.origin # Absent => \E o \in Origins \cup {Wildcard} :
              ProcessRequest(p, r, h).of = SignedBy(p, h, o)
<1> DEFINE o == ValidateOrigin(p, r.origin)
<1>1. CASE o.is = "none"
  BY <1>1, OriginCheck DEF ProcessRequest, Continue
<1>2. CASE o.is = "ok" /\ r.method # "OPTIONS" /\ r.method \in p.methods
  <2>1. /\ ProcessRequest(p, r, h).is = "next"
        /\ ProcessRequest(p, r, h).of = SignedBy(p, h, o.of)
    BY <1>2 DEF SignedBy, ProcessRequest, ProcessSimpleRequest, Continue, Give
  <2>2. o.of \in Origins \cup {Wildcard} /\ r.origin # Absent
    BY <1>2, OriginCheck
  <2> QED BY <2>1, <2>2
<1> QED BY <1>1, <1>2 DEF Lets

\* One that is not is answered: a preflight as PreflightReply says, any other
\* with the reason.
LEMMA ProcessStops ==
  ASSUME NEW p, NEW r, NEW h, ~Lets(p, r)
  PROVE  LET q == ProcessRequest(p, r, h)
             o == ValidateOrigin(p, r.origin) IN
         /\ q.is = "reply" /\ DOMAIN q.of = ReplyFields
         /\ q.of.status \in {204, 403} /\ q.of.acao \in Signs /\ q.of.creds = 0
         /\ q.of.allow = {}
         /\ r.method # "OPTIONS" => q.of.why # Absent
         /\ o.is = "err" => q.of.status = 403
         /\ o.is = "ok" /\ r.method = "OPTIONS" => q.of = ProcessPreflightRequest(p, r, o.of)
<1> DEFINE o == ValidateOrigin(p, r.origin)
           q == ProcessRequest(p, r, h)
<1>0. /\ o.is \in {"err", "ok"} /\ (o.is = "err" => o.of # Absent)
      /\ o.is = "ok" => o.of \in Origins \cup {Wildcard}
      /\ <<>> \in Signs
  BY OriginCheck, EmptySeq DEF Lets, Signs
<1>1. CASE o.is = "err"
  <2>1. q.is = "reply" /\ q.of = Forbidden(o.of)
    BY <1>1 DEF ProcessRequest, Reply
  <2> QED BY <1>0, <1>1, <2>1, Refusal
<1>2. CASE o.is = "ok" /\ r.method = "OPTIONS"
  <2>1. q.is = "reply" /\ q.of = ProcessPreflightRequest(p, r, o.of)
    BY <1>2 DEF ProcessRequest, Reply
  <2> QED BY <1>0, <1>2, <2>1, PreflightReply
<1>3. CASE o.is = "ok" /\ r.method # "OPTIONS"
  <2>1. q.is = "reply" /\ q.of = Forbidden("DisallowedRequestMethod")
    BY <1>3 DEF Lets, ProcessRequest, ProcessSimpleRequest, Reply, Deny
  <2> QED BY <1>0, <1>3, <2>1, Refusal DEF Absent
<1> QED BY <1>0, <1>1, <1>2, <1>3

\* What a browser makes of the answer of a policy is what the policy says.
LEMMA PolicyTells ==
  ASSUME NEW p, NEW h, NEW w \in Wants
  PROVE  /\ ~Lets(p, Asked(w))
         /\ Grants(ProcessRequest(p, Asked(w), h).of, w) <=> Agrees(p, w)
<1> DEFINE r == Asked(w)
           o == ValidateOrigin(p, w.origin)
           m == ValidateRequestMethod(p, w.method)
           l == ValidateRequestHeaders(p, r.lists)
           out == ProcessRequest(p, r, h).of
<1>1. /\ w.origin # Absent /\ w.method \in Methods /\ w.headers \subseteq Headers
      /\ w.method \notin {Absent, "garbled"} /\ Absent \notin Origins
  BY HandlersAssumption
<1>2. /\ r.method = "OPTIONS" /\ r.origin = w.origin /\ r.ask = w.method
      /\ r.lists = IF w.headers = {} THEN {} ELSE {w.headers}
  BY DEF Asked
<1>3. ~Lets(p, r)
  BY <1>1, <1>2, LetsPermitted
<1>4. /\ o.is \in {"err", "ok"}
      /\ o.is = "ok" => o.of \in Origins \cup {Wildcard} /\ o.of \in {w.origin, Wildcard}
      /\ o.is = "ok" <=> w.origin \in Origins /\ (p.origins = {} \/ w.origin \in UNION p.origins)
  BY <1>1, OriginCheck
<1>5. CASE o.is = "err"
  <2>1. out.status = 403 BY <1>2, <1>3, <1>5, ProcessStops
  <2> QED BY <1>3, <1>4, <1>5, <2>1 DEF Grants, Agrees, Permits
<1>6. CASE o.is = "ok"
  <2>1. out = ProcessPreflightRequest(p, r, o.of)
    BY <1>2, <1>3, <1>6, ProcessStops
  <2>2. IF w.headers = {} THEN l.is = "none"
        ELSE IF p.headers = {} THEN l = Give(w.headers)
        ELSE IF w.headers \subseteq UNION p.headers THEN l = Give(UNION p.headers)
        ELSE l.is = "err"
    <3>1. CASE w.headers = {}
      BY <1>2, <3>1, HeadersCheck
    <3>2. CASE w.headers # {}
      <4>0. PICK lists : lists = r.lists
        OBVIOUS
      <4>1. lists # {} /\ UNION lists = w.headers
        BY <1>2, <3>2, <4>0
      <4>2. l = ValidateRequestHeaders(p, lists)
        BY <4>0
      <4>3. /\ p.headers = {} => l = Give(UNION lists)
            /\ p.headers # {} /\ UNION lists # {} /\ UNION lists \subseteq Headers =>
                 IF UNION lists \subseteq UNION p.headers
                 THEN l = Give(UNION p.headers) ELSE l.is = "err"
        BY <4>1, <4>2, HeadersCheck
      <4> HIDE DEF l, r
      <4> QED BY <1>1, <3>2, <4>1, <4>3
    <3> QED BY <3>1, <3>2
  <2>3. IF w.method \in p.methods THEN m = Give(p.methods) ELSE m.is = "err"
    BY <1>1, MethodCheck
  <2>4. CASE m.is = "err" \/ l.is = "err"
    <3>1. out.status = 403
      BY <1>2, <1>4, <1>6, <2>1, <2>4, PreflightReply
    <3>2. ~Agrees(p, w)
      BY <2>2, <2>3, <2>4 DEF Agrees, Permits, Give, Pass
    <3> QED BY <1>3, <3>1, <3>2 DEF Grants
  <2>5. CASE m.is # "err" /\ l.is # "err"
    <3>1. /\ out.status = 204 /\ out.acao = <<o.of>>
          /\ out.acam = Value(m) /\ out.acah = Value(l)
      BY <1>2, <1>4, <1>6, <2>1, <2>5, PreflightReply
    <3>2. w.method \in p.methods /\ Value(m) = {p.methods}
      BY <2>3, <2>5 DEF Value, Give
    <3>3. w.headers \subseteq UNION Value(l) /\ (p.headers = {} \/ w.headers \subseteq UNION p.headers)
      BY <2>2, <2>5 DEF Value, Give
    <3>4. Agrees(p, w)
      BY <1>4, <1>6, <3>2, <3>3 DEF Agrees, Permits
    <3>5. Grants(out, w)
      BY <1>4, <1>6, <3>1, <3>2, <3>3 DEF Grants
    <3> QED BY <1>3, <3>4, <3>5
  <2> QED BY <2>4, <2>5
<1> QED BY <1>3, <1>4, <1>5, <1>6

-----------------------------------------------------------------------------
(* Where a poll is. *)

\* The modifier whose turn it is, and the types a step needs.
LEMMA Turns ==
  ASSUME IInv, at # Parked
  PROVE  /\ at \in 0..Len(site.modifiers) /\ Len(site.modifiers) \in Nat
         /\ at > 0 => at \in Layers
         /\ reply = {} /\ (\A k \in Layers : k > at => Cleared(k))
         /\ (\A k \in taken : Lets(Policy(k), req)) /\ taken \subseteq CorsLayers
         /\ stage \notin {"setup", "misconfigured", "idle"}
BY DEF IInv, TypeOK, SiteOK, Fresh, Onward, Parked

\* In the route every modifier was passed.
LEMMA AllCleared ==
  ASSUME IInv, at = 0
  PROVE  (\A k \in Layers : Cleared(k)) /\ taken = CorsLayers
<1>1. \A k \in Layers : Cleared(k)
  BY Turns DEF Parked, IInv, SiteOK
<1> QED BY <1>1, Turns DEF Parked, Cleared, CorsLayers, Layers, Is

\* A preflight passes nothing but map_output.
LEMMA PreflightPasses ==
  ASSUME IInv, at # Parked, stage = "preflight", NEW w \in want
  PROVE  /\ w \in Wants /\ req = Asked(w) /\ req.method = "OPTIONS" /\ hdrs = NoHeaders
         /\ \A p : ~Lets(p, req)
         /\ \A k \in Layers : k > at => Is(k) = "map"
         /\ taken = {}
<1>1. w \in Wants /\ req = Asked(w) /\ hdrs = NoHeaders
  BY Turns DEF IInv, TypeOK, Browsing
<1>2. req.method = "OPTIONS"
  BY <1>1 DEF Asked
<1>3. \A p : ~Lets(p, req)
  BY <1>1, PolicyTells
<1>4. \A k \in Layers : k > at => Is(k) = "map"
  BY <1>2, <1>3, Turns DEF Cleared, IInv, SiteOK
<1>5. taken = {}
  BY <1>3, Turns
<1> QED BY <1>1, <1>2, <1>3, <1>4, <1>5

\* The modifier it comes to first is the one that answers it.
LEMMA FirstIsOutermost ==
  ASSUME IInv, at > 0, stage = "preflight", NEW w \in want, Is(at) # "map"
  PROVE  Outermost(at)
<1>1. at \in Layers /\ at # Parked /\ Layers = 1..Len(site.modifiers)
  BY Turns DEF Parked, IInv, SiteOK
<1>2. \A j \in Layers : Is(j) # "map" => j <= at
  BY <1>1, PreflightPasses DEF IInv, SiteOK
<1> QED BY <1>1, <1>2 DEF Outermost

\* A browser that was told to go ahead, by the one CORS there is, is let through
\* unless it asks with OPTIONS.
LEMMA GrantedPasses ==
  ASSUME IInv, stage = "actual", NEW w \in want, ~Simple(w), NEW k \in CorsLayers, CorsLayers = {k}
  PROVE  /\ req = Actual(w) /\ w.origin # Absent
         /\ ValidateOrigin(Policy(k), req.origin).is = "ok"
         /\ req.method # "OPTIONS" => Lets(Policy(k), req)
<1>1. w \in Wants /\ req = Actual(w) /\ Told(w, TRUE)
  BY DEF IInv, TypeOK, Browsing
<1>2. w.origin # Absent /\ req.origin = w.origin /\ req.method = w.method
  BY <1>1, HandlersAssumption DEF Actual
<1>3. k \in Layers /\ Is(k) = "cors"
  BY DEF CorsLayers, Layers, Is
<1>4. PICK j \in Layers : Outermost(j) /\ Is(j) = "cors" /\ Agrees(Policy(j), w)
  BY <1>1, <1>3 DEF Told
<1>5. j = k
  BY <1>4 DEF CorsLayers, Layers, Is
<1>6. Permits(Policy(k), req.origin, req.method)
  BY <1>2, <1>4, <1>5 DEF Agrees
<1>7. ValidateOrigin(Policy(k), req.origin).is = "ok"
  BY <1>6, OriginCheck DEF Permits
<1>8. req.method # "OPTIONS" => Lets(Policy(k), req)
  BY <1>2, <1>6, LetsPermitted
<1> QED BY <1>1, <1>2, <1>7, <1>8

\* There are finitely many policies around the route.
LEMMA LayersFinite ==
  ASSUME IInv, NEW S \in SUBSET CorsLayers
  PROVE  IsFiniteSet(S)
<1>1. Len(site.modifiers) \in Nat /\ S \in SUBSET (1..Len(site.modifiers))
  BY DEF IInv, SiteOK, Layers, CorsLayers
<1>2. IsFiniteSet(1..Len(site.modifiers))
  BY <1>1, FS_Interval
<1> QED BY <1>1, <1>2, FS_Subset

\* What the reply has of what the handler made.
LEMMA ReplyKeeps ==
  ASSUME NEW out, DOMAIN out = ReplyFields
  PROVE  /\ BeforeReply(out).acao = out.acao \o hdrs.acao
         /\ BeforeReply(out).status = out.status /\ BeforeReply(out).why = out.why
         /\ BeforeReply(out).acam = out.acam /\ BeforeReply(out).acah = out.acah
         /\ BeforeReply(out).allow = out.allow
BY DEF BeforeReply, ReplyFields

\* The poll goes on to the next modifier, or to the route.
LEMMA PassStep ==
  ASSUME IInv, at > 0, CallInner, NEW l \in Layers, l = at, Cleared(l)',
         UNCHANGED <<site, stage, want, req, route, pends, called, reply>>,
         taken' \in {taken, taken \cup {at}}, taken' \subseteq CorsLayers,
         Signing', stage = "preflight" => UNCHANGED hdrs
  PROVE  IInv'
<1>1. /\ at \in Layers /\ at \in 1..Len(site.modifiers) /\ at # Parked /\ at' = at - 1
      /\ Layers = 1..Len(site.modifiers) /\ Len(site.modifiers) \in Nat
  BY Turns DEF Parked, CallInner, IInv, SiteOK
<1>2. /\ reply = {} /\ (\A k \in Layers : k > at => Cleared(k))
      /\ \A k \in taken : Lets(Policy(k), req)
  BY <1>1, Turns
<1>3. \A k \in Layers : Cleared(k) => Cleared(k)'
  BY DEF Cleared, Is, Policy
<1>4. TypeOK'
  BY <1>1 DEF IInv, TypeOK, CorsLayers, Parked
<1>5. SiteOK' /\ Fresh' /\ Calls' /\ CalledOnce' /\ EachPolicySignsOnce' /\ GrantedIsServed'
  BY <1>1, <1>2, Turns DEF IInv, SiteOK, Layers, Is, Fresh, Calls, Endpoint, CalledOnce,
     EachPolicySignsOnce, GrantedIsServed
<1>6. Onward'
  <2>1. ASSUME NEW k \in Layers, k > at' PROVE Cleared(k)'
    <3>1. k = l \/ k > at
      BY <1>1, <2>1
    <3> QED BY <1>2, <1>3, <3>1
  <2>2. ASSUME NEW k \in taken' PROVE Lets(Policy(k), req)'
    <3>1. k = l \/ k \in taken
      OBVIOUS
    <3>2. Is(k)' = "cors"
      BY DEF CorsLayers, Is
    <3> QED BY <1>2, <3>1, <3>2 DEF Cleared, Policy
  <2>3. route.state # "init" => route.ep \in DOMAIN site.endpoints /\ Applies(Endpoint, req.method)
                                 /\ \A k \in Layers : Cleared(k)'
    BY <1>3 DEF IInv, Onward
  <2> QED BY <1>2, <2>1, <2>2, <2>3 DEF Onward, Layers, Endpoint
<1>7. Browsing'
  BY <1>2 DEF IInv, Browsing, Told, Outermost, Layers, Is, Policy
<1> QED BY <1>4, <1>5, <1>6, <1>7 DEF IInv

\* Some handler answers, and its reply is on its way.
LEMMA AnswerStep ==
  ASSUME IInv, at # Parked, NEW out, DOMAIN out = ReplyFields, out.acao \in Signs, Answer(out),
         UNCHANGED <<site, stage, want, req, route, pends, hdrs>>,
         taken \subseteq taken', taken' \subseteq CorsLayers,
         called' \in {0, 1},
         route.state = "init" => called' = 0, route.state = "action" => called' = 1,
         out.status = 200 => called' = 1, route.state # "init" /\ Endpoint.by = "cors" => called' = 0,
         req.origin # Absent /\ req.method # "OPTIONS" /\ out.why = Absent
           => out.acao = <<>> /\ taken = CorsLayers,
         stage = "preflight" => \A w \in want : Told(w, Grants(out, w)),
         stage = "actual" /\ Cardinality(CorsLayers) = 1 =>
           \A w \in want : Simple(w) \/ out.why = Absent
  PROVE  IInv'
<1>0. PICK r : r = BeforeReply(out)
  OBVIOUS
<1>1. reply' = {r} /\ at' = Parked
  BY <1>0 DEF Answer
<1>2. /\ r.acao = out.acao \o hdrs.acao
      /\ r.status = out.status /\ r.why = out.why /\ r.acam = out.acam /\ r.acah = out.acah
  BY <1>0, ReplyKeeps
<1>3. hdrs.acao \in Signs /\ Len(site.modifiers) \in Nat
  BY DEF IInv, Signing, Signs, SiteOK
<1>4. TypeOK'
  <2>1. Cardinality(reply') = 1
    BY <1>1, FS_Singleton
  <2>2. called' \in Nat /\ at' \in Parked..Len(site'.modifiers)
    BY <1>1, <1>3 DEF Parked
  <2> QED BY <2>1, <2>2 DEF IInv, TypeOK, CorsLayers
<1>5. SiteOK' /\ Fresh'
  BY Turns DEF IInv, SiteOK, Layers, Is, Fresh
<1>6. Onward'
  <2>1. \A k \in Layers : Cleared(k) => Cleared(k)'
    BY DEF Cleared, Is, Policy
  <2> QED BY <1>1, <2>1 DEF IInv, Onward, Layers, Endpoint
<1>7. Calls' /\ CalledOnce'
  BY <1>1, <1>2 DEF IInv, Calls, CalledOnce, Endpoint
<1>8. Signing' 
  BY <1>1 DEF IInv, Signing
<1>9. EachPolicySignsOnce'
  <2> SUFFICES ASSUME req.origin # Absent, req.method # "OPTIONS", r.why = Absent
               PROVE  Len(r.acao) = Cardinality(CorsLayers)
    BY <1>1 DEF EachPolicySignsOnce, CorsLayers
  <2>1. out.acao = <<>> /\ taken = CorsLayers
    BY <1>2
  <2>2. r.acao = hdrs.acao
    BY <1>2, <1>3, <2>1 DEF Signs
  <2>3. Len(hdrs.acao) = Cardinality(taken)
    BY Turns DEF IInv, Signing
  <2> QED BY <2>1, <2>2, <2>3
<1>10. GrantedIsServed'
  BY <1>1, <1>2 DEF GrantedIsServed, CorsLayers
<1>11. Browsing'
  <2>1. ASSUME stage = "preflight", NEW w \in want PROVE Told(w, Grants(r, w))
    <3>1. hdrs.acao = <<>>
      BY <2>1, PreflightPasses DEF NoHeaders
    <3>2. r.acao = out.acao
      BY <1>2, <3>1 DEF Signs
    <3>3. Grants(r, w) <=> Grants(out, w)
      BY <1>2, <3>2 DEF Grants
    <3>4. Told(w, Grants(out, w))
      BY <2>1
    <3> QED BY <3>3, <3>4 DEF Told
  <2>2. \A w, x : Told(w, x) => Told(w, x)'
    BY DEF Told, Outermost, Layers, Is, Policy
  <2>3. \A w \in want : stage = "preflight" => Told(w, Grants(r, w))'
    BY <2>1 DEF Told, Outermost, Layers, Is, Policy
  <2> QED BY <1>1, <2>2, <2>3 DEF IInv, Browsing
<1> QED BY <1>4, <1>5, <1>6, <1>7, <1>8, <1>9, <1>10, <1>11 DEF IInv

-----------------------------------------------------------------------------
(* The steps. *)

\* A request is sent: its handle is new.
LEMMA SendStep ==
  ASSUME IInv, stage \notin {"setup", "misconfigured"},
         NEW r, r.method \in Methods, NEW s \in {"any", "preflight", "actual"}, Send(r, s),
         want' \subseteq Wants, Cardinality(want') <= 1, \A v, w \in want' : v = w,
         s # "any" => want' # {},
         s = "preflight" => \A w \in want' : r = Asked(w),
         s = "actual" => \A w \in want' : r = Actual(w) /\ (Simple(w) \/ Told(w, TRUE))
  PROVE  IInv'
<1>1. /\ req' = r /\ stage' = s /\ at' = Len(site.modifiers) /\ taken' = {} /\ route' = NoRoute
      /\ pends' = 0 /\ called' = 0 /\ hdrs' = NoHeaders /\ reply' = {} /\ UNCHANGED site
  BY DEF Send, NewHandle
<1>2. Len(site.modifiers) \in Nat /\ Layers = 1..Len(site.modifiers) /\ Len(site.endpoints) \in Nat
  BY DEF IInv, SiteOK
<1>3. Cardinality({}) = 0
  BY FS_EmptySet
<1>4. TypeOK'
  BY <1>1, <1>2, <1>3, HandlersAssumption DEF TypeOK, CorsLayers, NoRoute, Parked
<1>5. SiteOK' /\ Fresh'
  BY <1>1 DEF IInv, SiteOK, Fresh, Layers, Is
<1>6. Onward' /\ Calls' /\ CalledOnce' /\ EachPolicySignsOnce' /\ GrantedIsServed'
  BY <1>1, <1>2 DEF Onward, Calls, CalledOnce, EachPolicySignsOnce, GrantedIsServed, NoRoute, Layers
<1>7. Signing'
  BY <1>1, <1>3, EmptySeq DEF Signing, NoHeaders
<1>8. Browsing'
  BY <1>1 DEF Browsing, Told, Outermost, Layers, Is, Policy
<1> QED BY <1>4, <1>5, <1>6, <1>7, <1>8 DEF IInv

\* A client that is not a browser may send anything.
LEMMA SendAnyStep == IInv /\ SendAny => IInv'
<1> SUFFICES ASSUME IInv, SendAny PROVE IInv'
  OBVIOUS
<1>1. PICK r \in Requests : Send(r, "any")
  BY DEF SendAny
<1>2. r.method \in Methods
  BY HandlersAssumption
<1>3. stage = "idle"
  BY DEF SendAny
<1>4. want' \subseteq Wants /\ Cardinality(want') <= 1 /\ \A v, w \in want' : v = w
  BY DEF SendAny, IInv, TypeOK, Browsing
<1>5. stage \notin {"setup", "misconfigured"}
  BY <1>3
<1> QED BY <1>1, <1>2, <1>4, <1>5, SendStep

\* A browser asks for leave,
LEMMA SendPreflightStep == IInv /\ SendPreflight => IInv'
<1> SUFFICES ASSUME IInv, SendPreflight PROVE IInv'
  OBVIOUS
<1>1. PICK w \in Wants : want' = {w} /\ Send(Asked(w), "preflight")
  BY DEF SendPreflight, Asked
<1>2. PICK r : r = Asked(w)
  OBVIOUS
<1>3. r.method \in Methods
  BY <1>2, HandlersAssumption DEF Asked
<1>4. /\ want' \subseteq Wants /\ Cardinality(want') <= 1 /\ want' # {}
      /\ \A v, u \in want' : v = u
      /\ \A v \in want' : r = Asked(v)
  <2>1. Cardinality({w}) = 1
    BY FS_Singleton
  <2> QED BY <1>1, <1>2, <2>1
<1>5. stage \notin {"setup", "misconfigured"} /\ Send(r, "preflight")
  BY <1>1, <1>2 DEF SendPreflight
<1> QED BY <1>3, <1>4, <1>5, SendStep

\* sends what needs none,
LEMMA SendSimpleStep == IInv /\ SendSimple => IInv'
<1> SUFFICES ASSUME IInv, SendSimple PROVE IInv'
  OBVIOUS
<1>1. PICK w \in Wants : Simple(w) /\ want' = {w} /\ Send(Actual(w), "actual")
  BY DEF SendSimple
<1>2. Actual(w).method \in Methods
  BY HandlersAssumption DEF Actual
<1>3. Cardinality(want') = 1
  BY <1>1, FS_Singleton
<1> QED BY <1>1, <1>2, <1>3, SendStep DEF SendSimple

\* or what it was given leave for.
LEMMA SendGrantedStep == IInv /\ SendGranted => IInv'
<1> SUFFICES ASSUME IInv, SendGranted PROVE IInv'
  OBVIOUS
<1>1. PICK w \in want : Send(Actual(w), "actual") /\ stage = "granted" /\ UNCHANGED want
  BY DEF SendGranted
<1>2. w \in Wants /\ want = {w} /\ Told(w, TRUE)
  BY <1>1 DEF IInv, TypeOK, Browsing
<1>3. Actual(w).method \in Methods
  BY <1>2, HandlersAssumption DEF Actual
<1> QED BY <1>1, <1>2, <1>3, SendStep DEF IInv, TypeOK

\* The browser reads the answer.
LEMMA DecideStep == IInv /\ Decide => IInv'
<1> SUFFICES ASSUME IInv, Decide PROVE IInv'
  OBVIOUS
<1>1. PICK r \in reply, w \in want : stage' = IF Grants(r, w) THEN "granted" ELSE "denied"
  BY DEF Decide
<1>2. stage = "preflight" /\ UNCHANGED <<site, want, req, at, taken, route, pends, called, hdrs, reply>>
  BY DEF Decide
<1>3. want = {w} /\ Told(w, stage' = "granted")
  <2>1. want = {w} /\ Told(w, Grants(r, w))
    BY <1>2 DEF IInv, Browsing
  <2>2. (stage' = "granted") <=> Grants(r, w)
    BY <1>1
  <2> QED BY <2>1, <2>2 DEF Told
<1>4. TypeOK' /\ SiteOK' /\ Fresh'
  BY <1>1, <1>2 DEF IInv, TypeOK, SiteOK, Fresh, CorsLayers, Layers, Is
<1>6. Onward' /\ Calls' /\ Signing' /\ CalledOnce'
  BY <1>2 DEF IInv, Onward, Calls, Signing, CalledOnce, Layers, Is, Policy, Cleared, Endpoint
<1>7. EachPolicySignsOnce' /\ GrantedIsServed'
  BY <1>1, <1>2 DEF IInv, EachPolicySignsOnce, GrantedIsServed, CorsLayers
<1>5. Browsing'
  BY <1>1, <1>2, <1>3 DEF IInv, Browsing, Told, Outermost, Layers, Is, Policy
<1> QED BY <1>4, <1>5, <1>6, <1>7 DEF IInv

\* Waiting, or polling again from the outermost modifier, changes nothing else.
LEMMA TurnStep ==
  ASSUME IInv, UNCHANGED <<site, stage, want, req, taken, route, called, hdrs, reply>>,
         at' \in {Parked, Len(site.modifiers)}, pends' \in 0..MaxPends,
         reply = {}, stage \notin {"setup", "misconfigured", "idle"}
  PROVE  IInv'
<1>1. Len(site.modifiers) \in Nat /\ Layers = 1..Len(site.modifiers)
  BY DEF IInv, SiteOK
<1>2. TypeOK'
  BY <1>1 DEF IInv, TypeOK, CorsLayers, Parked
<1>3. SiteOK' /\ Fresh' /\ Onward' /\ Calls' /\ Signing' /\ CalledOnce'
      /\ EachPolicySignsOnce' /\ GrantedIsServed'
  BY <1>1 DEF IInv, SiteOK, Fresh, Onward, Calls, Signing, CalledOnce,
     EachPolicySignsOnce, GrantedIsServed, CorsLayers, Layers, Is, Policy, Cleared, Endpoint
<1>4. Browsing'
  BY DEF IInv, Browsing, Told, Outermost, Layers, Is, Policy
<1> QED BY <1>2, <1>3, <1>4 DEF IInv

\* A notified future is polled again, from the outermost modifier.
LEMMA PollAgainStep == IInv /\ PollAgain => IInv'
BY TurnStep DEF PollAgain, Replied, IInv, TypeOK

\* map_output lets everything through.
LEMMA PollMapOutputStep == IInv /\ PollMapOutput => IInv'
<1> SUFFICES ASSUME IInv, PollMapOutput PROVE IInv'
  OBVIOUS
<1>1. /\ at > 0 /\ Is(at) = "map" /\ CallInner
      /\ UNCHANGED <<site, stage, want, req, taken, route, pends, called, hdrs, reply>>
  BY DEF PollMapOutput, Turn, Is
<1>2. PICK l \in Layers : l = at
  BY <1>1, Turns DEF Parked
<1>3. Cleared(l)'
  BY <1>1, <1>2 DEF Cleared, Is
<1>4. Signing' /\ taken' \subseteq CorsLayers
  BY <1>1 DEF IInv, Signing, TypeOK
<1> QED BY <1>1, <1>2, <1>3, <1>4, PassStep

\* default_options answers OPTIONS, and a preflight with no leave.
LEMMA PollDefaultOptionsStep == IInv /\ PollDefaultOptions => IInv'
<1> SUFFICES ASSUME IInv, PollDefaultOptions PROVE IInv'
  OBVIOUS
<1>1. /\ at > 0 /\ at # Parked /\ Is(at) = "options"
      /\ UNCHANGED <<site, stage, want, req, taken, route, pends, called, hdrs>>
  BY DEF PollDefaultOptions, Turn, Is, Parked
<1>2. PICK l \in Layers : l = at
  BY <1>1, Turns
<1>3. taken \subseteq CorsLayers
  BY DEF IInv, TypeOK
<1>4. CASE req.method = "OPTIONS"
  <2>1. PICK value : Answer([Response(204) EXCEPT !.allow = {value}])
    BY <1>4 DEF PollDefaultOptions
  <2> DEFINE out == [Response(204) EXCEPT !.allow = {value}]
  <2>2. /\ DOMAIN out = ReplyFields /\ out.status = 204 /\ out.acao = <<>> /\ out.why = Absent
    BY DEF Response, ReplyFields
  <2>4. Answer(out)
    BY <2>1
  <2> HIDE DEF out
  <2>3. out.acao \in Signs
    BY <2>2, EmptySeq DEF Signs
  <2>5. called = 0 /\ route.state = "init"
    <3>1. ~Cleared(l)
      BY <1>1, <1>2, <1>4 DEF Cleared
    <3> QED BY <1>2, <3>1 DEF IInv, Onward, Calls, TypeOK
  <2>6. ASSUME stage = "preflight", NEW w \in want PROVE Told(w, Grants(out, w))
    <3>1. ~Grants(out, w)
      <4>1. <<>> # <<w.origin>> /\ <<>> # <<Wildcard>>
        OBVIOUS
      <4> QED BY <2>2, <4>1 DEF Grants
    <3>2. Outermost(at)
      BY <1>1, <2>6, FirstIsOutermost
    <3> QED BY <1>1, <1>2, <3>1, <3>2 DEF Told
  <2> QED BY <1>1, <1>3, <1>4, <2>2, <2>3, <2>4, <2>5, <2>6, AnswerStep
<1>5. CASE req.method # "OPTIONS"
  <2>1. CallInner /\ UNCHANGED reply
    BY <1>5 DEF PollDefaultOptions
  <2>2. Cleared(l)'
    BY <1>1, <1>2, <1>5 DEF Cleared, Is
  <2>3. Signing'
    BY <1>1, <2>1 DEF IInv, Signing
  <2> QED BY <1>1, <1>2, <1>3, <2>1, <2>2, <2>3, PassStep
<1> QED BY <1>4, <1>5

\* A CORS that has decided once does not decide again; the first time it lets
\* the request through and signs, or answers it.
LEMMA PollCorsStep == IInv /\ PollCors => IInv'
<1> SUFFICES ASSUME IInv, PollCors PROVE IInv'
  OBVIOUS
<1>1. /\ at > 0 /\ at # Parked /\ Is(at) = "cors" /\ taken' = taken \cup {at}
      /\ UNCHANGED <<site, stage, want, req, route, pends, called>>
  BY DEF PollCors, Turn, Is, Parked
<1>2. PICK l \in Layers : l = at
  BY <1>1, Turns
<1>3. /\ reply = {} /\ (\A k \in taken : Lets(Policy(k), req))
      /\ taken \subseteq CorsLayers /\ l \in CorsLayers
  BY <1>1, <1>2, Turns DEF CorsLayers, Is, Layers
<1>4. taken' \subseteq CorsLayers
  BY <1>1, <1>2, <1>3
<1> DEFINE q == ProcessRequest(Policy(l), req, hdrs)
<1>5. CASE at \in taken
  <2>1. CallInner /\ UNCHANGED <<hdrs, reply>> /\ taken' = taken
    BY <1>1, <1>5 DEF PollCors
  <2>2. Cleared(l)'
    BY <1>1, <1>2, <1>3, <1>5, <2>1 DEF Cleared, Is, Policy
  <2>3. Signing'
    BY <1>1, <2>1 DEF IInv, Signing
  <2> QED BY <1>1, <1>2, <1>4, <2>1, <2>2, <2>3, PassStep
<1>6. CASE at \notin taken /\ Lets(Policy(l), req)
  <2>1. /\ q.is = "next" /\ (req.origin = Absent => q.of = hdrs)
        /\ req.origin # Absent => \E o \in Origins \cup {Wildcard} :
             q.of = SignedBy(Policy(l), hdrs, o)
    BY <1>6, ProcessLets
  <2>2. CallInner /\ hdrs' = q.of /\ UNCHANGED reply
    BY <1>2, <1>6, <2>1 DEF PollCors, Policy
  <2> HIDE DEF q
  <2>3. Cleared(l)'
    BY <1>1, <1>2, <1>6 DEF Cleared, Is, Policy
  <2>4. Signing'
    <3>1. hdrs.acao \in Seq(Origins \cup {Wildcard}) /\ hdrs.creds \in Nat
      BY DEF IInv, Signing
    <3>2. CASE req.origin = Absent
      BY <1>1, <2>1, <2>2, <3>1, <3>2 DEF Signing
    <3>3. CASE req.origin # Absent
      <4>1. PICK o \in Origins \cup {Wildcard} :
              hdrs' = SignedBy(Policy(l), hdrs, o)
        BY <2>1, <2>2, <3>3
      <4>2. /\ hdrs'.acao \in Seq(Origins \cup {Wildcard}) /\ hdrs'.creds \in Nat
            /\ Len(hdrs'.acao) = Len(hdrs.acao) + 1
        BY <3>1, <4>1, AppendProperties DEF SignedBy
      <4>3. Cardinality(taken') = Cardinality(taken) + 1
        <5>1. IsFiniteSet(taken)
          BY <1>3, LayersFinite
        <5> QED BY <1>1, <1>6, <5>1, FS_AddElement
      <4>4. req.method # "OPTIONS" => Len(hdrs.acao) = Cardinality(taken)
        BY <1>3, <3>3 DEF IInv, Signing
      <4> QED BY <1>1, <1>3, <2>2, <4>2, <4>3, <4>4 DEF Signing
    <3> QED BY <3>2, <3>3
  <2>5. stage = "preflight" => UNCHANGED hdrs
    <3> SUFFICES ASSUME stage = "preflight" PROVE UNCHANGED hdrs
      OBVIOUS
    <3>1. PICK w \in want : TRUE
      BY DEF IInv, Browsing
    <3> QED BY <1>1, <1>6, <3>1, PreflightPasses
  <2> QED BY <1>1, <1>2, <1>4, <2>2, <2>3, <2>4, <2>5, PassStep
<1>7. CASE at \notin taken /\ ~Lets(Policy(l), req)
  <2> DEFINE out == q.of
             o == ValidateOrigin(Policy(l), req.origin)
  <2>1. /\ q.is = "reply" /\ DOMAIN out = ReplyFields
        /\ out.status \in {204, 403} /\ out.acao \in Signs
        /\ req.method # "OPTIONS" => out.why # Absent
        /\ o.is = "ok" /\ req.method = "OPTIONS" => out = ProcessPreflightRequest(Policy(l), req, o.of)
    BY <1>7, ProcessStops
  <2>2. Answer(out) /\ UNCHANGED hdrs
    BY <1>2, <1>7, <2>1 DEF PollCors, Policy
  <2>3. called = 0 /\ route.state = "init"
    <3>1. ~Cleared(l)
      BY <1>1, <1>2, <1>7 DEF Cleared
    <3> QED BY <1>2, <3>1 DEF IInv, Onward, Calls, TypeOK
  <2>4. ASSUME stage = "preflight", NEW w \in want PROVE Told(w, Grants(out, w))
    <3>1. w \in Wants /\ req = Asked(w)
      BY <1>1, <2>4, PreflightPasses
    <3>2. Grants(out, w) <=> Agrees(Policy(l), w)
      BY <3>1, PolicyTells
    <3>3. Outermost(l)
      BY <1>1, <1>2, <2>4, FirstIsOutermost
    <3> HIDE DEF out
    <3> QED BY <1>1, <1>2, <3>2, <3>3 DEF Told
  <2>5. ASSUME stage = "actual", Cardinality(CorsLayers) = 1, NEW w \in want, ~Simple(w)
        PROVE  out.why = Absent
    <3>1. CorsLayers = {l}
      <4>1. IsFiniteSet(CorsLayers)
        BY LayersFinite
      <4> QED BY <1>3, <2>5, <4>1, FS_Singleton
    <3>2. /\ req = Actual(w) /\ o.is = "ok" /\ req.method = "OPTIONS"
      BY <1>3, <1>7, <2>5, <3>1, GrantedPasses
    <3>3. out = ProcessPreflightRequest(Policy(l), req, o.of) /\ o.of \in Origins \cup {Wildcard}
      BY <2>1, <3>2, OriginCheck
    <3>4. req.ask = Absent /\ req.lists = {}
      BY <3>2 DEF Actual
    <3>5. /\ ValidateRequestMethod(Policy(l), req.ask).is = "none"
          /\ ValidateRequestHeaders(Policy(l), req.lists).is = "none"
      BY <3>4, MethodCheck, HeadersCheck
    <3> QED BY <3>3, <3>5, PreflightReply
  <2> HIDE DEF out, o
  <2> QED BY <1>1, <1>4, <2>1, <2>2, <2>3, <2>4, <2>5, AnswerStep
<1> QED BY <1>2, <1>5, <1>6, <1>7

\* The route: its parameters are extracted and one of its endpoints is chosen.
LEMMA RouteAnswers ==
  ASSUME IInv, at = 0, NEW out, DOMAIN out = ReplyFields, out.acao \in Signs, Answer(out),
         UNCHANGED <<site, stage, want, req, taken, route, pends, hdrs>>,
         called' \in {0, 1},
         route.state = "init" => called' = 0, route.state = "action" => called' = 1,
         out.status = 200 => called' = 1, route.state # "init" /\ Endpoint.by = "cors" => called' = 0,
         req.method # "OPTIONS" => out.why = Absent /\ out.acao = <<>>
  PROVE  IInv'
<1>1. at # Parked /\ (\A k \in Layers : Cleared(k)) /\ taken = CorsLayers
  BY AllCleared DEF Parked
<1>2. ASSUME stage = "preflight", NEW w \in want PROVE Told(w, Grants(out, w))
  <2>1. \A k \in Layers : k > at
    BY DEF IInv, SiteOK
  <2> QED BY <1>1, <1>2, <2>1, PreflightPasses DEF Told
<1>3. ASSUME stage = "actual", Cardinality(CorsLayers) = 1, NEW w \in want, ~Simple(w)
      PROVE  out.why = Absent
  <2>1. PICK k : CorsLayers = {k}
    BY <1>3, LayersFinite, FS_Singleton
  <2>2. k \in CorsLayers
    BY <2>1
  <2>3. ValidateOrigin(Policy(k), req.origin).is = "ok"
    BY <1>3, <2>1, <2>2, GrantedPasses
  <2>4. Lets(Policy(k), req)
    BY <1>1, <2>2 DEF Cleared, CorsLayers, Layers, Is
  <2>5. req.method # "OPTIONS"
    BY <2>3, <2>4 DEF Lets
  <2> QED BY <2>5
<1> QED BY <1>1, <1>2, <1>3, AnswerStep

\* The replies of the route itself
LEMMA RouteReplies ==
  ASSUME NEW status
  PROVE  /\ DOMAIN Response(status) = ReplyFields /\ Response(status).acao \in Signs
         /\ Response(status).status = status
         /\ Response(status).why = Absent /\ Response(status).acao = <<>>
         /\ Response(status).allow = {}
<1>1. <<>> \in Signs
  BY EmptySeq DEF Signs
<1> QED BY <1>1, PlainReply

\* It answers itself if there is no such endpoint, and goes on with the chosen one.
LEMMA ApplyStep == IInv /\ Apply => IInv'
<1> SUFFICES ASSUME IInv, Apply PROVE IInv'
  OBVIOUS
<1>1. /\ at = 0 /\ route.state = "init"
      /\ UNCHANGED <<site, stage, want, req, taken, pends, called, hdrs>>
  BY DEF Apply
<1>2. called = 0
  BY <1>1 DEF IInv, Calls
<1>3. ASSUME NEW status \in ErrorStatuses, Answer(Response(status)), UNCHANGED route
      PROVE  IInv'
  <2>1. PICK out : out = Response(status)
    OBVIOUS
  <2>2. /\ DOMAIN out = ReplyFields /\ out.acao \in Signs /\ out.status = status
        /\ out.why = Absent /\ out.acao = <<>> /\ Answer(out)
    BY <1>3, <2>1, RouteReplies
  <2>3. out.status # 200
    BY <2>2 DEF ErrorStatuses
  <2> QED BY <1>1, <1>2, <1>3, <2>2, <2>3, RouteAnswers
<1>4. ASSUME NEW i \in Chosen(site.endpoints, req.method),
             route' = [state |-> "extract", ep |-> i], UNCHANGED <<at, reply>>
      PROVE  IInv'
  <2>1. i \in DOMAIN site.endpoints /\ Applies(site.endpoints[i], req.method)
    BY DEF Chosen
  <2>2. TypeOK'
    BY <1>1, <1>4, <2>1 DEF IInv, TypeOK, SiteOK, CorsLayers
  <2>3. reply = {} /\ stage \notin {"setup", "misconfigured", "idle"}
        /\ \A k \in Layers : Cleared(k)
    BY <1>1, Turns, AllCleared DEF Parked
  <2>4. Onward' /\ Calls'
    BY <1>1, <1>2, <1>4, <2>1, <2>3 DEF IInv, Onward, Calls, Endpoint, Layers, Is, Policy, Cleared
  <2>5. SiteOK' /\ Fresh' /\ Signing' /\ CalledOnce' /\ EachPolicySignsOnce' /\ GrantedIsServed'
    BY <1>1, <1>4, <2>3 DEF IInv, SiteOK, Fresh, Signing, CalledOnce, EachPolicySignsOnce,
       GrantedIsServed, CorsLayers, Layers, Is
  <2>6. Browsing'
    BY <1>1, <1>4 DEF IInv, Browsing, Told, Outermost, Layers, Is, Policy
  <2> QED BY <2>2, <2>4, <2>5, <2>6 DEF IInv
<1> QED BY <1>3, <1>4 DEF Apply, MethodNotAllowed, AnswerError, ErrorStatuses

\* The CORS endpoint answers OPTIONS requests.
LEMMA PollCorsOfChainStep == IInv /\ PollCorsOfChain => IInv'
<1> SUFFICES ASSUME IInv, PollCorsOfChain PROVE IInv'
  OBVIOUS
<1> DEFINE p == Endpoint.policy
           o == ValidateOrigin(p, req.origin)
<1>0. PICK out : out = PollCorsEndpoint(p, req)
  OBVIOUS
<1>1. /\ at = 0 /\ route.state # "init" /\ Endpoint.by = "cors" /\ Answer(out)
      /\ UNCHANGED <<site, stage, want, req, taken, route, pends, called, hdrs>>
  BY <1>0 DEF PollCorsOfChain
<1>2. req.method = "OPTIONS"
  <2>1. Accepts(Allow(Endpoint), req.method)
    BY <1>1 DEF IInv, Onward, Applies
  <2>2. Allow(Endpoint) = CorsAllow
    BY <1>1 DEF Allow
  <2> QED BY <2>1, <2>2 DEF CorsAllow, Only, Accepts
<1>3. called = 0 /\ route.state # "action"
  BY <1>1, Turns DEF IInv, TypeOK, Calls, Parked
<1>4. DOMAIN out = ReplyFields /\ out.acao \in Signs /\ out.status \in {204, 403, 404}
  <2>0. o.is \in {"none", "err", "ok"} /\ (o.is = "ok" => o.of \in Origins \cup {Wildcard})
    BY OriginCheck
  <2>1. CASE o.is = "none"
    <3>1. out = Response(404) BY <1>0, <2>1 DEF PollCorsEndpoint
    <3> QED BY <3>1, RouteReplies
  <2>2. CASE o.is = "err"
    <3>1. out = Forbidden(o.of) BY <1>0, <2>2 DEF PollCorsEndpoint
    <3>2. <<>> \in Signs BY EmptySeq DEF Signs
    <3> QED BY <3>1, <3>2, Refusal
  <2>3. CASE o.is = "ok"
    <3>1. out = ProcessPreflightRequest(p, req, o.of) BY <1>0, <2>3 DEF PollCorsEndpoint
    <3> QED BY <2>0, <2>3, <3>1, PreflightReply
  <2> QED BY <2>0, <2>1, <2>2, <2>3
<1> HIDE DEF p, o
<1> QED BY <1>1, <1>2, <1>3, <1>4, RouteAnswers

\* The function is called when its extractors are through, and makes a reply,
LEMMA PollExtractStep == IInv /\ PollExtract => IInv'
<1> SUFFICES ASSUME IInv, PollExtract PROVE IInv'
  OBVIOUS
<1>1. /\ at = 0 /\ at # Parked /\ route.state = "extract" /\ Endpoint.by # "cors"
      /\ UNCHANGED <<site, stage, want, req, taken, hdrs>>
  BY DEF PollExtract, Parked
<1>2. called = 0 /\ reply = {} /\ stage \notin {"setup", "misconfigured", "idle"}
  BY <1>1, Turns DEF IInv, Calls
<1>3. CASE pends < MaxPends /\ Park /\ UNCHANGED <<route, called, reply>>
  <2>1. pends' \in 0..MaxPends /\ at' = Parked
    BY <1>3, HandlersAssumption DEF Park, IInv, TypeOK
  <2> QED BY <1>1, <1>2, <1>3, <2>1, TurnStep
<1>4. ASSUME NEW status \in {200} \cup ErrorStatuses, Answer(Response(status)),
             UNCHANGED <<route, pends>>, called' \in {0, 1}, status = 200 => called' = 1
      PROVE  IInv'
  <2>1. PICK out : out = Response(status)
    OBVIOUS
  <2>2. /\ DOMAIN out = ReplyFields /\ out.acao \in Signs /\ out.status = status
        /\ out.why = Absent /\ out.acao = <<>> /\ Answer(out)
    BY <1>4, <2>1, RouteReplies
  <2> QED BY <1>1, <1>2, <1>4, <2>2, RouteAnswers
<1>5. CASE /\ called' = called + 1 /\ route' = [route EXCEPT !.state = "action"]
           /\ UNCHANGED <<at, reply, pends>>
  <2>1. route'.state = "action" /\ route'.ep = route.ep /\ DOMAIN route' = {"state", "ep"}
    BY <1>5 DEF IInv, Calls
  <2>2. TypeOK'
    BY <1>1, <1>2, <1>5, <2>1 DEF IInv, TypeOK, CorsLayers
  <2>3. Onward'
    BY <1>1, <1>2, <1>5, <2>1 DEF IInv, Onward, Endpoint, Layers, Is, Policy, Cleared
  <2>4. Calls' /\ CalledOnce'
    BY <1>1, <1>2, <1>5, <2>1 DEF IInv, Calls, CalledOnce, Endpoint
  <2>5. SiteOK' /\ Fresh' /\ Signing' /\ EachPolicySignsOnce' /\ GrantedIsServed'
    BY <1>1, <1>2, <1>5 DEF IInv, SiteOK, Fresh, Signing, EachPolicySignsOnce,
       GrantedIsServed, CorsLayers, Layers, Is
  <2>6. Browsing'
    BY <1>1, <1>5 DEF IInv, Browsing, Told, Outermost, Layers, Is, Policy
  <2> QED BY <2>2, <2>3, <2>4, <2>5, <2>6 DEF IInv
<1> QED
  <2>1. \/ pends < MaxPends /\ Park /\ UNCHANGED <<route, called, reply>>
        \/ /\ \E status \in ErrorStatuses : Answer(Response(status))
           /\ UNCHANGED <<route, pends, called>>
        \/ /\ called' = called + 1 /\ UNCHANGED pends
           /\ route' = [route EXCEPT !.state = "action"] /\ UNCHANGED <<at, reply>>
        \/ /\ called' = called + 1 /\ UNCHANGED <<route, pends>>
           /\ \E status \in {200} \cup ErrorStatuses : Answer(Response(status))
    BY DEF PollExtract, AnswerResult, AnswerError
  <2>2. 200 \notin ErrorStatuses
    BY DEF ErrorStatuses
  <2> QED BY <1>2, <1>3, <1>4, <1>5, <2>1, <2>2

\* or a future that makes it.
LEMMA PollActionStep == IInv /\ PollAction => IInv'
<1> SUFFICES ASSUME IInv, PollAction PROVE IInv'
  OBVIOUS
<1>1. /\ at = 0 /\ at # Parked /\ route.state = "action"
      /\ UNCHANGED <<site, stage, want, req, taken, route, called, hdrs>>
  BY DEF PollAction, Parked
<1>2. /\ called = 1 /\ reply = {} /\ Endpoint.by # "cors"
      /\ stage \notin {"setup", "misconfigured", "idle"}
  BY <1>1, Turns DEF IInv, Calls
<1>3. CASE pends < MaxPends /\ Park /\ UNCHANGED reply
  <2>1. pends' \in 0..MaxPends /\ at' = Parked
    BY <1>3, HandlersAssumption DEF Park, IInv, TypeOK
  <2> QED BY <1>1, <1>2, <1>3, <2>1, TurnStep
<1>4. ASSUME NEW status, Answer(Response(status)), UNCHANGED pends
      PROVE  IInv'
  <2>1. PICK out : out = Response(status)
    OBVIOUS
  <2>2. /\ DOMAIN out = ReplyFields /\ out.acao \in Signs /\ out.status = status
        /\ out.why = Absent /\ out.acao = <<>> /\ Answer(out)
    BY <1>4, <2>1, RouteReplies
  <2> QED BY <1>1, <1>2, <1>4, <2>2, RouteAnswers
<1> QED BY <1>3, <1>4 DEF PollAction, AnswerResult, AnswerError

\* The application is built.
LEMMA ConfigureStep == IInv /\ Configure => IInv'
<1> SUFFICES ASSUME IInv, Configure PROVE IInv'
  OBVIOUS
<1>1. /\ stage = "setup" /\ stage' \in {"idle", "misconfigured"} /\ site \in Sites
      /\ UNCHANGED <<want, req, at, taken, route, pends, called, hdrs, reply>>
  BY DEF Configure, IInv, SiteOK
<1>2. /\ want = {} /\ at = Parked /\ taken = {} /\ route = NoRoute /\ called = 0 /\ reply = {}
  BY <1>1 DEF IInv, Fresh
<1>3. SiteOK'
  <2>1. CASE UNCHANGED site
    BY <1>1, <2>1 DEF IInv, SiteOK, Layers, Is
  <2>2. ASSUME NEW ms, NEW es, site' = [endpoints |-> es, modifiers |-> ms],
               ms = [i \in Layers |-> IF Is(i) = "cors" THEN BuildCors(site.modifiers[i])
                                      ELSE site.modifiers[i]],
               DOMAIN es = DOMAIN site.endpoints
        PROVE  SiteOK'
    <3>1. site \in [endpoints : Seq(EndpointConfigs), modifiers : Seq(ModifierConfigs)]
      BY <1>1, HandlersAssumption
    <3>2. site'.modifiers = ms /\ site'.endpoints = es
      BY <2>2
    <3>3. \A i \in Layers : site.modifiers[i] \in ModifierConfigs
      BY <3>1 DEF Layers
    <3>4. \A i \in Layers : ms[i].is = Is(i)
      BY <2>2, <3>3 DEF ModifierConfigs, Is, BuildCors
    <3>5. /\ DOMAIN ms = 1..Len(site.modifiers) /\ Len(site.modifiers) \in Nat
          /\ DOMAIN es = 1..Len(site.endpoints) /\ Len(site.endpoints) \in Nat
          /\ Layers = 1..Len(site.modifiers)
          /\ \A i \in Layers : Is(i) \in {"map", "options", "cors"}
      BY <2>2 DEF IInv, SiteOK
    <3>6. Len(ms) = Len(site.modifiers) /\ Len(es) = Len(site.endpoints)
      BY <3>5
    <3> QED BY <1>1, <3>2, <3>4, <3>5, <3>6 DEF SiteOK, Layers, Is
  <2> QED BY <2>1, <2>2 DEF Configure, Layers, Is
<1>4. TypeOK'
  <2>1. Len(site'.modifiers) \in Nat /\ Len(site'.endpoints) \in Nat
    BY <1>3 DEF SiteOK
  <2> QED BY <1>1, <1>2, <2>1 DEF IInv, TypeOK, NoRoute, Parked, CorsLayers
<1>5. Fresh' /\ Onward' /\ Calls' /\ Signing' /\ CalledOnce' /\ EachPolicySignsOnce'
      /\ GrantedIsServed' /\ Browsing'
  BY <1>1, <1>2 DEF IInv, Fresh, Onward, Calls, Signing, CalledOnce, EachPolicySignsOnce,
     GrantedIsServed, Browsing, NoRoute
<1> QED BY <1>3, <1>4, <1>5 DEF IInv

-----------------------------------------------------------------------------
(* The invariant and what follows from it. *)

\* It holds before the application is built,
LEMMA InitInv == Init => IInv
<1> SUFFICES ASSUME Init PROVE IInv
  OBVIOUS
<1>1. site \in [endpoints : Seq(EndpointConfigs), modifiers : Seq(ModifierConfigs)]
  BY HandlersAssumption DEF Init
<1>2. SiteOK
  <2>1. /\ site.modifiers \in Seq(ModifierConfigs) /\ site.endpoints \in Seq(EndpointConfigs)
    BY <1>1
  <2>2. \A i \in DOMAIN site.modifiers : site.modifiers[i] \in ModifierConfigs
    BY <2>1
  <2>3. \A i \in DOMAIN site.modifiers : site.modifiers[i].is \in {"map", "options", "cors"}
    BY <2>2 DEF ModifierConfigs
  <2> QED BY <2>1, <2>3 DEF Init, SiteOK, Layers, Is
<1>3. Cardinality({}) = 0
  BY FS_EmptySet
<1>4. TypeOK
  BY <1>2, <1>3, HandlersAssumption DEF Init, TypeOK, SiteOK, NoRequest, NoRoute, Parked
<1>5. Fresh /\ Onward /\ Calls /\ CalledOnce /\ EachPolicySignsOnce /\ GrantedIsServed /\ Browsing
  BY DEF Init, Fresh, Onward, Calls, CalledOnce, EachPolicySignsOnce, GrantedIsServed, Browsing, NoRoute
<1>6. Signing
  BY <1>3, EmptySeq DEF Init, Signing, NoHeaders
<1> QED BY <1>2, <1>4, <1>5, <1>6 DEF IInv

\* and every step keeps it.
LEMMA NextInv == IInv /\ [Next]_vars => IInv'
<1> SUFFICES ASSUME IInv, [Next]_vars PROVE IInv'
  OBVIOUS
<1>1. CASE Next
  BY <1>1, ConfigureStep, SendAnyStep, SendPreflightStep, SendSimpleStep, SendGrantedStep,
     DecideStep, PollAgainStep, PollCorsStep, PollDefaultOptionsStep, PollMapOutputStep,
     ApplyStep, PollCorsOfChainStep, PollExtractStep, PollActionStep DEF Next
<1>2. CASE UNCHANGED vars
  <2>0. /\ UNCHANGED <<site, stage, want, req, at>>
        /\ UNCHANGED <<taken, route, pends, called, hdrs, reply>>
    BY <1>2 DEF vars
  <2>1. TypeOK' /\ SiteOK' /\ Fresh'
    BY <2>0 DEF IInv, TypeOK, SiteOK, Fresh, CorsLayers, Layers, Is
  <2>4. CalledOnce' /\ EachPolicySignsOnce' /\ GrantedIsServed'
    BY <2>0 DEF IInv, CalledOnce, Endpoint, EachPolicySignsOnce, GrantedIsServed, CorsLayers,
       Layers, Is
  <2>2. Onward' /\ Calls' /\ Signing'
    BY <2>0 DEF IInv, Onward, Calls, Signing, Layers, Is, Policy, Cleared, Endpoint
  <2>3. Browsing'
    BY <2>0 DEF IInv, Browsing, Told, Outermost, Layers, Is, Policy
  <2> QED BY <2>1, <2>2, <2>3, <2>4 DEF IInv
<1> QED BY <1>1, <1>2

\* The inductive invariant holds at every turn of every poll of every exchange.
THEOREM Invariance == Spec => []IInv
BY InitInv, NextInv, PTL DEF Spec

\* The handler function is called at most once, however often the handle is
\* polled: once for a response it returned, and not at all where a modifier, the
\* route or a CORS endpoint answers.
THEOREM FunctionCalledOnce == Spec => []HandleInv
<1>1. IInv => HandleInv
  BY DEF IInv, HandleInv
<1> QED BY <1>1, Invariance, PTL

\* A request from another origin that one of the policies around the route does
\* not permit does not reach the function, nor does a preflight: whatever the
\* modifiers, their order and the number of polls.
THEOREM RefusedIsNotServed == Spec => []RefusedNotServed
<1>1. ASSUME IInv PROVE RefusedNotServed
  <2> SUFFICES ASSUME NEW k \in CorsLayers, req.origin # Absent, called # 0,
                      req.method = "OPTIONS" \/ ~Permits(Policy(k), req.origin, req.method)
               PROVE  FALSE
    BY DEF RefusedNotServed, Policy
  <2>1. route.state # "init"
    BY <1>1 DEF IInv, Calls
  <2>2. Lets(Policy(k), req)
    BY <1>1, <2>1 DEF IInv, Onward, Cleared, CorsLayers, Layers, Is
  <2> QED BY <2>2, LetsPermitted
<1> QED BY <1>1, Invariance, PTL

\* A browser takes the answer to its preflight for a leave exactly if the policy
\* of the outermost CORS permits what it asked for.
THEOREM PreflightTellsPolicy == Spec => []PreflightFaithful
<1>1. ASSUME IInv PROVE PreflightFaithful
  <2> SUFFICES ASSUME stage \in {"granted", "denied"}, NEW p \in Answering, NEW w \in want
               PROVE  stage = "granted" <=> Agrees(p, w)
    BY DEF PreflightFaithful, Agrees
  <2>1. PICK k \in CorsLayers : p = Policy(k) /\ \A j \in Layers : Is(j) # "map" => j <= k
    BY DEF Answering, Policy, Layers, Is
  <2>2. k \in Layers /\ Is(k) = "cors"
    BY DEF CorsLayers, Layers, Is
  <2>3. Told(w, stage = "granted")
    BY <1>1 DEF IInv, Browsing
  <2>4. PICK j \in Layers : Outermost(j) /\ (stage = "granted" <=> Is(j) = "cors" /\ Agrees(Policy(j), w))
    BY <2>2, <2>3 DEF Told
  <2>5. j = k
    <3>1. j <= k /\ k <= j
      BY <2>1, <2>2, <2>4 DEF Outermost
    <3>2. j \in 1..Len(site.modifiers) /\ k \in 1..Len(site.modifiers) /\ Len(site.modifiers) \in Nat
      BY <1>1, <2>2 DEF IInv, SiteOK
    <3> QED BY <3>1, <3>2
  <2> QED BY <2>1, <2>2, <2>4, <2>5
<1> QED BY <1>1, Invariance, PTL

\* What one policy gave leave for it does not refuse when it comes.
THEOREM LeaveIsHonoured == Spec => []GrantedIsServed
<1>1. IInv => GrantedIsServed
  BY DEF IInv
<1> QED BY <1>1, Invariance, PTL

\* Every policy that a request has passed signs its reply, once for however many
\* polls, and also the reply of an error.
THEOREM SignedOnce == Spec => []EachPolicySignsOnce
<1>1. IInv => EachPolicySignsOnce
  BY DEF IInv
<1> QED BY <1>1, Invariance, PTL

-----------------------------------------------------------------------------
(* The methods a handler is said to accept. *)

\* The methods that the first k modifiers make of those of the endpoints: the
\* ones that answer OPTIONS put it on the list, if there is one.
Listed(s, k) ==
  LET es == EndpointsAllow(s.endpoints) IN
  IF es.all \/ \A i \in 1..k : s.modifiers[i].is = "map" THEN es
  ELSE Only(es.of \cup {"OPTIONS"})

\* One modifier more does to them what Modify says.
LEMMA ListedBefore ==
  ASSUME NEW s, NEW n \in Nat, NEW j \in 0..n,
         \A i \in 1..n : s.modifiers[i].is \in {"map", "options", "cors"}
  PROVE  Listed(s, j) = IF j = 0 THEN EndpointsAllow(s.endpoints)
                        ELSE Modify(s.modifiers[j], Listed(s, j - 1))
<1> DEFINE es == EndpointsAllow(s.endpoints)
           Maps(k) == \A i \in 1..k : s.modifiers[i].is = "map"
<1>1. es = Every \/ \E S : es = Only(S)
  BY DEF EndpointsAllow
<1>2. es = Every => es.all
  BY DEF Every
<1>3. \A S : Only(S).all = FALSE /\ Only(S).of = S
  BY DEF Only
<1>4. \A k : Listed(s, k) = IF es.all \/ Maps(k) THEN es ELSE Only(es.of \cup {"OPTIONS"})
  BY DEF Listed
<1>5. CASE j = 0
  <2>1. Maps(0)
    OBVIOUS
  <2> QED BY <1>4, <1>5, <2>1
<1>6. CASE j # 0
  <2>1. j \in 1..n /\ j - 1 \in 0..n
    BY <1>6
  <2>2. Maps(j) <=> Maps(j - 1) /\ s.modifiers[j].is = "map"
    <3>1. 1..j = 1..(j - 1) \cup {j}
      BY <2>1
    <3> QED BY <3>1
  <2>3. \A a : Modify(s.modifiers[j], a) =
                 IF s.modifiers[j].is = "map" \/ a.all THEN a ELSE Only(a.of \cup {"OPTIONS"})
    BY <2>1 DEF Modify, MapModify, DefaultOptionsModify, CorsModify
  <2> HIDE DEF es, Maps
  <2>4. CASE es.all
    BY <1>4, <1>6, <2>2, <2>3, <2>4
  <2>5. CASE ~es.all /\ Maps(j - 1)
    BY <1>4, <1>6, <2>2, <2>3, <2>5
  <2>6. CASE ~es.all /\ ~Maps(j - 1)
    <3>1. Listed(s, j - 1) = Only(es.of \cup {"OPTIONS"}) /\ Listed(s, j) = Only(es.of \cup {"OPTIONS"})
      BY <1>4, <2>2, <2>6
    <3>2. Modify(s.modifiers[j], Only(es.of \cup {"OPTIONS"})) = Only(es.of \cup {"OPTIONS"})
      <4>1. (es.of \cup {"OPTIONS"}) \cup {"OPTIONS"} = es.of \cup {"OPTIONS"}
        OBVIOUS
      <4> QED BY <1>3, <2>3, <4>1
    <3> QED BY <1>6, <3>1, <3>2
  <2> QED BY <2>4, <2>5, <2>6
<1> QED BY <1>5, <1>6

\* A set of numbers has a least one.
LEMMA LeastOf ==
  ASSUME NEW T, T \subseteq Nat, T # {}
  PROVE  \E x \in T : \A y \in T : ~(y < x)
<1> DEFINE R == OpToRel(<, Nat)
<1>1. IsWellFoundedOn(R, Nat)
  BY NatLessThanWellFounded
<1>2. \A x, y \in Nat : y < x => <<y, x>> \in R
  BY DEF OpToRel
<1> HIDE DEF R
<1>3. PICK x \in T : \A y \in T : <<y, x>> \notin R
  BY <1>1, WFMin
<1> QED BY <1>2, <1>3

\* The methods through the modifiers are those.
LEMMA AllowedIsListed ==
  ASSUME NEW s, Len(s.modifiers) \in Nat, NEW k \in 0..Len(s.modifiers),
         \A i \in 1..Len(s.modifiers) : s.modifiers[i].is \in {"map", "options", "cors"}
  PROVE  AllowedAt(s, k) = Listed(s, k)
<1> DEFINE n == Len(s.modifiers)
           E(g, j) == IF j = 0 THEN EndpointsAllow(s.endpoints) ELSE Modify(s.modifiers[j], g[j - 1])
           P(g) == g = [j \in 0..n |-> E(g, j)]
           f == CHOOSE g : P(g)
           l == [j \in 0..n |-> Listed(s, j)]
<1>1. AllowedAt(s, k) = f[k]
  BY DEF AllowedAt
<1>2. P(f)
  <2>1. P(l)
    <3>1. ASSUME NEW j \in 0..n PROVE E(l, j) = l[j]
      <4>1. j # 0 => j - 1 \in 0..n
        OBVIOUS
      <4>2. Listed(s, j) = IF j = 0 THEN EndpointsAllow(s.endpoints)
                           ELSE Modify(s.modifiers[j], Listed(s, j - 1))
        BY ListedBefore
      <4>3. j # 0 => l[j - 1] = Listed(s, j - 1)
        BY <4>1
      <4> QED BY <4>2, <4>3
    <3> HIDE DEF E
    <3>2. l = [j \in 0..n |-> l[j]]
      OBVIOUS
    <3> HIDE DEF l
    <3> QED BY <3>1, <3>2
  <2> HIDE DEF P, l
  <2> QED BY <2>1
<1> HIDE DEF f
<1>3. \A j \in 0..n : f[j] = E(f, j)
  BY <1>2
<1>4. \A j \in 0..n : f[j] = Listed(s, j)
  <2> SUFFICES ASSUME NEW b \in 0..n, f[b] # Listed(s, b) PROVE FALSE
    OBVIOUS
  <2> DEFINE T == {j \in 0..n : f[j] # Listed(s, j)}
  <2>1. T \subseteq Nat /\ T # {}
    OBVIOUS
  <2>2. PICK x \in T : \A y \in T : ~(y < x)
    BY <2>1, LeastOf
  <2>3. x \in 0..n /\ f[x] # Listed(s, x)
    OBVIOUS
  <2>4. x # 0 => x - 1 \in 0..n /\ x - 1 < x
    BY <2>3
  <2>5. x # 0 => f[x - 1] = Listed(s, x - 1)
    BY <2>2, <2>4
  <2>6. f[x] = E(f, x)
    BY <1>3, <2>3
  <2>7. Listed(s, x) = IF x = 0 THEN EndpointsAllow(s.endpoints)
                       ELSE Modify(s.modifiers[x], Listed(s, x - 1))
    BY <2>3, ListedBefore
  <2> QED BY <2>3, <2>5, <2>6, <2>7
<1> QED BY <1>1, <1>4

\* What the endpoints accept together is what one of them accepts.
LEMMA AllowOfEndpoints ==
  ASSUME NEW es, NEW m
  PROVE  /\ Accepts(EndpointsAllow(es), m) <=> \E i \in DOMAIN es : Accepts(Allow(es[i]), m)
         /\ ~EndpointsAllow(es).all =>
              (m \in EndpointsAllow(es).of <=> \E i \in DOMAIN es : Accepts(Allow(es[i]), m))
<1>1. CASE \E i \in DOMAIN es : Allow(es[i]).all
  BY <1>1 DEF EndpointsAllow, Every, Accepts
<1>2. CASE ~\E i \in DOMAIN es : Allow(es[i]).all
  <2>1. EndpointsAllow(es) = Only(UNION {Allow(es[i]).of : i \in DOMAIN es})
    BY <1>2 DEF EndpointsAllow
  <2>2. ~EndpointsAllow(es).all /\ EndpointsAllow(es).of = UNION {Allow(es[i]).of : i \in DOMAIN es}
    BY <2>1 DEF Only
  <2>3. m \in EndpointsAllow(es).of <=> \E i \in DOMAIN es : m \in Allow(es[i]).of
    BY <2>2
  <2> QED BY <1>2, <2>2, <2>3 DEF Accepts
<1> QED BY <1>1, <1>2

\* An endpoint is chosen if they accept the method.
LEMMA OneIsChosen ==
  ASSUME NEW es, NEW l \in Nat, DOMAIN es = 1..l, NEW m, Chosen(es, m) = {}
  PROVE  ~Accepts(EndpointsAllow(es), m)
<1> SUFFICES ASSUME NEW i \in DOMAIN es, Applies(es[i], m) PROVE FALSE
  BY AllowOfEndpoints DEF Applies
<1> DEFINE T == {j \in DOMAIN es : Applies(es[j], m)}
<1>1. T \subseteq Nat
  OBVIOUS
<1>4. T # {}
  OBVIOUS
<1>2. PICK x \in T : \A y \in T : ~(y < x)
  BY <1>1, <1>4, LeastOf
<1>3. \A j \in 1..x-1 : ~Applies(es[j], m)
  <2> SUFFICES ASSUME NEW j \in 1..x-1 PROVE ~Applies(es[j], m)
    OBVIOUS
  <2>1. x \in 1..l
    OBVIOUS
  <2>2. j \in DOMAIN es /\ j < x
    BY <2>1
  <2> QED BY <1>2, <2>2
<1> QED BY <1>2, <1>3 DEF Chosen

\* A step that leaves the reply and what it says, or takes it away
LEMMA ListKept ==
  ASSUME ListsMethods, reply' = {} \/ UNCHANGED <<site, req, taken, reply>>
  PROVE  ListsMethods'
<1>1. CASE reply' = {}
  BY <1>1 DEF ListsMethods
<1>2. CASE UNCHANGED <<site, req, taken, reply>>
  BY <1>2 DEF ListsMethods, Layers, Is, Policy, Cleared
<1> QED BY <1>1, <1>2

\* The reply has the list of what the handler made.
LEMMA ListAnswered ==
  ASSUME NEW out, DOMAIN out = ReplyFields, Answer(out)
  PROVE  \E r : reply' = {r} /\ r.allow = out.allow
<1>1. PICK r : r = BeforeReply(out)
  OBVIOUS
<1>2. r.allow = out.allow
  BY <1>1, ReplyKeeps
<1>3. reply' = {r}
  BY <1>1 DEF Answer
<1> QED BY <1>2, <1>3

\* A reply that lists no methods
LEMMA ListFree ==
  ASSUME NEW out, DOMAIN out = ReplyFields, out.allow = {}, Answer(out)
  PROVE  ListsMethods'
<1>1. PICK r : reply' = {r} /\ r.allow = {}
  BY ListAnswered
<1> QED BY <1>1 DEF ListsMethods

\* The replies of the route, the function and the extractors are such replies.
LEMMA ListFreeStatus ==
  ASSUME NEW status, Answer(Response(status))
  PROVE  ListsMethods'
<1>1. PICK out : out = Response(status)
  OBVIOUS
<1>2. DOMAIN out = ReplyFields /\ out.allow = {} /\ Answer(out)
  BY <1>1, RouteReplies
<1> QED BY <1>2, ListFree

\* default_options says what it was told of the handler it wraps.
LEMMA ListOfDefaultOptions == ListInv /\ PollDefaultOptions => ListsMethods'
<1> SUFFICES ASSUME ListInv, PollDefaultOptions PROVE ListsMethods'
  OBVIOUS
<1>1. /\ at > 0 /\ at # Parked /\ Is(at) = "options" /\ IInv
      /\ UNCHANGED <<site, stage, want, req, taken, route, pends, called, hdrs>>
  BY DEF ListInv, PollDefaultOptions, Turn, Is, Parked
<1>2. at \in Layers
  BY <1>1, Turns
<1>3. CASE req.method = "OPTIONS"
  <2>1. PICK value : value = HeaderValue(AllowedAt(site, at))
    OBVIOUS
  <2> DEFINE out == [Response(204) EXCEPT !.allow = {value}]
  <2>2. Answer(out)
    BY <1>3, <2>1 DEF PollDefaultOptions
  <2>3. DOMAIN out = ReplyFields /\ out.allow = {value}
    BY DEF Response, ReplyFields
  <2> HIDE DEF out
  <2>5. PICK r : reply' = {r} /\ r.allow = {value}
    BY <2>2, <2>3, ListAnswered
  <2>6. \E k \in Layers : Is(k) = "options" /\ r.allow = {HeaderValue(AllowedAt(site, k))}
    BY <1>1, <1>2, <2>1, <2>5
  <2> QED BY <1>1, <2>5, <2>6 DEF ListsMethods, Layers, Is
<1>4. CASE req.method # "OPTIONS"
  BY <1>1, <1>4, ListKept DEF PollDefaultOptions, ListInv
<1> QED BY <1>3, <1>4

\* The answers of a policy list nothing.
LEMMA ListOfCors == ListInv /\ PollCors => ListsMethods'
<1> SUFFICES ASSUME ListInv, PollCors PROVE ListsMethods'
  OBVIOUS
<1> DEFINE p == site.modifiers[at].policy
           q == ProcessRequest(p, req, hdrs)
<1>1. at > 0 /\ at # Parked /\ reply = {} /\ ListsMethods
  BY Turns DEF ListInv, PollCors, Turn, Parked
<1>2. CASE at \in taken \/ q.is # "reply"
  <2>1. reply' = {}
    BY <1>1, <1>2 DEF PollCors
  <2> QED BY <1>1, <2>1, ListKept
<1>3. CASE at \notin taken /\ q.is = "reply"
  <2>1. ~Lets(p, req)
    BY <1>3, ProcessLets
  <2>2. DOMAIN q.of = ReplyFields /\ q.of.allow = {}
    BY <2>1, ProcessStops
  <2>3. Answer(q.of)
    BY <1>3 DEF PollCors
  <2> QED BY <2>2, <2>3, ListFree
<1> QED BY <1>2, <1>3

\* Nor do those of the endpoint made from it.
LEMMA ListOfCorsEndpoint == ListInv /\ PollCorsOfChain => ListsMethods'
<1> SUFFICES ASSUME ListInv, PollCorsOfChain PROVE ListsMethods'
  OBVIOUS
<1> DEFINE p == Endpoint.policy
           o == ValidateOrigin(p, req.origin)
<1>1. PICK out : out = PollCorsEndpoint(p, req)
  OBVIOUS
<1>2. o.is \in {"none", "err", "ok"} /\ (o.is = "ok" => o.of \in Origins \cup {Wildcard})
  BY OriginCheck
<1>3. DOMAIN out = ReplyFields /\ out.allow = {}
  <2>1. CASE o.is = "none"
    <3>1. out = Response(404) BY <1>1, <2>1 DEF PollCorsEndpoint
    <3> QED BY <3>1, RouteReplies
  <2>2. CASE o.is = "err"
    <3>1. out = Forbidden(o.of) BY <1>1, <2>2 DEF PollCorsEndpoint
    <3> QED BY <3>1, Refusal
  <2>3. CASE o.is = "ok"
    <3>1. out = ProcessPreflightRequest(p, req, o.of) BY <1>1, <2>3 DEF PollCorsEndpoint
    <3> QED BY <1>2, <2>3, <3>1, PreflightReply
  <2> QED BY <1>2, <2>1, <2>2, <2>3
<1>4. Answer(out)
  BY <1>1 DEF PollCorsOfChain
<1> QED BY <1>3, <1>4, ListFree

\* Nor do those of the route, for want of an endpoint or because its parameters
\* could not be extracted,
LEMMA ListOfRoute == ListInv /\ Apply => ListsMethods'
<1>1. ASSUME ListInv, Apply PROVE UNCHANGED <<site, req, taken>>
  BY <1>1 DEF Apply
<1>2. ASSUME Apply PROVE UNCHANGED reply \/ \E status : Answer(Response(status))
  BY <1>2 DEF Apply, MethodNotAllowed, AnswerError
<1> QED BY <1>1, <1>2, ListKept, ListFreeStatus DEF ListInv

\* or those of the extractors and the function.
LEMMA ListOfFunction == ListInv /\ (PollExtract \/ PollAction) => ListsMethods'
<1>1. ASSUME PollExtract \/ PollAction PROVE UNCHANGED <<site, req, taken>>
  BY <1>1 DEF PollExtract, PollAction
<1>2. ASSUME PollExtract \/ PollAction PROVE UNCHANGED reply \/ \E status : Answer(Response(status))
  BY <1>2 DEF PollExtract, PollAction, AnswerResult, AnswerError
<1> QED BY <1>1, <1>2, ListKept, ListFreeStatus DEF ListInv

\* Every step keeps what a reply lists true.
LEMMA ListStep == ListInv /\ [Next]_vars => ListInv'
<1> SUFFICES ASSUME ListInv, [Next]_vars PROVE ListInv'
  OBVIOUS
<1>0. IInv /\ ListsMethods /\ IInv'
  BY NextInv DEF ListInv
<1>1. CASE Configure
  <2>1. reply' = {}
    BY <1>0, <1>1 DEF Configure, IInv, Fresh
  <2> QED BY <1>0, <2>1, ListKept DEF ListInv
<1>2. CASE SendAny \/ SendPreflight \/ SendSimple \/ SendGranted
  <2>1. reply' = {}
    BY <1>2 DEF SendAny, SendPreflight, SendSimple, SendGranted, Send
  <2> QED BY <1>0, <2>1, ListKept DEF ListInv
<1>3. CASE Decide \/ PollAgain \/ PollMapOutput
  <2>1. UNCHANGED <<site, req, taken, reply>>
    BY <1>3 DEF Decide, PollAgain, PollMapOutput
  <2> QED BY <1>0, <2>1, ListKept DEF ListInv
<1>4. CASE PollCors
  BY <1>0, <1>4, ListOfCors DEF ListInv
<1>5. CASE PollDefaultOptions
  BY <1>0, <1>5, ListOfDefaultOptions DEF ListInv
<1>6. CASE Apply
  BY <1>0, <1>6, ListOfRoute DEF ListInv
<1>7. CASE PollCorsOfChain
  BY <1>0, <1>7, ListOfCorsEndpoint DEF ListInv
<1>8. CASE PollExtract \/ PollAction
  BY <1>0, <1>8, ListOfFunction DEF ListInv
<1>9. CASE UNCHANGED vars
  <2>1. UNCHANGED <<site, req, taken, reply>>
    BY <1>9 DEF vars
  <2> QED BY <1>0, <2>1, ListKept DEF ListInv
<1> QED
  BY <1>1, <1>2, <1>3, <1>4, <1>5, <1>6, <1>7, <1>8, <1>9 DEF Next

\* Where a reply lists methods, it does so for this reason.
LEMMA ListInvariance == Spec => []ListInv
<1>1. Init => ListInv
  BY InitInv DEF Init, ListInv, ListsMethods
<1> QED BY <1>1, ListStep, PTL DEF Spec

\* The Allow header lists, besides OPTIONS, the methods of the endpoints: for
\* every list of endpoints and of modifiers, and wherever default_options is.
THEOREM AllowHeaderIsExact == Spec => []AllowIsExact
<1>1. ASSUME ListInv PROVE AllowIsExact
  <2> DEFINE es == EndpointsAllow(site.endpoints)
  <2> SUFFICES ASSUME NEW r \in reply, r.allow # {}, NEW m \in Methods \cup AllOfThem,
                      m \in AllOfThem \/ ~es.all
               PROVE  m \in UNION r.allow <=>
                        m = "OPTIONS" \/ \E i \in DOMAIN site.endpoints : Accepts(Allow(site.endpoints[i]), m)
    BY DEF AllowIsExact
  <2>1. PICK k \in Layers : Is(k) = "options" /\ r.allow = {HeaderValue(AllowedAt(site, k))}
    BY <1>1 DEF ListInv, ListsMethods
  <2>2. AllowedAt(site, k) = Listed(site, k) /\ k \in 1..k
    <3>1. /\ Len(site.modifiers) \in Nat /\ k \in 1..Len(site.modifiers)
          /\ \A i \in 1..Len(site.modifiers) : site.modifiers[i].is \in {"map", "options", "cors"}
      BY <1>1 DEF ListInv, IInv, SiteOK, Layers, Is
    <3>2. k \in 0..Len(site.modifiers)
      BY <3>1
    <3> QED BY <3>1, <3>2, AllowedIsListed
  <2>3. Listed(site, k) = IF es.all THEN es ELSE Only(es.of \cup {"OPTIONS"})
    BY <2>1, <2>2 DEF Listed, Is
  <2>4. UNION r.allow = IF es.all THEN AllOfThem ELSE es.of \cup {"OPTIONS"}
    BY <2>1, <2>2, <2>3 DEF HeaderValue, Only
  <2>5. /\ Accepts(es, m) <=> \E i \in DOMAIN site.endpoints : Accepts(Allow(site.endpoints[i]), m)
        /\ ~es.all => (m \in es.of <=> \E i \in DOMAIN site.endpoints : Accepts(Allow(site.endpoints[i]), m))
    BY AllowOfEndpoints
  <2> HIDE DEF es
  <2>6. CASE es.all
    BY <2>4, <2>5, <2>6 DEF Accepts
  <2>7. CASE ~es.all
    BY <2>4, <2>5, <2>7
  <2> QED BY <2>6, <2>7
<1> QED BY <1>1, ListInvariance, PTL

\* What a handler says it accepts is what one of its endpoints is chosen for, with
\* any list of modifiers: a request that comes to the route finds an endpoint
\* exactly if its method is listed, except OPTIONS without an Origin, which CORS
\* lists and passes on.
THEOREM DispatchFollowsList == Spec => []ListMatchesDispatch
<1>1. ASSUME IInv PROVE ListMatchesDispatch
  <2> DEFINE n == Len(site.modifiers)
             es == EndpointsAllow(site.endpoints)
             m == req.method
  <2> SUFFICES ASSUME at = 0
               PROVE  \/ Accepts(AllowedAt(site, n), m) <=> Chosen(site.endpoints, m) # {}
                      \/ /\ Accepts(AllowedAt(site, n), m)
                         /\ m = "OPTIONS" /\ req.origin = Absent /\ CorsLayers # {}
    BY DEF ListMatchesDispatch
  <2>1. \A k \in Layers : Cleared(k)
    BY <1>1, AllCleared
  <2>2. /\ n \in Nat /\ n \in 0..n /\ Layers = 1..n
        /\ \A i \in 1..n : site.modifiers[i].is \in {"map", "options", "cors"}
        /\ Len(site.endpoints) \in Nat /\ DOMAIN site.endpoints = 1..Len(site.endpoints)
    BY <1>1 DEF IInv, SiteOK, Layers, Is
  <2>3. AllowedAt(site, n) = Listed(site, n)
    BY <2>2, AllowedIsListed
  <2>4. Accepts(es, m) <=> Chosen(site.endpoints, m) # {}
    <3>1. PICK l \in Nat : DOMAIN site.endpoints = 1..l
      BY <2>2
    <3>2. Chosen(site.endpoints, m) # {} => \E i \in DOMAIN site.endpoints : Accepts(Allow(site.endpoints[i]), m)
      BY DEF Chosen, Applies
    <3> QED BY <3>1, <3>2, OneIsChosen, AllowOfEndpoints
  <2>5. CASE Listed(site, n) = es
    BY <2>3, <2>4, <2>5
  <2>6. CASE Listed(site, n) # es
    <3>1. PICK k \in 1..n : site.modifiers[k].is # "map"
      BY <2>6 DEF Listed
    <3>2. Listed(site, n) = Only(es.of \cup {"OPTIONS"}) /\ ~es.all
      BY <2>6 DEF Listed
    <3>3. /\ Accepts(es, m) <=> m \in es.of
          /\ Accepts(Listed(site, n), m) <=> m \in es.of \/ m = "OPTIONS"
      BY <3>2 DEF Accepts, Only
    <3>4. CASE m # "OPTIONS"
      BY <2>3, <2>4, <3>3, <3>4
    <3>5. CASE m = "OPTIONS"
      <4>1. Is(k) = "cors" /\ Lets(Policy(k), req) /\ k \in Layers
        BY <2>1, <2>2, <3>1, <3>5 DEF Cleared, Is
      <4>2. req.origin = Absent
        BY <3>5, <4>1, OriginCheck DEF Lets
      <4>3. k \in CorsLayers
        BY <4>1 DEF CorsLayers, Layers, Is
      <4> QED BY <2>3, <3>3, <3>5, <4>2, <4>3
    <3> QED BY <3>4, <3>5
  <2> QED BY <2>5, <2>6
<1> QED BY <1>1, Invariance, PTL
=============================================================================
