-------------------------------- MODULE Cors --------------------------------
(***************************************************************************)
(* The policy of tsukuyomi-cors: what Builder::build makes of the calls on *)
(* a builder, and the checks of `Inner`.  An Option is a set of at most    *)
(* one element: {} for None, {x} for Some(x).  A check returns a record:   *)
(* "none" (the header is absent), "err" with the CORSErrorKind, or "ok"    *)
(* with the value of the response header.                                  *)
(***************************************************************************)
EXTENDS Integers, Sequences, FiniteSets

CONSTANTS
  Origins,   \* the values of Origin that are a URI with a scheme and a host
  Headers    \* the valid header names

Wildcard == "*"
Absent == "absent"

Pass    == [is |-> "none"]
Deny(k) == [is |-> "err", of |-> k]
Give(v) == [is |-> "ok", of |-> v]

-----------------------------------------------------------------------------
\* The builder: origins, methods and headers are Options of sets.

\* The fields of Builder, whatever was called on it
Builders ==
  [origins : SUBSET SUBSET Origins, methods : SUBSET SUBSET STRING,
   headers : SUBSET SUBSET Headers, age : BOOLEAN, credentials : BOOLEAN]

NewBuilder ==
  [origins |-> {}, methods |-> {}, headers |-> {}, age |-> FALSE, credentials |-> FALSE]

\* get_or_insert_with(Default::default) and insert or extend
Added(option, values) == {UNION option \cup values}

AllowOrigins(b, os) == [b EXCEPT !.origins = Added(@, os)]
AllowMethods(b, ms) == [b EXCEPT !.methods = Added(@, ms)]
AllowHeaders(b, hs) == [b EXCEPT !.headers = Added(@, hs)]
AllowCredentials(b) == [b EXCEPT !.credentials = TRUE]
MaxAge(b)           == [b EXCEPT !.age = TRUE]

Build(b) ==
  [b EXCEPT !.methods = IF @ = {} THEN {"GET", "POST", "OPTIONS"} ELSE UNION @]

-----------------------------------------------------------------------------
\* The checks.  A request has the fields method, origin, ask and lists: the
\* values of Origin, Access-Control-Request-Method and, an Option, of
\* Access-Control-Request-Headers, taken apart at its commas.

ValidateOrigin(p, origin) ==
  IF origin = Absent THEN Pass
  ELSE IF origin \notin Origins THEN Deny("InvalidOrigin")
  ELSE IF p.origins # {} /\ origin \notin UNION p.origins THEN Deny("DisallowedOrigin")
  ELSE IF p.origins = {} /\ ~p.credentials THEN Give(Wildcard)
  ELSE Give(origin)

\* Mutant: the method is echoed instead of looked up.
ValidateRequestMethodEcho(p, ask) ==
  IF ask = Absent THEN Pass
  ELSE IF ask = "garbled" THEN Deny("InvalidRequestMethod")
  ELSE Give({ask})

ValidateRequestMethod(p, ask) ==
  IF ask = Absent THEN Pass
  ELSE IF ask = "garbled" THEN Deny("InvalidRequestMethod")
  ELSE IF ask \in p.methods THEN Give(p.methods)
  ELSE Deny("DisallowedRequestMethod")

\* Mutant: is_superset the wrong way round.
ValidateRequestHeadersSwapped(p, lists) ==
  LET asked == UNION lists IN
  IF lists = {} THEN Pass
  ELSE IF p.headers = {} THEN Give(asked)
  ELSE IF asked = {} \/ ~(asked \subseteq Headers) THEN Deny("InvalidRequestHeaders")
  ELSE IF UNION p.headers \subseteq asked THEN Give(UNION p.headers)
  ELSE Deny("DisallowedRequestHeaders")

\* Without a list of its own the policy echoes what it was asked for, unread.
ValidateRequestHeaders(p, lists) ==
  LET asked == UNION lists IN
  IF lists = {} THEN Pass
  ELSE IF p.headers = {} THEN Give(asked)
  ELSE IF asked = {} \/ ~(asked \subseteq Headers) THEN Deny("InvalidRequestHeaders")
  ELSE IF asked \subseteq UNION p.headers THEN Give(UNION p.headers)
  ELSE Deny("DisallowedRequestHeaders")

\* A response: the values of Access-Control-Allow-Origin, how often
\* -Credentials is there, the Options -Methods, -Headers and Allow, whether
\* there is a -Max-Age, and the kind of the CORSError it reports.
Response(status) ==
  [status |-> status, acao |-> <<>>, creds |-> 0, acam |-> {}, acah |-> {},
   age |-> FALSE, allow |-> {}, why |-> Absent]

\* HttpError for CORSError
Forbidden(kind) == [Response(403) EXCEPT !.why = kind]

Value(check) == IF check.is = "ok" THEN {check.of} ELSE {}

ProcessPreflightRequest(p, r, origin) ==
  LET m == ValidateRequestMethod(p, r.ask)
      h == ValidateRequestHeaders(p, r.lists)
  IN  IF m.is = "err" THEN Forbidden(m.of)
      ELSE IF h.is = "err" THEN Forbidden(h.of)
      ELSE [Response(204) EXCEPT !.acao = <<origin>>, !.acam = Value(m),
                                 !.acah = Value(h), !.age = p.age]

\* Mutant: the method of a simple request is not checked.
ProcessSimpleRequestUnchecked(p, r, origin, hdrs) ==
  Give([acao |-> Append(hdrs.acao, origin),
        creds |-> hdrs.creds + (IF p.credentials THEN 1 ELSE 0)])

\* What a simple request adds to Input::response_headers, or why it is refused.
ProcessSimpleRequest(p, r, origin, hdrs) ==
  IF r.method \notin p.methods
  THEN Deny("DisallowedRequestMethod")
  ELSE Give([acao |-> Append(hdrs.acao, origin),
             creds |-> hdrs.creds + (IF p.credentials THEN 1 ELSE 0)])

\* "reply" with a response, "next" with the response headers so far: the inner
\* handler is to be polled.
Reply(out) == [is |-> "reply", of |-> out]
Continue(hdrs) == [is |-> "next", of |-> hdrs]

ProcessRequest(p, r, hdrs) ==
  LET o == ValidateOrigin(p, r.origin) IN
  CASE o.is = "none" -> Continue(hdrs)
    [] o.is = "err"  -> Reply(Forbidden(o.of))
    [] o.is = "ok" /\ r.method = "OPTIONS" -> Reply(ProcessPreflightRequest(p, r, o.of))
    [] OTHER -> LET s == ProcessSimpleRequest(p, r, o.of, hdrs)
                IN  IF s.is = "err" THEN Reply(Forbidden(s.of)) ELSE Continue(s.of)

\* The CORS endpoint, an Endpoint<()> for OPTIONS
PollCorsEndpoint(p, r) ==
  LET o == ValidateOrigin(p, r.origin) IN
  CASE o.is = "none" -> Response(404)
    [] o.is = "err"  -> Forbidden(o.of)
    [] OTHER -> ProcessPreflightRequest(p, r, o.of)
=============================================================================
