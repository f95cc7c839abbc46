-------------------------------- MODULE App ---------------------------------
(***************************************************************************)
(* The application, tsukuyomi/src/app: a configuration builds the tree of  *)
(* scopes and, through the recognizer, the table of endpoints (config.rs,  *)
(* scope.rs); then each request is given to an endpoint or to the default  *)
(* handler of a scope (app.rs, AppFuture::process_recognize).              *)
(*                                                                         *)
(* The recognizer is RouteTree's: `Route` begins an insertion, `Request` a *)
(* search, and the steps in between are those of RouteTree.                *)
(*                                                                         *)
(* A configuration is arbitrary code that calls `route`, `mount` and       *)
(* `modify` on the contexts it is given; `frames` is the stack of these    *)
(* contexts, the last one the innermost.  Scope 1 is ScopeId::root(),      *)
(* scope i + 2 is ScopeIdInner::Index(i).                                  *)
(***************************************************************************)
EXTENDS RouteTree

CONSTANTS
  MountPoints, \* the prefixes a configuration may mount
  Modifiers,   \* the ModifyHandlers it may apply
  MaxScopes,   \* bound on the number of scopes
  MaxFrames,   \* bound on the nesting of mount and modify
  Lenient      \* may the code of a configuration go on after an error?

ASSUME MountPointsAssumption ==
  /\ MountPoints \subseteq Seq(Token)
  /\ \A p \in MountPoints : p # <<>> /\ p[1] = Slash /\ WellNamed(p)
ASSUME ScopeBounds == MaxScopes \in Nat \ {0} /\ MaxFrames \in Nat \ {0} /\ Lenient \in BOOLEAN

Root    == 1
RootUri == <<Slash>>
NoAnswer == [kind |-> "none", scope |-> Root, by |-> {}]

VARIABLES
  phase,      \* App::create is running, or has returned Err, or Ok
  scopes,     \* Scopes<ScopeData>
  frames,     \* the config::Scope contexts in use
  endpoints,  \* the values of the recognizer's IndexMap
  pending,    \* the Endpoint on its way into it, at most one
  answer      \* who answers the last request

appVars == <<phase, scopes, frames, endpoints, pending, answer>>

-----------------------------------------------------------------------------
(* Uri *)

HasNames(u) == \E k \in 1..Len(u) : u[k] \in Wild

Join(u, v) ==
  IF u = RootUri THEN v
  ELSE IF v = RootUri THEN u
  ELSE u \o (IF Last(u) = Slash THEN Tail(v) ELSE v)

\* `names.extend(other_names)` gives bare names to `push`, which takes their
\* first letter for the kind of a parameter and refuses it.
JoinFails(u, v) == RootUri \notin {u, v} /\ HasNames(u) /\ HasNames(v)

-----------------------------------------------------------------------------
(* Configuration *)

Configuring == phase = "configure" /\ pc = "idle"
here == Last(frames)
Lineage(s) == Append(scopes[s].ancestors, s)

\* An error goes up with `?` through every configuration to App::create,
\* unless the code of one of them drops it.
Refuse == phase' \in {"refused"} \cup (IF Lenient THEN {phase} ELSE {})

Route(r) ==
  /\ Configuring
  /\ LET prefix == scopes[here.scope].prefix
         uri    == Join(prefix, r)
     IN IF JoinFails(prefix, r)
        THEN Refuse /\ UNCHANGED <<vars, pending>>
        ELSE /\ BeginInsert(uri)
             /\ pending' = <<[scope |-> here.scope, ancestors |-> Lineage(here.scope),
                              uri |-> uri, handler |-> here.modifier]>>
             /\ UNCHANGED phase
  /\ UNCHANGED <<scopes, frames, endpoints, answer>>

\* Mutant: the endpoint is stored also with an error.
InsertTurnStores ==
  /\ \/ Plant \/ Segment \/ AddWildcard \/ RefuseCatchAll \/ RefuseWildcard
     \/ FollowWildcard \/ RefuseStatic \/ FollowStatic \/ AddStatic \/ SetLeaf
  /\ IF pc' # "idle" THEN UNCHANGED <<phase, endpoints, pending>>
     ELSE /\ pending' = <<>> /\ endpoints' = endpoints \o pending
          /\ IF inner' # inner THEN UNCHANGED phase ELSE Refuse
  /\ UNCHANGED <<scopes, frames, answer>>

\* One turn of the insertion; at its end the endpoint is in the IndexMap, or
\* dropped with the error.
InsertTurn ==
  /\ \/ Plant \/ Segment \/ AddWildcard \/ RefuseCatchAll \/ RefuseWildcard
     \/ FollowWildcard \/ RefuseStatic \/ FollowStatic \/ AddStatic \/ SetLeaf
  /\ IF pc' # "idle"
     THEN UNCHANGED <<phase, endpoints, pending>>
     ELSE /\ pending' = <<>>
          /\ IF inner' # inner
             THEN endpoints' = endpoints \o pending /\ UNCHANGED phase
             ELSE Refuse /\ UNCHANGED endpoints
  /\ UNCHANGED <<scopes, frames, answer>>

\* `route("*", ..)` sets the default handler, over the one that was there.
RouteAsterisk ==
  /\ Configuring
  /\ scopes' = [scopes EXCEPT ![here.scope].default = <<here.modifier>>]
  /\ UNCHANGED <<vars, phase, frames, endpoints, pending, answer>>

\* Mutant: the new scope gets the ancestors of its parent, without the parent.
MountOrphan(prefix) ==
  /\ Configuring /\ Len(scopes) < MaxScopes /\ Len(frames) < MaxFrames
  /\ ~JoinFails(scopes[here.scope].prefix, prefix)
  /\ scopes' = Append(scopes, [prefix |-> Join(scopes[here.scope].prefix, prefix),
                                ancestors |-> scopes[here.scope].ancestors, default |-> <<>>])
  /\ frames' = Append(frames, [scope |-> Len(scopes) + 1, modifier |-> here.modifier])
  /\ UNCHANGED <<vars, phase, endpoints, pending, answer>>

Mount(prefix) ==
  /\ Configuring /\ Len(scopes) < MaxScopes /\ Len(frames) < MaxFrames
  /\ LET parent == scopes[here.scope].prefix IN
     IF JoinFails(parent, prefix)
     THEN Refuse /\ UNCHANGED <<scopes, frames>>
     ELSE /\ scopes' = Append(scopes, [prefix |-> Join(parent, prefix),
                                       ancestors |-> Lineage(here.scope), default |-> <<>>])
          /\ frames' = Append(frames, [scope |-> Len(scopes) + 1, modifier |-> here.modifier])
          /\ UNCHANGED phase
  /\ UNCHANGED <<vars, endpoints, pending, answer>>

\* Chain::new(self.modifier, modifier) applies the new modifier last.
Modify(m) ==
  /\ Configuring /\ Len(frames) < MaxFrames
  /\ frames' = Append(frames, [here EXCEPT !.modifier = Append(@, m)])
  /\ UNCHANGED <<vars, phase, scopes, endpoints, pending, answer>>

\* A path that is no Uri, in `route` or `mount`: an error before anything else.
BadUri ==
  /\ Configuring
  /\ Refuse
  /\ UNCHANGED <<vars, scopes, frames, endpoints, pending, answer>>

\* The configuration of a mount or a modify returns Ok; that of `create` does.
Return ==
  /\ Configuring
  /\ IF Len(frames) > 1
     THEN frames' = Front(frames) /\ UNCHANGED phase
     ELSE phase' = "serve" /\ UNCHANGED frames
  /\ UNCHANGED <<vars, scopes, endpoints, pending, answer>>

Configure ==
  \/ \E r \in Patterns : Route(r)
  \/ InsertTurn
  \/ RouteAsterisk
  \/ \E p \in MountPoints : Mount(p)
  \/ \E m \in Modifiers : Modify(m)
  \/ BadUri \/ Return

-----------------------------------------------------------------------------
(* Requests *)

\* Mutant: the scope of one candidate, not the common one.
InferScopeOfOne(r, cands) ==
  LET known == {j \in cands : j < Len(endpoints)}
  IN IF known = {} THEN Root ELSE endpoints[1 + CHOOSE j \in known : \A i \in known : j <= i].scope

\* AppInner::infer_scope: the oldest common ancestor of the candidates whose
\* prefix the path has not reached the end of, or else the youngest.  The
\* indices of routes that were refused are no endpoints, or other ones.
InferScope(r, cands) ==
  LET lineages == {endpoints[i + 1].ancestors : i \in {j \in cands : j < Len(endpoints)}}
      common   == LongestCommonPrefix(lineages)
      ahead    == {k \in DOMAIN common : IsPrefix(r, scopes[common[k]].prefix)}
  IN IF lineages = {} THEN Root
     ELSE IF ahead = {} THEN Last(common)
     ELSE common[CHOOSE k \in ahead : \A j \in ahead : k <= j]

\* AppInner::find_default_handler: its own, or that of the nearest ancestor.
FindDefaultHandler(s) ==
  LET lineage == Lineage(s)
      set     == {k \in DOMAIN lineage : scopes[lineage[k]].default # <<>>}
  IN {lineage[k] : k \in {j \in set : \A i \in set : i <= j}}

Fallback(s) ==
  [kind |-> IF FindDefaultHandler(s) = {} THEN "not_found" ELSE "default",
   scope |-> s, by |-> FindDefaultHandler(s)]

\* AppInner::find_endpoint and AppFuture::process_recognize.
ProcessRecognize(res) ==
  CASE res.status = "ok"          -> [kind |-> "endpoint", scope |-> endpoints[res.index + 1].scope, by |-> {}]
    [] res.status = "not_matched" -> Fallback(Root)
    [] res.status = "partial"     -> Fallback(InferScope(res.request, res.cands))

Answer == answer' = IF pc' = "idle" THEN ProcessRecognize(result') ELSE NoAnswer

Request(r) ==
  /\ phase = "serve"
  /\ BeginRecognize(r) \/ RecognizeNothing(r)
  /\ Answer
  /\ UNCHANGED <<phase, scopes, frames, endpoints, pending>>

\* OPTIONS *: its path is "*", and `route` never gives that to the recognizer.
RequestAsterisk ==
  /\ phase = "serve"
  /\ RecognizeAsterisk
  /\ Answer
  /\ UNCHANGED <<phase, scopes, frames, endpoints, pending>>

MatchTurn ==
  /\ MatchStatic \/ MatchParam \/ MatchCatchAll
  /\ Answer
  /\ UNCHANGED <<phase, scopes, frames, endpoints, pending>>

Serve == (\E r \in Requests : Request(r)) \/ RequestAsterisk \/ MatchTurn

AppInit ==
  /\ Init
  /\ phase = "configure"
  /\ scopes = <<[prefix |-> RootUri, ancestors |-> <<>>, default |-> <<>>]>>
  /\ frames = <<[scope |-> Root, modifier |-> <<>>]>>
  /\ endpoints = <<>> /\ pending = <<>>
  /\ answer = NoAnswer

AppNext == Configure \/ Serve

AppSpec == AppInit /\ [][AppNext]_<<vars, appVars>>

-----------------------------------------------------------------------------
(* Properties. *)

Modifier == Seq(Modifiers)
AppTypeOK ==
  /\ TypeOK
  /\ phase \in {"configure", "refused", "serve"}
  /\ scopes \in Seq([prefix : Seq(Token), ancestors : Seq(Nat), default : Seq(Modifier)])
  /\ frames \in Seq([scope : 1..Len(scopes), modifier : Modifier]) /\ frames # <<>>
  /\ endpoints \in Seq([scope : 1..Len(scopes), ancestors : Seq(Nat),
                        uri : Seq(Token), handler : Modifier])
  /\ pending = <<>> <=> phase # "configure" \/ pc = "idle"
  /\ answer.kind \in {"none", "endpoint", "default", "not_found"}

\* The endpoint stored under an index is the one of the route with that index:
\* the recognizer's keys and its values never get out of step.
EndpointOfRoute ==
  /\ Len(endpoints) = Len(inner)
  /\ \A i \in DOMAIN inner : endpoints[i].uri = inner[i]

\* What every step of a configuration keeps, refused or not: the types, and an
\* endpoint for each route under the index that the recognizer will return.
AppInv == AppTypeOK /\ EndpointOfRoute

\* The ancestors of a scope are the path to it from the root, each of them
\* older and with a prefix that the scope's own prefix extends; an endpoint
\* carries the path to its scope and a URI under its prefix.  This is what
\* `infer_scope` relies on when it compares ancestors place by place.
ScopesNest ==
  LET Nested(lineage, uri) ==
        /\ lineage # <<>> /\ lineage[1] = Root
        /\ \A k \in DOMAIN lineage :
             /\ lineage[k] \in DOMAIN scopes
             /\ scopes[lineage[k]].ancestors = SubSeq(lineage, 1, k - 1)
             /\ scopes[lineage[k]].prefix = RootUri \/ IsPrefix(scopes[lineage[k]].prefix, uri)
  IN /\ \A s \in DOMAIN scopes : Nested(Lineage(s), scopes[s].prefix) /\ \A a \in ToSet(scopes[s].ancestors) : a < s
     /\ \A i \in DOMAIN endpoints :
          Nested(endpoints[i].ancestors, endpoints[i].uri) /\ Last(endpoints[i].ancestors) = endpoints[i].scope

\* When no route matches, every route the request is the beginning of lies in
\* the scope the fallback starts from: no scope in between is passed over.  As
\* in SearchComplete, while every leaf lies at its route: where a `*name` was
\* taken for the `:name` of an inner scope, the search asks only there.
Unmatched == answer.kind \in {"default", "not_found"}

FallbackCovers ==
  Unmatched /\ ~RanOut /\ KindsKept => \A i \in DOMAIN inner :
    Extendable(inner[i], result.request) => answer.scope \in ToSet(endpoints[i].ancestors)

\* A default handler answers only requests of its scope: those whose path runs
\* along the prefix, as far as both go.  That is so as long as the candidates of
\* a node are routes that lead there, and static text ends in a node for a route,
\* a fork or a parameter; a configuration that goes on after a refused route
\* leaves other candidates and other nodes behind.
Along(prefix, r) ==
  \/ Extendable(prefix, r)
  \/ \E k \in 0..Len(r) : Matches(prefix, SubSeq(r, 1, k))

AnswersInScope ==
  answer.kind = "default" => \A s \in answer.by :
    scopes[s].prefix = RootUri \/ Along(scopes[s].prefix, result.request)

CandidatesLeadHere ==
  \A n \in DOMAIN tree : \A i \in tree[n].cands :
    i < Len(inner) /\ SamePrefix(n, inner[i + 1], Len(n))

NodesAreNeeded ==
  \A n \in DOMAIN tree : IsStatic(n) =>
    \/ tree[n].leaf # None
    \/ FirstTokens(tree, n) \cap Wild # {}
    \/ \E s, t \in FirstTokens(tree, n) : s # t

FallbackIsLocal == CandidatesLeadHere /\ NodesAreNeeded => AnswersInScope
=============================================================================
