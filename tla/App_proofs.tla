----------------------------- MODULE App_proofs -----------------------------
(***************************************************************************)
(* Theorems about the application: the table of endpoints and the tree of  *)
(* scopes that `infer_scope` relies on, for every configuration; then, on  *)
(* top of the theorems about the search, who answers a request that no     *)
(* route takes.                                                            *)
(***************************************************************************)
EXTENDS App, RouteTree_proofs

Path == {u \in Seq(Token) : u # <<>> /\ u[1] = Slash}

ScopeData   == [prefix : Path, ancestors : Seq(Nat), default : Seq(Modifier)]
Frame(n)    == [scope : 1..n, modifier : Modifier]
Endpoint(n) == [scope : 1..n, ancestors : Seq(Nat), uri : Path, handler : Modifier]

Types ==
  /\ phase \in {"configure", "refused", "serve"}
  /\ scopes \in Seq(ScopeData) /\ scopes # <<>>
  /\ frames \in Seq(Frame(Len(scopes))) /\ frames # <<>>
  /\ endpoints \in Seq(Endpoint(Len(scopes))) /\ pending \in Seq(Endpoint(Len(scopes)))
  /\ answer.kind \in {"none", "endpoint", "default", "not_found"}

\* The endpoint on its way into the table is that of the path the recognizer is
\* at, and requests come when the configuration is at an end.
Inserting == {"plant", "segment", "descend", "leaf"}

Underway ==
  /\ pc \in Inserting => phase = "configure" /\ Len(pending) = 1 /\ pending[1].uri = path
  /\ pc \notin Inserting => pending = <<>>
  /\ pc = "match" => phase = "serve"

\* ScopesNest in terms of the scopes S.
NestedIn(S, lineage, uri) ==
  /\ lineage # <<>> /\ lineage[1] = Root
  /\ \A k \in DOMAIN lineage :
       /\ lineage[k] \in DOMAIN S
       /\ S[lineage[k]].ancestors = SubSeq(lineage, 1, k - 1)
       /\ S[lineage[k]].prefix = RootUri \/ IsPrefix(S[lineage[k]].prefix, uri)

Placed(S, e) == NestedIn(S, e.ancestors, e.uri) /\ Last(e.ancestors) = e.scope

Rooted(S) ==
  \A s \in DOMAIN S :
    /\ NestedIn(S, Append(S[s].ancestors, s), S[s].prefix)
    /\ \A k \in DOMAIN S[s].ancestors : S[s].ancestors[k] < s

AllPlaced(S, es) == \A i \in DOMAIN es : Placed(S, es[i])

AppIInv ==
  /\ IInv /\ Types /\ Underway /\ EndpointOfRoute
  /\ Rooted(scopes) /\ AllPlaced(scopes, endpoints) /\ AllPlaced(scopes, pending)

-----------------------------------------------------------------------------
(* Paths *)

\* A prefix, read position by position.
LEMMA PrefixByPlace ==
  ASSUME NEW s \in Seq(Token), NEW t \in Seq(Token)
  PROVE  IsPrefix(s, t) <=> Len(s) <= Len(t) /\ \A j \in 1..Len(s) : s[j] = t[j]
<1>1. Len(s) \in Nat /\ Len(t) \in Nat /\ SubSeq(s, 1, Len(s)) = s
  BY LenProperties, SubSeqFull
<1>2. SUFFICES ASSUME Len(s) <= Len(t)
               PROVE  SubSeq(t, 1, Len(s)) = s <=> \A j \in 1..Len(s) : s[j] = t[j]
  BY <1>1 DEF IsPrefix
<1>3. /\ SubSeq(t, 1, Len(s)) \in Seq(Token) /\ Len(SubSeq(t, 1, Len(s))) = Len(s)
      /\ \A j \in 1..Len(s) : SubSeq(t, 1, Len(s))[j] = t[j]
  BY <1>1, <1>2, SubSeqProperties
<1>4. ASSUME \A j \in 1..Len(s) : s[j] = t[j] PROVE SubSeq(t, 1, Len(s)) = s
  BY <1>3, <1>4, SeqEqual
<1> QED
  BY <1>3, <1>4

\* Uri::join makes a path of two, and its beginning is the first unless that is "/".
LEMMA JoinExtends ==
  ASSUME NEW u \in Path, NEW v \in Path
  PROVE  Join(u, v) \in Path /\ (u = RootUri \/ IsPrefix(u, Join(u, v)))
<1> DEFINE w == IF Last(u) = Slash THEN Tail(v) ELSE v
<1>1. u \in Seq(Token) /\ v \in Seq(Token) /\ v # <<>> /\ Len(u) \in Nat \ {0} /\ u[1] = Slash
  BY EmptySeq DEF Path
<1>2. w \in Seq(Token) /\ Len(w) \in Nat
  BY <1>1, HeadTailProperties, LenProperties
<1> HIDE DEF w
<1>3. /\ u \o w \in Seq(Token) /\ Len(u \o w) = Len(u) + Len(w)
      /\ \A j \in 1..Len(u) : (u \o w)[j] = u[j]
  <2>1. /\ u \o w \in Seq(Token) /\ Len(u \o w) = Len(u) + Len(w)
        /\ \A j \in 1..Len(u) + Len(w) :
             (u \o w)[j] = IF j <= Len(u) THEN u[j] ELSE w[j - Len(u)]
    BY <1>1, <1>2, ConcatProperties
  <2> QED
    BY <1>1, <1>2, <2>1
<1> DEFINE g == u \o w
<1>4. /\ g \in Seq(Token) /\ Len(g) = Len(u) + Len(w) /\ \A j \in 1..Len(u) : u[j] = g[j]
      /\ Join(u, v) = IF u = RootUri THEN v ELSE IF v = RootUri THEN u ELSE g
  BY <1>3 DEF Join, w
<1> HIDE DEF g
<1>5. g \in Path
  <2>1. 1 \in 1..Len(u) /\ Len(g) > 0
    BY <1>1, <1>2, <1>4
  <2>2. g # <<>>
    BY <2>1, EmptySeq
  <2> QED
    BY <1>1, <1>4, <2>1, <2>2 DEF Path
<1>6. IsPrefix(u, g)
  <2>1. Len(u) <= Len(g)
    BY <1>1, <1>2, <1>4
  <2> QED
    BY <1>1, <1>4, <2>1, PrefixByPlace
<1>7. IsPrefix(u, u)
  BY <1>1, PrefixByPlace
<1> QED
  BY <1>4, <1>5, <1>6, <1>7

\* A path is in the scope of a prefix if it goes on from one that is.
LEMMA JoinStaysIn ==
  ASSUME NEW p \in Path, NEW u \in Path, NEW v \in Path, p = RootUri \/ IsPrefix(p, u)
  PROVE  p = RootUri \/ IsPrefix(p, Join(u, v))
<1>1. /\ p \in Seq(Token) /\ Len(p) \in Nat \ {0} /\ p[1] = Slash
      /\ u \in Seq(Token) /\ Len(u) \in Nat /\ Join(u, v) \in Seq(Token) /\ Len(Join(u, v)) \in Nat
  BY JoinExtends, EmptySeq, LenProperties DEF Path
<1>2. SUFFICES ASSUME p # RootUri PROVE IsPrefix(p, Join(u, v))
  OBVIOUS
<1>3. IsPrefix(p, u)
  BY <1>2
<1>4. Len(p) <= Len(u) /\ \A j \in 1..Len(p) : p[j] = u[j]
  BY <1>1, <1>3, PrefixByPlace
<1>5. u # RootUri
  <2>1. RootUri \in Seq(Token) /\ Len(RootUri) = 1 /\ RootUri[1] = Slash
    BY DEF RootUri, Token, Char
  <2>2. u = RootUri => p = RootUri
    BY <1>1, <1>4, <2>1, SeqEqual
  <2> QED
    BY <1>2, <2>2
<1>6. IsPrefix(u, Join(u, v))
  BY <1>5, JoinExtends
<1>7. Len(u) <= Len(Join(u, v)) /\ \A j \in 1..Len(u) : u[j] = Join(u, v)[j]
  BY <1>1, <1>6, PrefixByPlace
<1>8. Len(p) <= Len(Join(u, v)) /\ \A j \in 1..Len(p) : p[j] = Join(u, v)[j]
  BY <1>1, <1>4, <1>7
<1> QED
  BY <1>1, <1>8, PrefixByPlace

-----------------------------------------------------------------------------
(* Scopes *)

\* Scopes never lose their prefix or their ancestors, so what is nested stays so.
LEMMA NestedKept ==
  ASSUME NEW S, NEW T, NEW lineage, NEW uri, NestedIn(S, lineage, uri),
         \A s \in DOMAIN S :
           s \in DOMAIN T /\ T[s].prefix = S[s].prefix /\ T[s].ancestors = S[s].ancestors
  PROVE  NestedIn(T, lineage, uri)
BY DEF NestedIn

\* What goes on from the prefix of a scope is nested in that scope.
LEMMA NestedJoin ==
  ASSUME NEW S \in Seq(ScopeData), NEW lineage, NEW u \in Path, NEW v \in Path,
         NestedIn(S, lineage, u)
  PROVE  NestedIn(S, lineage, Join(u, v))
<1>1. \A s \in DOMAIN S : S[s].prefix \in Path
  <2>1. \A s \in DOMAIN S : S[s] \in ScopeData
    BY LenProperties, ElementOfSeq
  <2> QED
    BY <2>1 DEF ScopeData
<1> QED
  BY <1>1, JoinStaysIn DEF NestedIn

\* The innermost context is that of a scope, and what its lineage is.
LEMMA Here ==
  ASSUME Types, Rooted(scopes)
  PROVE  /\ here \in Frame(Len(scopes)) /\ here.scope \in DOMAIN scopes
         /\ DOMAIN scopes = 1..Len(scopes) /\ Len(scopes) \in Nat
         /\ scopes[here.scope] \in ScopeData
         /\ Lineage(here.scope) \in Seq(Nat) /\ Lineage(here.scope) # <<>>
         /\ Last(Lineage(here.scope)) = here.scope
         /\ NestedIn(scopes, Lineage(here.scope), scopes[here.scope].prefix)
<1>1. Len(scopes) \in Nat /\ DOMAIN scopes = 1..Len(scopes) /\ Len(frames) \in Nat \ {0}
  BY LenProperties, EmptySeq DEF Types
<1>2. here \in Frame(Len(scopes))
  BY <1>1, ElementOfSeq DEF Types, Last, here
<1> DEFINE s == here.scope
<1>3. s \in DOMAIN scopes /\ s \in Nat
  BY <1>1, <1>2 DEF Frame
<1>4. scopes[s] \in ScopeData /\ scopes[s].ancestors \in Seq(Nat)
  <2>1. scopes[s] \in ScopeData
    BY <1>1, <1>3, ElementOfSeq DEF Types
  <2> QED
    BY <2>1 DEF ScopeData
<1> HIDE DEF s
<1>5. /\ Lineage(s) \in Seq(Nat) /\ Lineage(s) # <<>>
      /\ Last(Lineage(s)) = s
  BY <1>3, <1>4, AppendProperties DEF Lineage, Last
<1>6. NestedIn(scopes, Lineage(s), scopes[s].prefix)
  BY <1>3 DEF Rooted, Lineage
<1> QED
  BY <1>1, <1>2, <1>3, <1>4, <1>5, <1>6 DEF s

-----------------------------------------------------------------------------
(* The steps of a configuration *)

\* Where no scope and no endpoint is touched, nor a route registered, their part
\* of the invariant stays.
LEMMA SameTable ==
  ASSUME AppIInv, IInv', Types', Underway', UNCHANGED <<scopes, endpoints, pending, inner>>
  PROVE  AppIInv'
BY DEF AppIInv, EndpointOfRoute

\* `route`: a path that is under the prefix of its scope begins to be inserted.
LEMMA RouteStep ==
  ASSUME AppIInv, NEW r \in Patterns, Route(r)
  PROVE  AppIInv'
<1> DEFINE prefix == scopes[here.scope].prefix
           uri == Join(prefix, r)
           e == [scope |-> here.scope, ancestors |-> Lineage(here.scope), uri |-> uri,
                 handler |-> here.modifier]
<1>1. pc = "idle" /\ phase = "configure" /\ UNCHANGED <<scopes, frames, endpoints, answer>>
  BY DEF Route, Configuring
<1>2. CASE JoinFails(prefix, r)
  <2>1. Refuse /\ UNCHANGED <<vars, pending>>
    BY <1>2 DEF Route
  <2>2. IInv'
    BY <2>1, NextInv DEF AppIInv
  <2>3. pc' = pc /\ inner' = inner /\ pending' = pending /\ phase' \in {phase, "refused"}
    BY <2>1 DEF vars, Refuse
  <2>4. Types'
    BY <1>1, <2>3 DEF AppIInv, Types
  <2>5. Underway'
    BY <1>1, <2>3 DEF AppIInv, Underway, Inserting
  <2> QED
    BY <1>1, <2>2, <2>3, <2>4, <2>5, SameTable
<1>3. CASE ~JoinFails(prefix, r)
  <2>1. BeginInsert(uri) /\ pending' = <<e>> /\ phase' = phase
    BY <1>3 DEF Route
  <2>2. r \in Path /\ prefix \in Path
    BY PatternsAssumption, Here DEF AppIInv, Path, ScopeData
  <2>3. uri \in Path
    BY <2>2, JoinExtends
  <2>4. Placed(scopes, e) /\ e \in Endpoint(Len(scopes))
    <3>1. NestedIn(scopes, Lineage(here.scope), uri)
      BY <2>2, Here, NestedJoin DEF AppIInv, Types
    <3> HIDE DEF uri
    <3> QED
      BY <2>3, <3>1, Here DEF AppIInv, Placed, Endpoint, Frame
  <2> HIDE DEF uri
  <2>5. IInv'
    BY <2>1, <2>3, BeginInsertAny DEF AppIInv, Path
  <2>6. pc' \in {"plant", "segment"} /\ path' = uri /\ inner' = inner
    BY <2>1 DEF BeginInsert, registry
  <2> DEFINE x == e
  <2>7. pending' = <<x>> /\ x \in Endpoint(Len(scopes)) /\ x.uri = uri /\ Placed(scopes, x)
    BY <2>1, <2>4
  <2> HIDE DEF x, e
  <2>8. Types'
    BY <1>1, <2>1, <2>7 DEF AppIInv, Types
  <2>9. Underway'
    BY <1>1, <2>1, <2>6, <2>7 DEF Underway, Inserting
  <2>10. AllPlaced(scopes', pending')
    BY <1>1, <2>7 DEF AllPlaced
  <2> QED
    BY <1>1, <2>5, <2>6, <2>8, <2>9, <2>10 DEF AppIInv, EndpointOfRoute
<1> QED
  BY <1>2, <1>3

\* One turn of an insertion: on its way, or the path registered or refused.
LEMMA TurnShape ==
  ASSUME \/ Plant \/ Segment \/ AddWildcard \/ RefuseCatchAll \/ RefuseWildcard
         \/ FollowWildcard \/ RefuseStatic \/ FollowStatic \/ AddStatic \/ SetLeaf
  PROVE  /\ pc \in Inserting
         /\ \/ pc' \in Inserting /\ path' = path /\ inner' = inner
            \/ pc' = "idle" /\ inner' \in {inner, Append(inner, path)}
<1>1. Register(path) \/ Fail => pc' = "idle" /\ inner' \in {inner, Append(inner, path)}
  BY DEF Register, Fail, Idle
<1> QED
  BY <1>1 DEF Plant, Segment, AddWildcard, RefuseCatchAll, RefuseWildcard, FollowWildcard,
     RefuseStatic, FollowStatic, AddStatic, SetLeaf, Inserting

\* At its end the endpoint goes with its route, into the table or away.
LEMMA InsertTurnStep ==
  ASSUME AppIInv, InsertTurn
  PROVE  AppIInv'
<1>1. IInv'
  <2>1. Insert
    BY DEF InsertTurn, Insert
  <2> QED
    BY <2>1, NextInv DEF AppIInv, Next
<1>2. /\ pc \in Inserting
      /\ \/ pc' \in Inserting /\ path' = path /\ inner' = inner
         \/ pc' = "idle" /\ inner' \in {inner, Append(inner, path)}
  BY TurnShape DEF InsertTurn
<1>3. UNCHANGED <<scopes, frames, answer>>
  BY DEF InsertTurn
<1>4. CASE pc' # "idle"
  <2>1. UNCHANGED <<phase, endpoints, pending>> /\ pc' \in Inserting /\ path' = path /\ inner' = inner
    BY <1>2, <1>4 DEF InsertTurn
  <2>2. Types'
    BY <1>3, <2>1 DEF AppIInv, Types
  <2>3. Underway'
    BY <1>2, <2>1 DEF AppIInv, Underway, Inserting
  <2> QED
    BY <1>1, <1>3, <2>1, <2>2, <2>3, SameTable
<1>5. CASE pc' = "idle"
  <2>1. pending' = <<>> /\ inner' \in {inner, Append(inner, path)}
    BY <1>2, <1>5 DEF InsertTurn, Inserting
  <2>2. phase' \in {phase, "refused"}
    BY <1>5 DEF InsertTurn, Refuse
  <2>3. \/ inner' = inner /\ endpoints' = endpoints
        \/ inner' = Append(inner, path) /\ endpoints' = endpoints \o pending
    BY <1>5, <2>1 DEF InsertTurn
  <2>4. /\ endpoints \in Seq(Endpoint(Len(scopes))) /\ Len(endpoints) \in Nat
        /\ pending \in Seq(Endpoint(Len(scopes))) /\ Len(pending) = 1 /\ pending[1].uri = path
        /\ Placed(scopes, pending[1]) /\ DOMAIN endpoints = 1..Len(endpoints)
        /\ DOMAIN pending = 1..Len(pending)
    <3>1. /\ endpoints \in Seq(Endpoint(Len(scopes))) /\ pending \in Seq(Endpoint(Len(scopes)))
          /\ Len(pending) = 1 /\ pending[1].uri = path /\ AllPlaced(scopes, pending)
      BY <1>2 DEF AppIInv, Types, Underway
    <3> QED
      BY <3>1, LenProperties DEF AllPlaced
  <2> DEFINE both == endpoints \o pending
  <2>5. /\ both \in Seq(Endpoint(Len(scopes))) /\ Len(both) = Len(endpoints) + 1
        /\ DOMAIN both = 1..Len(both) /\ both[Len(endpoints) + 1] = pending[1]
        /\ \A i \in 1..Len(endpoints) : both[i] = endpoints[i]
    <3>1. /\ both \in Seq(Endpoint(Len(scopes))) /\ Len(both) = Len(endpoints) + Len(pending)
          /\ \A i \in 1..Len(endpoints) + Len(pending) :
               both[i] = IF i <= Len(endpoints) THEN endpoints[i] ELSE pending[i - Len(endpoints)]
      BY <2>4, ConcatProperties
    <3>2. DOMAIN both = 1..Len(both)
      BY <3>1, LenProperties
    <3> QED
      BY <2>4, <3>1, <3>2
  <2> HIDE DEF both
  <2>6. \/ inner' = inner /\ endpoints' = endpoints
        \/ inner' = Append(inner, path) /\ endpoints' = both
    BY <2>3 DEF both
  <2>7. Types'
    BY <1>3, <2>1, <2>2, <2>4, <2>5, <2>6, EmptySeq DEF AppIInv, Types
  <2>8. Underway'
    BY <1>5, <2>1 DEF Underway, Inserting
  <2>9. EndpointOfRoute'
    <3>1. CASE inner' = inner /\ endpoints' = endpoints
      BY <3>1 DEF AppIInv, EndpointOfRoute
    <3>2. CASE inner' = Append(inner, path) /\ endpoints' = both
      <4>1. /\ inner \in Seq(Seq(Token)) /\ path \in Seq(Token) /\ Len(inner) \in Nat
            /\ DOMAIN inner = 1..Len(inner) /\ Len(endpoints) = Len(inner)
            /\ \A i \in DOMAIN inner : endpoints[i].uri = inner[i]
        BY LenProperties DEF AppIInv, IInv, TypeOK, EndpointOfRoute
      <4>2. /\ Len(inner') = Len(inner) + 1 /\ DOMAIN inner' = 1..Len(inner) + 1
            /\ \A i \in 1..Len(inner) : inner'[i] = inner[i]
            /\ inner'[Len(inner) + 1] = path
        BY <3>2, <4>1, AppendProperties, LenProperties
      <4> QED
        BY <2>4, <2>5, <3>2, <4>1, <4>2 DEF EndpointOfRoute
    <3> QED
      BY <2>6, <3>1, <3>2
  <2>10. AllPlaced(scopes, endpoints')
    <3>1. \A i \in 1..Len(endpoints) : Placed(scopes, endpoints[i])
      BY <2>4 DEF AppIInv, AllPlaced
    <3>2. \A i \in 1..Len(endpoints) + 1 : i \in 1..Len(endpoints) \/ i = Len(endpoints) + 1
      BY <2>4
    <3>3. \A i \in DOMAIN both : Placed(scopes, both[i])
      BY <2>4, <2>5, <3>1, <3>2
    <3> QED
      BY <2>4, <2>6, <3>1, <3>3 DEF AllPlaced
  <2>11. AllPlaced(scopes, pending')
    BY <2>1 DEF AllPlaced
  <2> QED
    BY <1>1, <1>3, <2>7, <2>8, <2>9, <2>10, <2>11 DEF AppIInv
<1> QED
  BY <1>4, <1>5

\* `route("*", ..)`: only a default handler changes.
LEMMA RouteAsteriskStep ==
  ASSUME AppIInv, RouteAsterisk
  PROVE  AppIInv'
<1> DEFINE n == here.scope
           q == [scopes[n] EXCEPT !.default = <<here.modifier>>]
<1>1. /\ phase = "configure" /\ pc = "idle" /\ scopes' = [scopes EXCEPT ![n] = q]
      /\ UNCHANGED <<vars, phase, frames, endpoints, pending, answer>>
  BY DEF RouteAsterisk, Configuring
<1>2. IInv' /\ inner' = inner /\ pc' = pc /\ path' = path
  BY <1>1, NextInv DEF AppIInv, vars
<1>3. /\ n \in 1..Len(scopes) /\ scopes \in Seq(ScopeData) /\ DOMAIN scopes = 1..Len(scopes)
      /\ scopes[n] \in ScopeData /\ here.modifier \in Modifier /\ scopes # <<>>
  BY Here DEF AppIInv, Types, Frame
<1>4. /\ q \in ScopeData /\ q.prefix = scopes[n].prefix /\ q.ancestors = scopes[n].ancestors
  <2>1. <<here.modifier>> \in Seq(Modifier)
    BY <1>3
  <2> QED
    BY <1>3, <2>1 DEF ScopeData
<1> HIDE DEF q, n
<1>5. /\ scopes' \in Seq(ScopeData) /\ Len(scopes') = Len(scopes)
      /\ \A i \in 1..Len(scopes) : scopes'[i] = IF i = n THEN q ELSE scopes[i]
  BY <1>1, <1>3, <1>4, ExceptSeq
<1>6. DOMAIN scopes' = DOMAIN scopes /\ scopes' # <<>>
  BY <1>1, <1>3, <1>5, LenProperties, EmptySeq
<1>7. \A i \in DOMAIN scopes :
        /\ i \in DOMAIN scopes'
        /\ scopes'[i].prefix = scopes[i].prefix /\ scopes'[i].ancestors = scopes[i].ancestors
  BY <1>3, <1>4, <1>5, <1>6
<1>8. Types'
  BY <1>1, <1>5, <1>6 DEF AppIInv, Types
<1>9. Underway'
  BY <1>1, <1>2 DEF AppIInv, Underway, Inserting
<1>10. Rooted(scopes')
  <2>1. ASSUME NEW i \in DOMAIN scopes'
        PROVE  /\ NestedIn(scopes', Append(scopes'[i].ancestors, i), scopes'[i].prefix)
               /\ \A k \in DOMAIN scopes'[i].ancestors : scopes'[i].ancestors[k] < i
    <3>1. /\ NestedIn(scopes, Append(scopes[i].ancestors, i), scopes[i].prefix)
          /\ \A k \in DOMAIN scopes[i].ancestors : scopes[i].ancestors[k] < i
      BY <1>6 DEF AppIInv, Rooted
    <3>2. NestedIn(scopes', Append(scopes[i].ancestors, i), scopes[i].prefix)
      BY <1>7, <3>1, NestedKept
    <3> QED
      BY <1>6, <1>7, <3>1, <3>2
  <2> QED
    BY <2>1 DEF Rooted
<1>11. AllPlaced(scopes', endpoints') /\ AllPlaced(scopes', pending')
  BY <1>1, <1>7, NestedKept DEF AppIInv, AllPlaced, Placed
<1> QED
  BY <1>1, <1>2, <1>8, <1>9, <1>10, <1>11 DEF AppIInv, EndpointOfRoute

\* A scope that is mounted is below the one it is mounted in.
LEMMA MountStep ==
  ASSUME AppIInv, NEW p \in MountPoints, Mount(p)
  PROVE  AppIInv'
<1> DEFINE parent == scopes[here.scope].prefix
           lineage == Lineage(here.scope)
           q == [prefix |-> Join(parent, p), ancestors |-> lineage, default |-> <<>>]
           f == [scope |-> Len(scopes) + 1, modifier |-> here.modifier]
<1>1. /\ pc = "idle" /\ phase = "configure" /\ UNCHANGED <<vars, endpoints, pending, answer>>
      /\ phase' \in {phase, "refused"}
      /\ \/ UNCHANGED <<scopes, frames>>
         \/ scopes' = Append(scopes, q) /\ frames' = Append(frames, f)
  BY DEF Mount, Configuring, Refuse
<1>2. IInv' /\ inner' = inner /\ pc' = pc /\ path' = path
  BY <1>1, NextInv DEF AppIInv, vars
<1>3. Underway'
  BY <1>1, <1>2 DEF AppIInv, Underway, Inserting
<1>4. CASE UNCHANGED <<scopes, frames>>
  <2>1. Types'
    BY <1>1, <1>4 DEF AppIInv, Types
  <2> QED
    BY <1>1, <1>2, <1>3, <1>4, <2>1, SameTable
<1>5. CASE scopes' = Append(scopes, q) /\ frames' = Append(frames, f)
  <2> DEFINE n == Len(scopes) + 1
  <2>1. /\ scopes \in Seq(ScopeData) /\ DOMAIN scopes = 1..Len(scopes) /\ Len(scopes) \in Nat
        /\ lineage \in Seq(Nat) /\ NestedIn(scopes, lineage, parent) /\ here.modifier \in Modifier
        /\ parent \in Path /\ p \in Path /\ here.scope \in 1..Len(scopes)
    BY Here, MountPointsAssumption DEF AppIInv, Types, Frame, ScopeData, Path
  <2>2. q \in ScopeData /\ q.prefix = Join(parent, p) /\ q.ancestors = lineage
    BY <2>1, JoinExtends DEF ScopeData
  <2>3. f \in Frame(n)
    BY <2>1 DEF Frame
  <2>4. NestedIn(scopes, lineage, Join(parent, p)) /\ Join(parent, p) \in Path
    BY <2>1, NestedJoin, JoinExtends
  <2> HIDE DEF q, f, lineage, parent
  <2>5. /\ scopes' \in Seq(ScopeData) /\ Len(scopes') = n /\ scopes' # <<>>
        /\ \A i \in 1..Len(scopes) : scopes'[i] = scopes[i]
        /\ scopes'[n] = q /\ DOMAIN scopes' = 1..n
    BY <1>5, <2>1, <2>2, AppendProperties, LenProperties
  <2>6. \A i \in DOMAIN scopes :
          /\ i \in DOMAIN scopes'
          /\ scopes'[i].prefix = scopes[i].prefix /\ scopes'[i].ancestors = scopes[i].ancestors
    BY <2>1, <2>5
  <2>7. Types'
    <3>1. Frame(Len(scopes)) \subseteq Frame(n) /\ Endpoint(Len(scopes)) \subseteq Endpoint(n)
      BY <2>1 DEF Frame, Endpoint
    <3>2. frames \in Seq(Frame(n)) /\ endpoints \in Seq(Endpoint(n)) /\ pending \in Seq(Endpoint(n))
      BY <3>1, SeqMonotonic DEF AppIInv, Types
    <3>3. frames' \in Seq(Frame(n)) /\ frames' # <<>>
      BY <1>5, <2>3, <3>2, AppendProperties
    <3> QED
      BY <1>1, <2>5, <3>2, <3>3 DEF AppIInv, Types
  <2>8. NestedIn(scopes', lineage, Join(parent, p))
    BY <2>4, <2>6, NestedKept
  <2>9. NestedIn(scopes', Append(lineage, n), Join(parent, p))
    <3> DEFINE new == Append(lineage, n)
    <3>1. /\ Len(lineage) \in Nat /\ DOMAIN lineage = 1..Len(lineage) /\ lineage # <<>>
          /\ Len(lineage) > 0 /\ lineage[1] = Root
      BY <2>1, <2>4, LenProperties, EmptySeq DEF NestedIn
    <3>2. /\ new \in Seq(Nat) /\ new # <<>> /\ Len(new) = Len(lineage) + 1
          /\ \A k \in 1..Len(lineage) : new[k] = lineage[k]
          /\ new[Len(lineage) + 1] = n /\ DOMAIN new = 1..Len(lineage) + 1
      <4>1. n \in Nat
        BY <2>1
      <4> HIDE DEF n
      <4>2. /\ new \in Seq(Nat) /\ new # <<>> /\ Len(new) = Len(lineage) + 1
            /\ \A k \in 1..Len(lineage) : new[k] = lineage[k]
            /\ new[Len(lineage) + 1] = n
        BY <2>1, <4>1, AppendProperties
      <4>3. DOMAIN new = 1..Len(new)
        BY <4>2, LenProperties
      <4> QED
        BY <4>2, <4>3
    <3>3. ASSUME NEW k \in 1..Len(lineage) + 1
          PROVE  SubSeq(new, 1, k - 1) = SubSeq(lineage, 1, k - 1)
      <4>1. /\ SubSeq(new, 1, k - 1) \in Seq(Nat) /\ Len(SubSeq(new, 1, k - 1)) = k - 1
            /\ \A j \in 1..k - 1 : SubSeq(new, 1, k - 1)[j] = new[j]
        <5>1. \A j \in 1..k - 1 : new[j] \in Nat
          BY <2>1, <3>1, <3>2, ElementOfSeq
        <5> HIDE DEF new
        <5> QED
          BY <3>1, <5>1, SubSeqProperties
      <4>2. /\ SubSeq(lineage, 1, k - 1) \in Seq(Nat) /\ Len(SubSeq(lineage, 1, k - 1)) = k - 1
            /\ \A j \in 1..k - 1 : SubSeq(lineage, 1, k - 1)[j] = lineage[j]
        <5>1. \A j \in 1..k - 1 : lineage[j] \in Nat
          BY <2>1, <3>1, ElementOfSeq
        <5> QED
          BY <3>1, <5>1, SubSeqProperties
      <4>3. \A j \in 1..k - 1 : new[j] = lineage[j]
        BY <3>1, <3>2
      <4> HIDE DEF new
      <4> QED
        BY <4>1, <4>2, <4>3, SeqEqual
    <3> HIDE DEF new
    <3>4. SubSeq(lineage, 1, Len(lineage)) = lineage
      BY <2>1, SubSeqFull
    <3>5. ASSUME NEW k \in 1..Len(lineage)
          PROVE  /\ new[k] \in DOMAIN scopes'
                 /\ scopes'[new[k]].ancestors = SubSeq(new, 1, k - 1)
                 /\ scopes'[new[k]].prefix = RootUri \/ IsPrefix(scopes'[new[k]].prefix, Join(parent, p))
      <4>1. k \in DOMAIN lineage /\ k \in 1..Len(lineage) + 1
        BY <3>1
      <4>2. new[k] = lineage[k] /\ SubSeq(new, 1, k - 1) = SubSeq(lineage, 1, k - 1)
        BY <3>2, <3>3, <4>1
      <4> QED
        BY <2>8, <4>1, <4>2 DEF NestedIn
    <3>6. scopes'[n].ancestors = SubSeq(new, 1, Len(lineage)) /\ scopes'[n].prefix = Join(parent, p)
      <4>1. Len(lineage) + 1 \in 1..Len(lineage) + 1 /\ Len(lineage) + 1 - 1 = Len(lineage)
        BY <3>1
      <4> QED
        BY <2>2, <2>5, <3>3, <3>4, <4>1
    <3>7. IsPrefix(Join(parent, p), Join(parent, p))
      BY <2>4, PrefixByPlace, LenProperties DEF Path
    <3>8. n \in DOMAIN scopes' /\ new[1] = Root
      BY <2>1, <2>5, <3>1, <3>2
    <3>9. ASSUME NEW k \in DOMAIN new
          PROVE  /\ new[k] \in DOMAIN scopes'
                 /\ scopes'[new[k]].ancestors = SubSeq(new, 1, k - 1)
                 /\ scopes'[new[k]].prefix = RootUri \/ IsPrefix(scopes'[new[k]].prefix, Join(parent, p))
      <4>1. CASE k \in 1..Len(lineage)
        BY <3>5, <4>1
      <4>2. CASE k = Len(lineage) + 1
        <5>1. k - 1 = Len(lineage)
          BY <3>1, <4>2
        <5> QED
          BY <3>2, <3>6, <3>7, <3>8, <4>2, <5>1
      <4> QED
        BY <3>1, <3>2, <4>1, <4>2
    <3> QED
      BY <3>2, <3>8, <3>9 DEF NestedIn, new
  <2>10. Rooted(scopes')
    <3>1. ASSUME NEW i \in DOMAIN scopes
          PROVE  /\ NestedIn(scopes', Append(scopes'[i].ancestors, i), scopes'[i].prefix)
                 /\ \A k \in DOMAIN scopes'[i].ancestors : scopes'[i].ancestors[k] < i
      <4>1. /\ NestedIn(scopes, Append(scopes[i].ancestors, i), scopes[i].prefix)
            /\ \A k \in DOMAIN scopes[i].ancestors : scopes[i].ancestors[k] < i
        BY DEF AppIInv, Rooted
      <4>2. NestedIn(scopes', Append(scopes[i].ancestors, i), scopes[i].prefix)
        BY <2>6, <4>1, NestedKept
      <4> QED
        BY <2>6, <4>1, <4>2
    <3>2. \A k \in DOMAIN lineage : lineage[k] < n
      <4>1. \A k \in DOMAIN lineage : lineage[k] \in 1..Len(scopes)
        BY <2>1, <2>4 DEF NestedIn
      <4> QED
        BY <2>1, <4>1
    <3>3. \A i \in DOMAIN scopes' : i \in DOMAIN scopes \/ i = n
      BY <2>1, <2>5
    <3>4. scopes'[n].ancestors = lineage /\ scopes'[n].prefix = Join(parent, p)
      BY <2>2, <2>5
    <3> HIDE DEF n
    <3> QED
      BY <2>9, <3>1, <3>2, <3>3, <3>4 DEF Rooted
  <2>11. AllPlaced(scopes', endpoints') /\ AllPlaced(scopes', pending')
    BY <1>1, <2>6, NestedKept DEF AppIInv, AllPlaced, Placed
  <2> QED
    BY <1>1, <1>2, <1>3, <2>7, <2>10, <2>11 DEF AppIInv, EndpointOfRoute
<1> QED
  BY <1>1, <1>4, <1>5

\* The code of a configuration modifies, returns, or names a path that is none.
LEMMA FrameStep ==
  ASSUME AppIInv, (\E m \in Modifiers : Modify(m)) \/ BadUri \/ Return
  PROVE  AppIInv'
<1>1. /\ pc = "idle" /\ phase = "configure" /\ phase' \in {phase, "refused", "serve"}
      /\ UNCHANGED <<vars, scopes, endpoints, pending, answer>>
  BY DEF Modify, BadUri, Return, Configuring, Refuse
<1>2. IInv' /\ inner' = inner /\ pc' = pc /\ path' = path
  BY <1>1, NextInv DEF AppIInv, vars
<1>3. Underway'
  BY <1>1, <1>2 DEF AppIInv, Underway, Inserting
<1>4. /\ frames \in Seq(Frame(Len(scopes))) /\ Len(frames) \in Nat \ {0}
      /\ here \in Frame(Len(scopes))
  BY Here, EmptySeq DEF AppIInv, Types
<1>5. frames' \in Seq(Frame(Len(scopes))) /\ frames' # <<>>
  <2>1. CASE UNCHANGED frames
    BY <2>1 DEF AppIInv, Types
  <2>2. CASE \E m \in Modifiers : Modify(m)
    <3>1. PICK m \in Modifiers :
            frames' = Append(frames, [here EXCEPT !.modifier = Append(@, m)])
      BY <2>2 DEF Modify
    <3> DEFINE f == [here EXCEPT !.modifier = Append(@, m)]
    <3>2. f \in Frame(Len(scopes))
      <4>1. Append(here.modifier, m) \in Modifier
        BY <1>4, AppendProperties DEF Frame, Modifier
      <4> QED
        BY <1>4, <4>1 DEF Frame
    <3>3. frames' = Append(frames, f)
      BY <3>1
    <3> HIDE DEF f
    <3> QED
      BY <1>4, <3>2, <3>3, AppendProperties
  <2>3. CASE frames' = Front(frames) /\ Len(frames) > 1
    <3>1. \A i \in 1..Len(frames) - 1 : frames[i] \in Frame(Len(scopes))
      BY <1>4, ElementOfSeq
    <3>2. /\ SubSeq(frames, 1, Len(frames) - 1) \in Seq(Frame(Len(scopes)))
          /\ Len(SubSeq(frames, 1, Len(frames) - 1)) = Len(frames) - 1
      BY <1>4, <2>3, <3>1, SubSeqProperties
    <3>3. frames' \in Seq(Frame(Len(scopes))) /\ Len(frames') = Len(frames) - 1
      BY <2>3, <3>2 DEF Front
    <3> QED
      BY <1>4, <2>3, <3>3, EmptySeq
  <2> QED
    BY <2>1, <2>2, <2>3 DEF BadUri, Return
<1>6. Types'
  BY <1>1, <1>5 DEF AppIInv, Types
<1> QED
  BY <1>1, <1>2, <1>3, <1>6, SameTable

-----------------------------------------------------------------------------
(* Requests *)

\* A request is answered by an endpoint or by a fallback, or not yet.
LEMMA AnswerKinds ==
  ASSUME Answer, pc' = "idle" => result'.status \in {"ok", "not_matched", "partial"}
  PROVE  answer'.kind \in {"none", "endpoint", "default", "not_found"}
BY DEF Answer, ProcessRecognize, Fallback, NoAnswer

\* Requests do not touch the application.
LEMMA ServeStep ==
  ASSUME AppIInv, Serve
  PROVE  AppIInv'
<1>1. Recognize /\ Answer /\ UNCHANGED <<phase, scopes, frames, endpoints, pending>>
  BY DEF Serve, Request, RequestAsterisk, MatchTurn, Recognize
<1>2. IInv'
  BY <1>1, NextInv DEF AppIInv, Next
<1>3. /\ pc' \in {"idle", "match"} /\ inner' = inner
      /\ pc' = "idle" => result'.status \in {"ok", "not_matched", "partial"}
      /\ pc \in {"idle", "match"}
  <2>1. \A status \in {"ok", "not_matched", "partial"} : \A i, ps, w, cands :
          Outcome(status, i, ps, w, cands) =>
            pc' = "idle" /\ result'.status = status /\ inner' = inner
    BY DEF Outcome, Idle, registry
  <2>2. CASE MatchStatic \/ MatchParam \/ MatchCatchAll
    BY <2>1, <2>2 DEF MatchStatic, MatchParam, MatchCatchAll, LeafOrPartial, Advance,
       PartiallyMatched, registry
  <2>3. CASE RecognizeAsterisk \/ \E r \in Requests : BeginRecognize(r) \/ RecognizeNothing(r)
    BY <2>3 DEF RecognizeAsterisk, BeginRecognize, RecognizeNothing, Idle, registry
  <2> QED
    BY <1>1, <2>2, <2>3 DEF Recognize
<1>4. Types'
  BY <1>1, <1>3, AnswerKinds DEF AppIInv, Types
<1>5. pc = "match" \/ phase = "serve"
  <2>1. MatchStatic \/ MatchParam \/ MatchCatchAll => pc = "match"
    BY DEF MatchStatic, MatchParam, MatchCatchAll
  <2> QED
    BY <2>1 DEF Serve, Request, RequestAsterisk, MatchTurn
<1>6. Underway'
  BY <1>1, <1>3, <1>5 DEF AppIInv, Underway, Inserting
<1> QED
  BY <1>1, <1>2, <1>3, <1>4, <1>6, SameTable

-----------------------------------------------------------------------------
(* The invariant *)

\* It holds of an application without a route,
LEMMA AppInitInv == AppInit => AppIInv
<1> SUFFICES ASSUME AppInit PROVE AppIInv
  OBVIOUS
<1> DEFINE root == [prefix |-> RootUri, ancestors |-> <<>>, default |-> <<>>]
           f == [scope |-> Root, modifier |-> <<>>]
<1>1. /\ scopes = <<root>> /\ frames = <<f>> /\ endpoints = <<>> /\ pending = <<>>
      /\ phase = "configure" /\ answer.kind = "none" /\ pc = "idle" /\ inner = <<>>
  BY DEF AppInit, Init, NoAnswer
<1>2. IInv
  BY InitInv DEF AppInit
<1>3. RootUri \in Path
  BY DEF Path, RootUri, Token, Char
<1>4. root \in ScopeData /\ f \in Frame(1)
  BY <1>3, EmptySeq DEF ScopeData, Frame, Root, Modifier
<1>5. root.prefix = RootUri /\ root.ancestors = <<>>
  OBVIOUS
<1> HIDE DEF root, f
<1>6. /\ scopes \in Seq(ScopeData) /\ Len(scopes) = 1 /\ DOMAIN scopes = {1} /\ scopes[1] = root
      /\ frames \in Seq(Frame(1)) /\ frames # <<>> /\ scopes # <<>>
  BY <1>1, <1>4
<1>7. Types
  BY <1>1, <1>6, EmptySeq DEF Types
<1>8. Underway
  BY <1>1 DEF Underway, Inserting
<1>9. EndpointOfRoute /\ AllPlaced(scopes, endpoints) /\ AllPlaced(scopes, pending)
  BY <1>1 DEF EndpointOfRoute, AllPlaced
<1>10. Rooted(scopes)
  <2>1. Append(<<>>, 1) = <<1>> /\ SubSeq(<<1>>, 1, 0) = <<>>
    BY SubSeqEmpty
  <2>2. NestedIn(scopes, <<1>>, RootUri)
    <3>1. <<1>> # <<>> /\ <<1>>[1] = 1 /\ DOMAIN <<1>> = {1} /\ 1 - 1 = 0
      OBVIOUS
    <3> QED
      BY <1>5, <1>6, <2>1, <3>1 DEF NestedIn, Root
  <2>3. scopes[1].ancestors = <<>> /\ scopes[1].prefix = RootUri /\ DOMAIN <<>> = {}
    BY <1>5, <1>6
  <2>4. \A s \in DOMAIN scopes : s = 1
    BY <1>6
  <2> QED
    BY <2>1, <2>2, <2>3, <2>4 DEF Rooted
<1> QED
  BY <1>2, <1>7, <1>8, <1>9, <1>10 DEF AppIInv

\* and every step keeps it.
LEMMA AppNextInv == AppIInv /\ [AppNext]_<<vars, appVars>> => AppIInv'
<1> SUFFICES ASSUME AppIInv, [AppNext]_<<vars, appVars>> PROVE AppIInv'
  OBVIOUS
<1>1. CASE UNCHANGED <<vars, appVars>>
  <2>1. IInv'
    BY <1>1, NextInv DEF AppIInv
  <2>2. /\ UNCHANGED <<phase, scopes, frames, endpoints, pending, answer>>
        /\ UNCHANGED <<pc, path, inner>>
    BY <1>1 DEF appVars, vars
  <2> QED
    BY <2>1, <2>2, SameTable DEF AppIInv, Types, Underway, Inserting
<1>2. CASE Configure
  BY <1>2, RouteStep, InsertTurnStep, RouteAsteriskStep, MountStep, FrameStep DEF Configure
<1> QED
  BY <1>1, <1>2, ServeStep DEF AppNext

\* The inductive invariant of the application, for every configuration.
THEOREM AppInvariance == AppSpec => []AppIInv
<1> QED
  BY AppInitInv, AppNextInv, PTL DEF AppSpec

\* A configuration is well typed, and stores each endpoint under the index the
\* recognizer returns for its route, whatever was refused before.
THEOREM EndpointsInStep == AppSpec => []AppInv
<1>1. AppIInv => AppInv
  <2> SUFFICES ASSUME AppIInv PROVE AppTypeOK /\ EndpointOfRoute
    BY DEF AppInv
  <2>1. /\ ScopeData \subseteq [prefix : Seq(Token), ancestors : Seq(Nat), default : Seq(Modifier)]
        /\ Endpoint(Len(scopes)) \subseteq
             [scope : 1..Len(scopes), ancestors : Seq(Nat), uri : Seq(Token), handler : Modifier]
    BY DEF ScopeData, Endpoint, Path
  <2>2. /\ scopes \in Seq([prefix : Seq(Token), ancestors : Seq(Nat), default : Seq(Modifier)])
        /\ endpoints \in Seq([scope : 1..Len(scopes), ancestors : Seq(Nat), uri : Seq(Token),
                              handler : Modifier])
        /\ frames \in Seq([scope : 1..Len(scopes), modifier : Modifier]) /\ frames # <<>>
    BY <2>1, SeqMonotonic DEF AppIInv, Types, Frame
  <2>3. pending = <<>> <=> phase # "configure" \/ pc = "idle"
    <3>1. pc \in {"idle", "plant", "segment", "descend", "leaf", "match"}
      BY DEF AppIInv, IInv, TypeOK
    <3>2. Len(pending) = 1 => pending # <<>>
      BY EmptySeq
    <3> QED
      BY <3>1, <3>2 DEF AppIInv, Underway, Inserting
  <2> QED
    BY <2>2, <2>3 DEF AppIInv, AppTypeOK, IInv, Types
<1> QED
  BY AppInvariance, <1>1, PTL

\* The ancestors of a scope are the path to it from the root, along prefixes that
\* extend each other, and those of an endpoint the path to its scope.
THEOREM ScopesAreNested == AppSpec => []ScopesNest
<1>1. AppIInv => ScopesNest
  <2> SUFFICES ASSUME AppIInv PROVE ScopesNest
    OBVIOUS
  <2>1. ASSUME NEW s \in DOMAIN scopes
        PROVE  /\ NestedIn(scopes, Lineage(s), scopes[s].prefix)
               /\ \A a \in ToSet(scopes[s].ancestors) : a < s
    BY DEF AppIInv, Rooted, Lineage, ToSet
  <2>2. ASSUME NEW i \in DOMAIN endpoints
        PROVE  /\ NestedIn(scopes, endpoints[i].ancestors, endpoints[i].uri)
               /\ Last(endpoints[i].ancestors) = endpoints[i].scope
    BY DEF AppIInv, AllPlaced, Placed
  <2> QED
    BY <2>1, <2>2 DEF ScopesNest, NestedIn
<1> QED
  BY AppInvariance, <1>1, PTL

-----------------------------------------------------------------------------
(* Where a search stops *)

\* Where the search has read the first m tokens to, a match may have as well.
LEMMA ReadsTo ==
  ASSUME NEW p, NEW r, NEW m \in Nat, Len(p) \in Nat, Len(r) \in Nat, m <= Len(p), NEW ps, NEW o,
         Reaches(p, m, r, ps, o)
  PROVE  o \in Ends(p, r)[m] /\ \A k \in 1..m : p[k] # "*"
<1>1. PICK pos : Laid(p, m, r, ps, pos) /\ pos[m] = o
  BY DEF Reaches
<1>2. \A k \in 0..m : pos[k] \in 0..Len(r)
  BY <1>1 DEF Laid
<1> DEFINE S == {k \in 0..m : pos[k] \in Ends(p, r)[k]}
<1>3. 0 \in S
  BY <1>1, EndsStep DEF Laid
<1>4. ASSUME NEW k \in 0..m - 1, k \in S PROVE k + 1 \in S
  <2>1. k + 1 \in 1..m /\ (k + 1) - 1 = k /\ k + 1 \in 1..Len(p) /\ k + 1 \in 0..m
    OBVIOUS
  <2>2. Covers(p[k + 1], r, pos[k], pos[k + 1])
    <3>1. /\ p[k + 1] # "*"
          /\ p[k + 1] = ":" => pos[k] <= pos[k + 1] /\ SlashFree(r, pos[k] + 1, pos[k + 1])
          /\ p[k + 1] \notin Wild => pos[k + 1] = pos[k] + 1 /\ r[pos[k + 1]] = p[k + 1]
      BY <1>1, <2>1 DEF Laid
    <3> QED
      BY <3>1 DEF Covers, Wild
  <2>3. pos[k] \in Ends(p, r)[(k + 1) - 1] /\ pos[k + 1] \in 0..Len(r)
    BY <1>2, <1>4, <2>1
  <2>4. pos[k + 1] \in Ends(p, r)[k + 1]
    <3>1. \A i \in 1..Len(p) : \A e :
            e \in Ends(p, r)[i] <=> e \in 0..Len(r) /\ \E d \in Ends(p, r)[i - 1] : Covers(p[i], r, d, e)
      BY EndsStep
    <3>2. PICK i : i = k + 1
      OBVIOUS
    <3>3. i \in 1..Len(p) /\ pos[i] \in 0..Len(r) /\ pos[k] \in Ends(p, r)[i - 1]
          /\ Covers(p[i], r, pos[k], pos[i])
      BY <2>1, <2>2, <2>3, <3>2
    <3>4. pos[i] \in Ends(p, r)[i]
      BY <3>1, <3>3
    <3> QED
      BY <3>2, <3>4
  <2> QED
    BY <2>1, <2>4
<1> HIDE DEF S
<1>5. 0..m \subseteq S
  BY <1>3, <1>4, StepByStep
<1>6. m \in S
  BY <1>5
<1> QED
  BY <1>1, <1>6 DEF S, Laid

\* No parameter lies below n, and nothing at all if n is one.
Ended(n) == FirstTokens(tree, n) \cap Wild = {} /\ (IsStatic(n) \/ Below(tree, n) = {})

\* A search for r that ends in a partial match at n has read all of r, or the
\* text of n, where a request that has text left may end.
Stops(n, r) ==
  \E m \in 0..Len(n) :
    /\ \E o \in Ends(n, r)[m] : o = Len(r) \/ (m = Len(n) /\ Ended(n))
    /\ \A k \in 1..Len(n) : n[k] # "*"

\* No child fits, so no parameter lies below.
LEMMA NoParameterFits ==
  ASSUME TypeOK, cur \in DOMAIN tree, NEW o, Fits(o) = {}
  PROVE  FirstTokens(tree, cur) \cap Wild = {}
<1> SUFFICES ASSUME NEW n \in Below(tree, cur), n[Len(cur) + 1] \in Wild PROVE FALSE
  BY DEF FirstTokens
<1>1. PICK c \in Children(tree, cur) : c[Len(cur) + 1] = n[Len(cur) + 1]
  BY ChildAbove
<1> QED
  BY <1>1 DEF Fits

\* Below a parameter lies nothing but a slash.
LEMMA NothingFits ==
  ASSUME IInv, Radix, cur \in DOMAIN tree, ~IsStatic(cur), NEW o, o < Len(path), path[o + 1] = Slash,
         Fits(o) = {}
  PROVE  Below(tree, cur) = {}
<1> SUFFICES ASSUME NEW n \in Below(tree, cur) PROVE FALSE
  OBVIOUS
<1>1. PICK c \in Children(tree, cur) : c[Len(cur) + 1] = n[Len(cur) + 1]
  BY ChildAbove DEF IInv
<1>2. c \in DOMAIN tree /\ IsStrictPrefix(cur, c) /\ c \in Seq(Token) /\ cur \in Seq(Token)
      /\ Len(c) \in Nat /\ Len(cur) \in Nat /\ Len(cur) > 0
  BY LenProperties, EmptySeq DEF Children, Below, IInv, TypeOK
<1>3. Len(cur) < Len(c) /\ \A j \in 1..Len(cur) : cur[j] = c[j]
  BY <1>2, StrictPrefix
<1>4. Len(cur) \in 1..Len(cur) /\ Len(cur) \in 1..Len(c) - 1
  BY <1>2, <1>3
<1>5. c[Len(cur)] \in Wild
  BY <1>3, <1>4 DEF IsStatic
<1>6. c[Len(cur) + 1] = Slash
  BY <1>2, <1>4, <1>5 DEF Radix, ParametersStandAlone, Spaced
<1> QED
  BY <1>6 DEF Fits

\* A partial match at static text.
LEMMA StopsAtStatic ==
  ASSUME IInv, Radix, Searching, MatchStatic, pc' = "idle", result'.status = "partial"
  PROVE  Stops(cur, path) /\ result'.cands = tree[cur].cands /\ result'.request = path
<1>1. /\ cur \in DOMAIN tree /\ cur \in Seq(Token) /\ path \in Seq(Token) /\ Len(cur) \in Nat
      /\ Len(path) \in Nat /\ offset \in Nat /\ pc = "match" /\ TypeOK
  BY LenProperties DEF IInv, TypeOK, MatchStatic
<1>2. PICK b \in 0..Len(cur) - 1, s \in Seq(Token), rest \in Seq(Token) :
        /\ Walk(b, b) /\ offset <= Len(path) /\ \A k \in b + 1..Len(cur) : cur[k] \notin Wild
        /\ Len(s) = Len(cur) - b /\ \A j \in 1..Len(cur) - b : s[j] = cur[b + j]
        /\ Len(rest) = Len(path) - offset /\ \A j \in 1..Len(path) - offset : rest[j] = path[offset + j]
        /\ \/ Len(s) < Len(rest) /\ IsPrefix(s, rest) /\ Advance(offset + Len(s), params)
           \/ Len(s) > Len(rest) /\ IsPrefix(rest, s) /\ Advance(Len(path), params)
           \/ /\ s = rest /\ tree[cur].leaf # None
              /\ Outcome("ok", tree[cur].leaf, params, wildcard, {})
           \/ s = rest /\ tree[cur].leaf = None /\ Advance(Len(path), params)
           \/ /\ ~IsPrefix(s, rest) /\ ~IsPrefix(rest, s)
              /\ Outcome("not_matched", None, params, wildcard, {})
  BY <1>1, StaticLabel
<1>2a. /\ \A u, v \in Seq(Token) : IsPrefix(u, v) => Len(u) <= Len(v) /\ \A j \in 1..Len(u) : u[j] = v[j]
       /\ b \in Nat /\ Len(s) = Len(cur) - b /\ Len(rest) = Len(path) - offset /\ offset <= Len(path)
       /\ s \in Seq(Token) /\ rest \in Seq(Token) /\ b < Len(cur)
  BY <1>1, <1>2, PrefixAt
<1>3. \/ Len(s) < Len(rest) /\ IsPrefix(s, rest) /\ Advance(offset + Len(s), params)
      \/ IsPrefix(rest, s) /\ Advance(Len(path), params)
  <2>1. \A status, i, ps, w, cands : Outcome(status, i, ps, w, cands) => result'.status = status
    BY DEF Outcome
  <2>2. s = rest => IsPrefix(rest, s)
    BY <1>2, PrefixAt
  <2> QED
    BY <1>2, <2>1, <2>2
<1>4. ASSUME NEW o, Advance(o, params)
      PROVE  /\ Fits(o) = {} /\ result'.cands = tree[cur].cands /\ result'.request = path
             /\ Ended(cur)
  <2>1. Fits(o) = {} /\ PartiallyMatched(params)
    BY <1>1, <1>4 DEF Advance
  <2>2. result'.cands = tree[cur].cands /\ result'.request = path
    BY <2>1 DEF PartiallyMatched, Outcome
  <2>3. FirstTokens(tree, cur) \cap Wild = {}
    BY <1>1, <2>1, NoParameterFits
  <2> QED
    BY <2>1, <2>2, <2>3 DEF Ended, MatchStatic
<1>5. /\ b \in Nat /\ b < Len(cur) /\ Reaches(cur, b, path, params, offset)
  BY <1>1, <1>2 DEF Walk
<1>6. \A k \in 1..Len(cur) : cur[k] # "*"
  <2> SUFFICES ASSUME NEW k \in 1..Len(cur) PROVE cur[k] # "*"
    OBVIOUS
  <2>1. b <= Len(cur)
    BY <1>1, <1>5
  <2>2. \A j \in 1..b : cur[j] # "*"
    BY <1>1, <1>5, <2>1, ReadsTo
  <2>3. k \in 1..b \/ k \in b + 1..Len(cur)
    BY <1>1, <1>5
  <2> QED
    BY <1>2, <2>2, <2>3 DEF Wild
\* What has been read when the two agree up to d.
<1>7. ASSUME NEW d \in Nat, d <= Len(s), d <= Len(rest), \A j \in 1..d : s[j] = rest[j]
      PROVE  offset + d \in Ends(cur, path)[b + d]
  <2>1. \A j \in 1..d : cur[b + j] = path[offset + j]
    <3> SUFFICES ASSUME NEW j \in 1..d PROVE cur[b + j] = path[offset + j]
      OBVIOUS
    <3>1. j \in 1..Len(cur) - b /\ j \in 1..Len(path) - offset
      BY <1>1, <1>2, <1>5, <1>7
    <3> QED
      BY <1>2, <1>7, <3>1
  <2>2. d <= Len(cur) - b /\ offset + d <= Len(path) /\ b + d \in Nat /\ b + d <= Len(cur)
    BY <1>1, <1>2, <1>5, <1>7
  <2>3. Reaches(cur, b + d, path, params, offset + d)
    BY <1>1, <1>2, <1>5, <2>1, <2>2, ReadsLabel
  <2> QED
    BY <1>1, <2>2, <2>3, ReadsTo
<1>8. CASE Len(s) < Len(rest) /\ IsPrefix(s, rest) /\ Advance(offset + Len(s), params)
  <2>1. \A j \in 1..Len(s) : s[j] = rest[j]
    BY <1>8, <1>2a
  <2>2. PICK d : d = Len(s)
    OBVIOUS
  <2>3. d \in Nat /\ d <= Len(s) /\ d <= Len(rest) /\ b + d = Len(cur)
    BY <1>1, <1>8, <1>2a, <2>2
  <2>4. offset + d \in Ends(cur, path)[b + d]
    BY <1>7, <2>1, <2>2, <2>3
  <2>5. Len(cur) \in 0..Len(cur)
    BY <1>1
  <2> QED
    BY <1>4, <1>6, <1>8, <2>3, <2>4, <2>5 DEF Stops
<1>9. CASE IsPrefix(rest, s) /\ Advance(Len(path), params)
  <2>1. Len(rest) <= Len(s) /\ \A j \in 1..Len(rest) : rest[j] = s[j]
    BY <1>9, <1>2a
  <2>2. PICK d : d = Len(rest)
    OBVIOUS
  <2>3. d \in Nat /\ d <= Len(s) /\ d <= Len(rest) /\ b + d \in 0..Len(cur) /\ offset + d = Len(path)
    BY <1>1, <1>2a, <2>1, <2>2
  <2>4. offset + d \in Ends(cur, path)[b + d]
    BY <1>7, <2>1, <2>2, <2>3
  <2> QED
    BY <1>4, <1>6, <1>9, <2>3, <2>4 DEF Stops
<1> QED
  BY <1>3, <1>8, <1>9

\* A partial match at a parameter.
LEMMA StopsAtParam ==
  ASSUME IInv, Radix, Searching, MatchParam, pc' = "idle", result'.status = "partial"
  PROVE  Stops(cur, path) /\ result'.cands = tree[cur].cands /\ result'.request = path
<1>1. /\ cur \in DOMAIN tree /\ cur \in Seq(Token) /\ path \in Seq(Token) /\ Len(cur) \in Nat
      /\ Len(path) \in Nat /\ offset \in Nat /\ pc = "match" /\ cur[Len(cur)] = ":" /\ TypeOK
      /\ params \in Seq(Span)
  BY LenProperties DEF IInv, TypeOK, MatchParam
<1>2. PICK b, m \in Nat :
        /\ Len(cur) = b + 1 /\ m <= b /\ Walk(b, m) /\ offset <= Len(path)
        /\ \A k \in m + 1..b : cur[k] \notin Wild
  BY <1>1, WildWalk DEF Wild
<1>3. Reaches(cur, m, path, params, offset) /\ (m < b => offset = Len(path))
  BY <1>2 DEF Walk
<1>4. offset \in Ends(cur, path)[m] /\ \A k \in 1..m : cur[k] # "*"
  BY <1>1, <1>2, <1>3, ReadsTo
<1>5. \A k \in 1..Len(cur) : cur[k] # "*"
  <2> SUFFICES ASSUME NEW k \in 1..Len(cur) PROVE cur[k] # "*"
    OBVIOUS
  <2>1. k \in 1..m \/ k \in m + 1..b \/ k = Len(cur)
    BY <1>2
  <2> QED
    BY <1>1, <1>2, <1>4, <2>1 DEF Wild
<1>6. PICK end \in offset..Len(path) :
        /\ SlashFree(path, offset + 1, end)
        /\ end < Len(path) => path[end + 1] = Slash
        /\ IF end = Len(path) THEN LeafOrPartial(Append(params, <<offset, end>>), wildcard)
                              ELSE Advance(end, Append(params, <<offset, end>>))
  BY DEF MatchParam
<1>7. m = b => end \in Ends(cur, path)[Len(cur)]
  <2> SUFFICES ASSUME m = b PROVE end \in Ends(cur, path)[Len(cur)]
    OBVIOUS
  <2>1. cur[b + 1] = ":" /\ b + 1 \in Nat /\ b + 1 <= Len(cur)
    BY <1>1, <1>2
  <2>2. Reaches(cur, b + 1, path, Append(params, <<offset, end>>), end)
    BY <1>1, <1>2, <1>3, <1>6, <2>1, ReachParam
  <2> QED
    BY <1>1, <1>2, <2>1, <2>2, ReadsTo
<1>8. \E n \in 0..Len(cur) : \E o \in Ends(cur, path)[n] :
        o = Len(path) \/ (n = Len(cur) /\ (end = Len(path) \/ Fits(end) = {}))
  <2>1. CASE m < b
    <3>1. m \in 0..Len(cur)
      BY <1>2
    <3> QED
      BY <1>3, <1>4, <2>1, <3>1
  <2>2. CASE m = b
    <3>1. end = Len(path) \/ Fits(end) = {}
      BY <1>1, <1>6 DEF Advance
    <3>2. Len(cur) \in 0..Len(cur)
      BY <1>1
    <3> QED
      BY <1>7, <2>2, <3>1, <3>2
  <2> QED
    BY <1>2, <2>1, <2>2
<1>9. result'.cands = tree[cur].cands /\ result'.request = path
  <2>1. PICK ps : ps = Append(params, <<offset, end>>)
    OBVIOUS
  <2>2. LeafOrPartial(ps, wildcard) \/ Advance(end, ps)
    BY <1>6, <2>1
  <2>3. CASE LeafOrPartial(ps, wildcard)
    <3>1. tree[cur].leaf = None
      BY <2>3 DEF LeafOrPartial, Outcome
    <3> QED
      BY <2>3, <3>1 DEF LeafOrPartial, Outcome
  <2>4. CASE Advance(end, ps)
    <3>1. PartiallyMatched(ps)
      BY <1>1, <2>4 DEF Advance
    <3> QED
      BY <3>1 DEF PartiallyMatched, Outcome
  <2> QED
    BY <2>2, <2>3, <2>4
<1>10. PICK n \in 0..Len(cur) : \E o \in Ends(cur, path)[n] :
         o = Len(path) \/ (n = Len(cur) /\ Ended(cur))
  <2>1. CASE Fits(end) = {} /\ end # Len(path)
    <3>1. end < Len(path) /\ path[end + 1] = Slash
      BY <1>1, <1>6, <2>1
    <3>2. ~IsStatic(cur)
      BY <1>1 DEF IsStatic, Wild
    <3>3. Ended(cur)
      BY <1>1, <2>1, <3>1, <3>2, NoParameterFits, NothingFits DEF Ended
    <3> QED
      BY <1>8, <2>1, <3>3
  <2>2. CASE end = Len(path) /\ m = b
    <3>1. Len(cur) \in 0..Len(cur)
      BY <1>1
    <3> QED
      BY <1>7, <2>2, <3>1
  <2>3. CASE m < b
    <3>1. m \in 0..Len(cur)
      BY <1>2
    <3> QED
      BY <1>3, <1>4, <2>3, <3>1
  <2>4. end = Len(path) \/ Fits(end) = {}
    BY <1>1, <1>6 DEF Advance
  <2> QED
    BY <1>2, <2>1, <2>2, <2>3, <2>4
<1> QED
  BY <1>5, <1>9, <1>10 DEF Stops

\* A search never stops at a catch-all.
LEMMA StopsAtNoCatchAll ==
  ASSUME IInv, Radix, MatchCatchAll
  PROVE  pc' = "idle" /\ result'.status = "ok"
<1>1. cur \in DOMAIN tree /\ cur[Len(cur)] = "*"
  BY DEF MatchCatchAll, IInv, TypeOK
<1>2. tree[cur].leaf # None
  BY <1>1 DEF Radix, CatchAllsEnd
<1> QED
  BY <1>2 DEF MatchCatchAll, LeafOrPartial, Outcome, Idle

-----------------------------------------------------------------------------
(* infer_scope *)

\* The common beginning of lineages is one of each, with the root.
LEMMA CommonLineage ==
  ASSUME NEW S, S # {}, \A l \in S : l \in Seq(Nat) /\ l # <<>> /\ l[1] = Root
  PROVE  LET common == LongestCommonPrefix(S) IN
         /\ common \in Seq(Nat) /\ Len(common) > 0 /\ common[1] = Root
         /\ \A l \in S : IsPrefix(common, l)
<1>1. PICK l0 \in S : l0 \in Seq(Nat) /\ Len(l0) \in Nat /\ Len(l0) > 0 /\ l0[1] = Root
  BY LenProperties, EmptySeq
<1> DEFINE P == CommonPrefixes(S)
<1>2. \A x \in P : /\ \E l \in S : \E k \in 0..Len(l) : x = SubSeq(l, 1, k)
                   /\ \A l \in S : IsPrefix(x, l)
  BY DEF CommonPrefixes, Prefixes
<1>3. \A x \in P : x \in Seq(Nat) /\ Len(x) \in Nat /\ Len(x) <= Len(l0)
  <2> SUFFICES ASSUME NEW x \in P PROVE x \in Seq(Nat) /\ Len(x) \in Nat /\ Len(x) <= Len(l0)
    OBVIOUS
  <2>1. PICK l \in S : \E k \in 0..Len(l) : x = SubSeq(l, 1, k)
    BY <1>2
  <2>0. PICK k \in 0..Len(l) : x = SubSeq(l, 1, k)
    BY <2>1
  <2>2. l \in Seq(Nat) /\ Len(l) \in Nat /\ k \in Nat /\ k <= Len(l)
    BY <2>0, LenProperties
  <2>3. \A j \in 1..k : l[j] \in Nat
    BY <2>2, ElementOfSeq
  <2>4. x \in Seq(Nat) /\ Len(x) \in Nat
    BY <2>0, <2>2, <2>3, SubSeqProperties, LenProperties
  <2>5. Len(x) <= Len(l0)
    BY <1>1, <1>2 DEF IsPrefix
  <2> QED
    BY <2>4, <2>5
<1>4. <<Root>> \in P
  <2>1. \A l \in S : SubSeq(l, 1, 1) = <<Root>> /\ 1 \in 0..Len(l) /\ Len(<<Root>>) <= Len(l)
    <3> SUFFICES ASSUME NEW l \in S
                 PROVE  SubSeq(l, 1, 1) = <<Root>> /\ 1 \in 0..Len(l) /\ Len(<<Root>>) <= Len(l)
      OBVIOUS
    <3>1. l \in Seq(Nat) /\ Len(l) \in Nat /\ Len(l) > 0 /\ l[1] = Root /\ Root \in Nat
      BY LenProperties, EmptySeq DEF Root
    <3>2. \A j \in 1..1 : l[j] \in Nat
      BY <3>1
    <3>3. SubSeq(l, 1, 1) \in Seq(Nat) /\ Len(SubSeq(l, 1, 1)) = 1 /\ SubSeq(l, 1, 1)[1] = l[1]
      BY <3>1, <3>2, SubSeqProperties
    <3>4. <<Root>> \in Seq(Nat) /\ Len(<<Root>>) = 1 /\ <<Root>>[1] = Root
      BY <3>1
    <3>5. SubSeq(l, 1, 1) = <<Root>>
      <4>1. PICK u : u = SubSeq(l, 1, 1)
        OBVIOUS
      <4>2. u \in Seq(Nat) /\ Len(u) = 1 /\ u[1] = Root
        BY <3>1, <3>3, <4>1
      <4>3. u = <<Root>>
        BY <3>4, <4>2, SeqEqual
      <4> QED
        BY <4>1, <4>3
    <3> QED
      BY <3>1, <3>4, <3>5
  <2>2. Len(<<Root>>) = 1
    OBVIOUS
  <2>3. \A l \in S : IsPrefix(<<Root>>, l)
    BY <2>1, <2>2 DEF IsPrefix
  <2>4. <<Root>> \in Prefixes(l0)
    <3>1. SubSeq(l0, 1, 1) = <<Root>> /\ 1 \in 0..Len(l0)
      BY <1>1, <2>1
    <3> QED
      BY <3>1 DEF Prefixes
  <2>5. <<Root>> \in UNION {Prefixes(l) : l \in S}
    BY <1>1, <2>4
  <2> QED
    BY <2>3, <2>5 DEF CommonPrefixes
<1>5. \E x \in P : \A y \in P : Len(y) <= Len(x)
  <2> DEFINE T == {Len(l0) - Len(x) : x \in P}
  <2>1. T \subseteq Nat /\ T # {}
    BY <1>1, <1>3, <1>4
  <2>2. PICK t \in T : \A u \in T : ~(u < t)
    BY <2>1, LeastOf
  <2>3. PICK x \in P : t = Len(l0) - Len(x)
    OBVIOUS
  <2>4. ASSUME NEW y \in P PROVE Len(y) <= Len(x)
    <3>1. ~(Len(l0) - Len(y) < Len(l0) - Len(x))
      BY <2>2, <2>3
    <3> QED
      BY <1>1, <1>3, <3>1
  <2> QED
    BY <2>4
<1> DEFINE c == LongestCommonPrefix(S)
<1>6. c \in P /\ \A y \in P : Len(y) <= Len(c)
  BY <1>5 DEF LongestCommonPrefix
<1> HIDE DEF c, P
<1>7. c \in Seq(Nat) /\ Len(c) \in Nat /\ \A l \in S : IsPrefix(c, l)
  BY <1>2, <1>3, <1>6
<1>8. Len(c) > 0
  <2>1. Len(<<Root>>) <= Len(c) /\ Len(<<Root>>) = 1
    BY <1>4, <1>6
  <2> QED
    BY <1>7, <2>1
<1>9. c[1] = Root
  <2>1. Len(c) <= Len(l0) /\ \A j \in 1..Len(c) : c[j] = l0[j]
    BY <1>1, <1>7, PrefixAt
  <2>2. 1 \in 1..Len(c)
    BY <1>7, <1>8
  <2> QED
    BY <1>1, <2>1, <2>2
<1> QED
  BY <1>7, <1>8, <1>9 DEF c

\* The scope infer_scope finds is an ancestor of all candidates, or the root
\* when there is none.
LEMMA InferredScope ==
  ASSUME AppIInv, NEW cands, cands \subseteq Nat, NEW r
  PROVE  /\ \A i \in DOMAIN endpoints : i - 1 \in cands =>
              \E k \in DOMAIN endpoints[i].ancestors : InferScope(r, cands) = endpoints[i].ancestors[k]
         /\ InferScope(r, cands) = Root \/ \E i \in DOMAIN endpoints : i - 1 \in cands
<1> DEFINE known == {j \in cands : j < Len(endpoints)}
           S == {endpoints[i + 1].ancestors : i \in known}
           common == LongestCommonPrefix(S)
           ahead == {k \in DOMAIN common : IsPrefix(r, scopes[common[k]].prefix)}
           s == InferScope(r, cands)
<1>1. s = IF S = {} THEN Root
          ELSE IF ahead = {} THEN Last(common)
          ELSE common[CHOOSE k \in ahead : \A j \in ahead : k <= j]
  BY DEF InferScope
<1>2. DOMAIN endpoints = 1..Len(endpoints) /\ Len(endpoints) \in Nat
  BY LenProperties DEF AppIInv, Types
<1>3. \A i \in DOMAIN endpoints :
        /\ endpoints[i].ancestors \in Seq(Nat)
        /\ endpoints[i].ancestors # <<>> /\ endpoints[i].ancestors[1] = Root
  <2>1. \A i \in DOMAIN endpoints : endpoints[i] \in Endpoint(Len(scopes))
    BY <1>2, ElementOfSeq DEF AppIInv, Types
  <2> QED
    BY <2>1 DEF Endpoint, AppIInv, AllPlaced, Placed, NestedIn
<1>4. ASSUME NEW i \in DOMAIN endpoints, i - 1 \in cands
      PROVE  endpoints[i].ancestors \in S
  <2>1. i - 1 \in known /\ (i - 1) + 1 = i
    BY <1>2, <1>4
  <2> QED
    BY <2>1
<1>5. ASSUME NEW l \in S PROVE \E i \in DOMAIN endpoints : i - 1 \in cands /\ l = endpoints[i].ancestors
  <2>1. PICK j \in known : l = endpoints[j + 1].ancestors
    OBVIOUS
  <2>2. j + 1 \in DOMAIN endpoints /\ (j + 1) - 1 \in cands
    BY <1>2
  <2> QED
    BY <2>1, <2>2
<1> HIDE DEF S
<1>6. CASE S = {}
  BY <1>1, <1>4, <1>6
<1>7. CASE S # {}
  <2>1. \A l \in S : l \in Seq(Nat) /\ l # <<>> /\ l[1] = Root
    BY <1>3, <1>5
  <2>2. /\ common \in Seq(Nat) /\ Len(common) > 0 /\ \A l \in S : IsPrefix(common, l)
    BY <1>7, <2>1, CommonLineage
  <2>3. DOMAIN common = 1..Len(common) /\ Len(common) \in Nat
    BY <2>2, LenProperties
  <2>4. \E k \in 1..Len(common) : s = common[k]
    <3>1. CASE ahead = {}
      <4>1. s = common[Len(common)] /\ Len(common) \in 1..Len(common)
        BY <1>1, <1>7, <2>2, <2>3, <3>1 DEF Last
      <4> QED
        BY <4>1
    <3>2. CASE ahead # {}
      <4>1. ahead \subseteq Nat
        BY <2>3
      <4>2. PICK x \in ahead : \A y \in ahead : ~(y < x)
        BY <3>2, <4>1, LeastOf
      <4>3. \A y \in ahead : x <= y
        BY <4>1, <4>2
      <4>4. (CHOOSE k \in ahead : \A j \in ahead : k <= j) \in ahead
        BY <4>3
      <4>5. s = common[CHOOSE k \in ahead : \A j \in ahead : k <= j]
        BY <1>1, <1>7, <3>2
      <4> QED
        BY <2>3, <4>4, <4>5
    <3> QED
      BY <3>1, <3>2
  <2> HIDE DEF common, s
  <2>5. PICK k \in 1..Len(common) : s = common[k]
    BY <2>4
  <2>6. ASSUME NEW l \in S PROVE k \in DOMAIN l /\ s = l[k]
    <3>1. l \in Seq(Nat) /\ DOMAIN l = 1..Len(l) /\ Len(l) \in Nat
      BY <2>1, LenProperties
    <3>2. Len(common) <= Len(l) /\ \A j \in 1..Len(common) : common[j] = l[j]
      BY <2>2, <3>1, PrefixAt
    <3> QED
      BY <2>3, <2>5, <3>1, <3>2
  <2>7. \E i \in DOMAIN endpoints : i - 1 \in cands
    BY <1>5, <1>7
  <2> QED
    BY <1>4, <2>6, <2>7 DEF s
<1> QED
  BY <1>6, <1>7

\* The names of a path joined of two stand where a name may stand.
LEMMA JoinNamed ==
  ASSUME NEW u \in Path, NEW v \in Path, WellNamed(u), WellNamed(v)
  PROVE  WellNamed(Join(u, v))
<1> DEFINE w == IF Last(u) = Slash THEN Tail(v) ELSE v
           g == u \o w
<1>1. /\ u \in Seq(Token) /\ v \in Seq(Token) /\ v # <<>> /\ Len(u) \in Nat \ {0} /\ Len(v) \in Nat \ {0}
      /\ u[1] = Slash /\ v[1] = Slash
  BY EmptySeq DEF Path
<1>2. w \in Seq(Token) /\ Len(w) \in Nat
  BY <1>1, HeadTailProperties, LenProperties
<1>3. \A k \in 1..Len(w) - 1 : w[k] \in Wild => w[k + 1] \notin Letters
  <2>1. CASE Last(u) = Slash
    <3>1. Len(Tail(v)) = Len(v) - 1 /\ \A i \in 1..Len(Tail(v)) : Tail(v)[i] = v[i + 1]
      BY <1>1, HeadTailProperties
    <3>2. w = Tail(v)
      BY <2>1
    <3> HIDE DEF w
    <3>3. ASSUME NEW k \in 1..Len(w) - 1, w[k] \in Wild PROVE w[k + 1] \notin Letters
      <4>1. k + 1 \in 1..Len(v) - 1 /\ w[k] = v[k + 1] /\ w[k + 1] = v[(k + 1) + 1]
        <5>1. k \in 1..Len(w) /\ k + 1 \in 1..Len(w) /\ k + 1 \in 1..Len(v) - 1
          BY <1>1, <1>2, <3>1, <3>2
        <5> QED
          BY <3>1, <3>2, <5>1
      <4> QED
        BY <3>3, <4>1 DEF WellNamed
    <3> QED
      BY <3>3
  <2>2. CASE Last(u) # Slash
    BY <2>2 DEF WellNamed
  <2> QED
    BY <2>1, <2>2
<1>4. Last(u) \in Wild => w = v
  BY DEF Wild, Slash
<1> HIDE DEF w
<1>5. /\ g \in Seq(Token) /\ Len(g) = Len(u) + Len(w)
      /\ \A j \in 1..Len(u) + Len(w) : g[j] = IF j <= Len(u) THEN u[j] ELSE w[j - Len(u)]
  BY <1>1, <1>2, ConcatProperties
<1>6. Join(u, v) = IF u = RootUri THEN v ELSE IF v = RootUri THEN u ELSE g
  BY DEF Join, w
<1> HIDE DEF g
<1>7. WellNamed(g)
  <2> SUFFICES ASSUME NEW k \in 1..Len(g) - 1, g[k] \in Wild PROVE g[k + 1] \notin Letters
    BY DEF WellNamed
  <2>1. CASE k < Len(u)
    <3>1. g[k] = u[k] /\ g[k + 1] = u[k + 1] /\ k \in 1..Len(u) - 1
      BY <1>1, <1>2, <1>5, <2>1
    <3> QED
      BY <3>1 DEF WellNamed
  <2>2. CASE k = Len(u)
    <3>1. g[k] = u[Len(u)] /\ g[k + 1] = w[1]
      <4>1. /\ k \in 1..Len(u) + Len(w) /\ k + 1 \in 1..Len(u) + Len(w) /\ k <= Len(u)
            /\ ~(k + 1 <= Len(u)) /\ k + 1 - Len(u) = 1
        BY <1>1, <1>2, <1>5, <2>2
      <4> QED
        BY <1>5, <2>2, <4>1
    <3>2. Last(u) = u[Len(u)]
      BY DEF Last
    <3>3. w[1] = Slash
      BY <1>1, <1>4, <3>1, <3>2
    <3> QED
      BY <3>1, <3>3, LettersAreStatic
  <2>3. CASE k > Len(u)
    <3>1. PICK i : i = k - Len(u)
      OBVIOUS
    <3>2. i \in 1..Len(w) - 1 /\ g[k] = w[i] /\ g[k + 1] = w[i + 1]
      <4>1. i \in 1..Len(w) - 1 /\ k + 1 - Len(u) = i + 1 /\ k \in 1..Len(u) + Len(w)
            /\ k + 1 \in 1..Len(u) + Len(w) /\ ~(k <= Len(u)) /\ ~(k + 1 <= Len(u))
        BY <1>1, <1>2, <1>5, <2>3, <3>1
      <4> QED
        BY <1>5, <3>1, <4>1
    <3> QED
      BY <1>3, <3>2
  <2> QED
    BY <1>1, <1>2, <1>5, <2>1, <2>2, <2>3
<1> QED
  BY <1>6, <1>7

-----------------------------------------------------------------------------
(* The scope of a default handler *)

\* Routes that begin the same way may end at the same places.
LEMMA EndsSame ==
  ASSUME NEW p, NEW q, NEW r, Len(p) \in Nat, Len(q) \in Nat, NEW m \in Nat, m <= Len(p), m <= Len(q),
         Same(p, q, m)
  PROVE  \A k \in 0..m : Ends(p, r)[k] = Ends(q, r)[k]
<1> DEFINE S == {k \in 0..m : Ends(p, r)[k] = Ends(q, r)[k]}
<1>1. 0 \in S
  <2>1. 0 \in 0..m /\ Ends(p, r)[0] = {0} /\ Ends(q, r)[0] = {0}
    BY EndsStep
  <2> QED
    BY <2>1
<1>2. ASSUME NEW k \in 0..m - 1, k \in S PROVE k + 1 \in S
  <2>1. PICK i : i = k + 1
    OBVIOUS
  <2>2. i \in 1..Len(p) /\ i \in 1..Len(q) /\ i - 1 = k /\ i \in 0..m /\ p[i] = q[i]
    BY <2>1 DEF Same
  <2>3. \A e : e \in Ends(p, r)[i] <=> e \in 0..Len(r) /\ \E d \in Ends(p, r)[i - 1] : Covers(p[i], r, d, e)
    BY <2>2, EndsStep
  <2>4. \A e : e \in Ends(q, r)[i] <=> e \in 0..Len(r) /\ \E d \in Ends(q, r)[i - 1] : Covers(q[i], r, d, e)
    BY <2>2, EndsStep
  <2>5. Ends(p, r)[i] = Ends(q, r)[i]
    BY <1>2, <2>2, <2>3, <2>4
  <2> QED
    BY <2>1, <2>2, <2>5
<1> HIDE DEF S
<1>3. 0..m \subseteq S
  BY <1>1, <1>2, StepByStep
<1> QED
  BY <1>3 DEF S

\* What a match reads of the request does not depend on what follows.
LEMMA EndsBefore ==
  ASSUME NEW p, NEW r \in Seq(Char), Len(p) \in Nat, NEW m \in Nat, m <= Len(p), NEW o \in 0..Len(r),
         o \in Ends(p, r)[m], \A k \in 1..m : p[k] # "*"
  PROVE  /\ Len(SubSeq(r, 1, o)) = o
         /\ o \in Ends(p, SubSeq(r, 1, o))[m]
<1>1. PICK t : t = SubSeq(r, 1, o)
  OBVIOUS
<1>2. Len(r) \in Nat /\ Len(t) = o /\ \A j \in 1..o : t[j] = r[j]
  <2>1. Len(r) \in Nat /\ o \in Nat /\ o <= Len(r)
    BY LenProperties
  <2>2. \A j \in 1..o : r[j] \in Char
    BY <2>1, ElementOfSeq
  <2> QED
    BY <1>1, <2>1, <2>2, SubSeqProperties
<1> DEFINE S == {k \in 0..m : \A e \in Ends(p, r)[k] : e \in 0..o => e \in Ends(p, t)[k]}
<1>3. 0 \in S
  BY EndsStep
<1>4. ASSUME NEW k \in 0..m - 1, k \in S PROVE k + 1 \in S
  <2>1. PICK i : i = k + 1
    OBVIOUS
  <2>2. i \in 1..Len(p) /\ i \in 1..m /\ i - 1 = k /\ i \in 0..m /\ k \in 0..Len(p)
    BY <2>1
  <2>3. \A e : e \in Ends(p, r)[i] <=> e \in 0..Len(r) /\ \E d \in Ends(p, r)[i - 1] : Covers(p[i], r, d, e)
    BY <2>2, EndsStep
  <2>4. \A e : e \in Ends(p, t)[i] <=> e \in 0..Len(t) /\ \E d \in Ends(p, t)[i - 1] : Covers(p[i], t, d, e)
    BY <2>2, EndsStep
  <2>5. \A d \in Ends(p, r)[k] : d \in Nat
    <3>1. CASE k = 0
      BY <3>1, EndsStep
    <3>2. CASE k # 0
      <4>1. k \in 1..Len(p)
        BY <2>2, <3>2
      <4>2. \A d : d \in Ends(p, r)[k] => d \in 0..Len(r)
        BY <4>1, EndsStep
      <4> QED
        BY <4>2
    <3> QED
      BY <3>1, <3>2
  <2>6. ASSUME NEW e \in Ends(p, r)[i], e \in 0..o PROVE e \in Ends(p, t)[i]
    <3>1. PICK d \in Ends(p, r)[k] : Covers(p[i], r, d, e)
      BY <2>2, <2>3
    <3>2. d \in Nat /\ d <= e /\ p[i] # "*"
      BY <2>2, <2>5, <2>6, <3>1 DEF Covers
    <3>3. d \in Ends(p, t)[k]
      <4>1. d \in 0..o
        BY <2>6, <3>2
      <4> QED
        BY <1>4, <4>1
    <3>4. \A j \in d + 1..e : t[j] = r[j]
      BY <1>2, <2>6, <3>2
    <3>5. e = d + 1 => e \in d + 1..e
      BY <3>2
    <3>6. Covers(p[i], t, d, e)
      BY <3>1, <3>2, <3>4, <3>5 DEF Covers, SlashFree
    <3> QED
      BY <1>2, <2>2, <2>4, <2>6, <3>3, <3>6
  <2> QED
    BY <2>1, <2>2, <2>6
<1> HIDE DEF S
<1>5. 0..m \subseteq S
  BY <1>3, <1>4, StepByStep
<1>6. m \in S
  BY <1>5
<1>7. o \in 0..o
  BY <1>2
<1> QED
  BY <1>1, <1>2, <1>6, <1>7 DEF S

\* A request that was read along n runs along whatever n runs along.
LEMMA AlongNode ==
  ASSUME NEW P \in Seq(Token), NEW n \in Seq(Token), NEW r \in Seq(Char), NEW m \in 0..Len(n),
         NEW o \in Ends(n, r)[m], \A k \in 1..Len(n) : n[k] # "*",
         \A j \in 1..Len(P) : j <= Len(n) => Shape(P[j]) = Shape(n[j]),
         o = Len(r) \/ (m = Len(n) /\ Len(P) <= Len(n))
  PROVE  Along(P, r)
<1>1. Len(P) \in Nat /\ Len(n) \in Nat /\ Len(r) \in Nat /\ m \in Nat /\ m <= Len(n)
  BY LenProperties
<1>2. \A k \in 0..m : Ends(n, r)[k] # {}
  <2> SUFFICES ASSUME NEW k \in 0..m, Ends(n, r)[k] = {} PROVE FALSE
    OBVIOUS
  <2>1. k \in 0..Len(n) /\ m \in k..Len(n)
    BY <1>1
  <2> QED
    BY <1>1, <2>1, EndsStayEmpty
<1>3. ASSUME NEW l \in Nat, l <= m, l <= Len(P), \A j \in 1..l : P[j] # "*"
      PROVE  Same(P, n, l) /\ \A k \in 0..l : Ends(P, r)[k] = Ends(n, r)[k]
  <2>1. ASSUME NEW j \in 1..l PROVE P[j] = n[j]
    <3>1. j \in 1..Len(P) /\ j \in 1..Len(n) /\ j <= Len(n)
      BY <1>1, <1>3
    <3>2. P[j] # "*" /\ n[j] # "*" /\ Shape(P[j]) = Shape(n[j])
      BY <1>3, <3>1
    <3> QED
      BY <3>2 DEF Shape, Wild
  <2>2. Same(P, n, l)
    BY <2>1 DEF Same
  <2>3. l <= Len(n)
    BY <1>1, <1>3
  <2> QED
    BY <1>1, <1>3, <2>2, <2>3, EndsSame
<1>4. CASE \E k \in 1..Len(P) : k <= m /\ P[k] = "*"
  <2> DEFINE T == {k \in 1..Len(P) : k <= m /\ P[k] = "*"}
  <2>1. T \subseteq Nat /\ T # {}
    <3>1. T # {}
      BY <1>4
    <3>2. \A k \in 1..Len(P) : k \in Nat
      BY <1>1
    <3> QED
      BY <3>1, <3>2
  <2>2. PICK k \in T : \A y \in T : ~(y < k)
    BY <2>1, LeastOf
  <2>3. PICK l : l = k - 1
    OBVIOUS
  <2>4. l \in Nat /\ l <= m /\ l <= Len(P) /\ k \in 1..Len(P) /\ k - 1 = l /\ P[k] = "*" /\ l \in 0..m /\ l \in 0..l
    BY <1>1, <2>3
  <2>5. \A j \in 1..l : P[j] # "*"
    BY <1>1, <2>2, <2>4
  <2>6. Ends(P, r)[l] = Ends(n, r)[l]
    BY <1>3, <2>4, <2>5
  <2>7. PICK d : d \in Ends(P, r)[l]
    BY <1>2, <2>4, <2>6
  <2>8. Covers(P[k], r, d, Len(r)) /\ Len(r) \in 0..Len(r)
    BY <1>1, <2>4 DEF Covers
  <2>9. Len(r) \in Ends(P, r)[k]
    BY <1>1, <2>4, <2>7, <2>8, EndsStep
  <2>10. k \in 0..Len(P)
    BY <2>4
  <2> QED
    BY <2>9, <2>10 DEF Along, Extendable
<1>5. CASE /\ ~\E k \in 1..Len(P) : k <= m /\ P[k] = "*"
           /\ o = Len(r) /\ m <= Len(P)
  <2>1. \A j \in 1..m : P[j] # "*"
    BY <1>1, <1>5
  <2>2. m \in 0..m /\ m \in 0..Len(P)
    BY <1>1, <1>5
  <2>3. Ends(P, r)[m] = Ends(n, r)[m]
    BY <1>1, <1>3, <1>5, <2>1, <2>2
  <2> QED
    BY <1>5, <2>2, <2>3 DEF Along, Extendable
<1>6. CASE /\ ~\E k \in 1..Len(P) : k <= m /\ P[k] = "*"
           /\ Len(P) <= m
  <2>1. PICK l : l = Len(P)
    OBVIOUS
  <2>2. l \in Nat /\ l <= m /\ l <= Len(P) /\ l \in 0..l /\ l \in 0..m
    BY <1>1, <1>6, <2>1
  <2>3. \A j \in 1..l : P[j] # "*"
    BY <1>1, <1>6, <2>1
  <2>4. Ends(P, r)[l] = Ends(n, r)[l]
    BY <1>3, <2>2, <2>3
  <2>5. PICK e : e \in Ends(P, r)[l]
    BY <1>2, <2>2, <2>4
  <2>6. e \in 0..Len(r)
    <3>1. CASE l = 0
      BY <1>1, <2>5, <3>1, EndsStep
    <3>2. CASE l # 0
      <4>1. l \in 1..Len(P)
        BY <1>1, <2>1, <3>2
      <4> QED
        BY <1>1, <2>5, <4>1, EndsStep
    <3> QED
      BY <3>1, <3>2
  <2>7. Len(SubSeq(r, 1, e)) = e /\ e \in Ends(P, SubSeq(r, 1, e))[l]
    BY <1>1, <2>2, <2>3, <2>5, <2>6, EndsBefore
  <2>8. Matches(P, SubSeq(r, 1, e))
    BY <2>1, <2>7 DEF Matches
  <2> QED
    BY <2>6, <2>8 DEF Along
<1>7. m <= Len(P) \/ Len(P) <= m
  BY <1>1
<1> QED
  BY <1>1, <1>4, <1>5, <1>6, <1>7

\* The leaf of a candidate that leads to c lies at c or below.
LEMMA LeafBelow ==
  ASSUME IInv, NEW c \in DOMAIN tree, NEW i \in tree[c].cands, i < Len(inner),
         SamePrefix(c, inner[i + 1], Len(c))
  PROVE  \E w \in DOMAIN tree :
           /\ tree[w].leaf = i /\ i # None /\ Under(w, c) /\ SameShape(w, inner[i + 1])
           /\ inner[i + 1] \in Seq(Token)
<1>1. i \in Nat /\ c \in Seq(Token) /\ Len(c) \in Nat /\ Len(c) > 0 /\ c[1] = Slash
  <2>1. tree[c] \in Node /\ c \in Seq(Token) /\ c # <<>>
    BY DEF IInv, TypeOK
  <2>2. c[1] = Slash
    BY DEF IInv, TreeInv, ParametersAreNodes
  <2> QED
    BY <2>1, <2>2, LenProperties, EmptySeq DEF Node
<1>2. PICK q : q = inner[i + 1]
  OBVIOUS
<1>3. /\ q \in Seq(Token) /\ Len(q) \in Nat /\ i + 1 \in 1..Len(inner) /\ (i + 1) - 1 = i
      /\ Len(c) <= Len(q) /\ \A j \in 1..Len(c) : Shape(c[j]) = Shape(q[j])
  <2>1. i + 1 \in 1..Len(inner) /\ (i + 1) - 1 = i
    <3>1. Len(inner) \in Nat
      BY LenProperties DEF IInv, TypeOK
    <3> QED
      BY <1>1, <3>1
  <2>2. q \in Seq(Token)
    BY <1>2, <2>1, ElementOfSeq DEF IInv, TypeOK
  <2> QED
    BY <1>2, <2>1, <2>2, LenProperties DEF SamePrefix
<1>4. q # Asterisk
  <2> SUFFICES ASSUME q = Asterisk PROVE FALSE
    OBVIOUS
  <2>1. 1 \in 1..Len(c)
    BY <1>1
  <2>2. Shape(c[1]) = Shape(q[1])
    BY <1>3, <2>1
  <2> QED
    BY <1>1, <2>2 DEF Shape, Slash, Wild, Asterisk
<1>5. PICK w \in DOMAIN tree : tree[w].leaf = i
  BY <1>2, <1>3, <1>4 DEF IInv, TreeInv, LeafSpellsRoute
<1>6. i # None /\ SameShape(w, q) /\ w \in Seq(Token) /\ Len(w) \in Nat
  <2>1. tree[w].leaf # None
    BY <1>1, <1>5 DEF None
  <2> QED
    BY <1>2, <1>5, <2>1, LenProperties DEF IInv, TypeOK, TreeInv, LeafSpellsRoute
<1>7. Len(w) = Len(q) /\ \A j \in 1..Len(q) : Shape(w[j]) = Shape(q[j])
  BY <1>6 DEF SameShape, SamePrefix
<1>8. ASSUME NEW k \in 1..Len(c) PROVE c[k] = w[k]
  <2>1. SamePrefix(c, w, k)
    BY <1>1, <1>3, <1>6, <1>7 DEF SamePrefix
  <2> QED
    BY <1>1, <2>1 DEF IInv, TreeInv, OneWayDown
<1>9. Under(w, c)
  BY <1>3, <1>7, <1>8 DEF Under, Same
<1> QED
  BY <1>2, <1>3, <1>5, <1>6, <1>9

\* The candidates of the nodes below a node that stands for no parameter tell
\* how their routes go on.
LEMMA TokenAhead ==
  ASSUME IInv, Radix, CandidatesLeadHere, \A m \in DOMAIN tree : tree[m].cands # {},
         NEW n \in DOMAIN tree, FirstTokens(tree, n) \cap Wild = {}, NEW s \in FirstTokens(tree, n),
         NEW P \in Seq(Token), \A i \in tree[n].cands : IsPrefix(P, inner[i + 1]), Len(P) > Len(n)
  PROVE  P[Len(n) + 1] = s
<1>1. PICK c \in Below(tree, n) : s = c[Len(n) + 1]
  BY DEF FirstTokens
<1>2. /\ c \in DOMAIN tree /\ c \in Seq(Token) /\ n \in Seq(Token) /\ Len(c) \in Nat /\ Len(n) \in Nat
      /\ Len(P) \in Nat /\ s \notin Wild
  BY <1>1, LenProperties DEF Below, IInv, TypeOK
<1>3. Len(n) < Len(c) /\ \A j \in 1..Len(n) : n[j] = c[j]
  BY <1>1, <1>2, StrictPrefix DEF Below
<1>4. PICK i : i \in tree[c].cands
  BY <1>2
<1>5. i < Len(inner) /\ SamePrefix(c, inner[i + 1], Len(c))
  BY <1>2, <1>4 DEF CandidatesLeadHere
<1>6. PICK q : q = inner[i + 1]
  OBVIOUS
<1>7. PICK w \in DOMAIN tree : tree[w].leaf = i /\ i # None /\ Under(w, c) /\ q \in Seq(Token)
  BY <1>2, <1>4, <1>5, <1>6, LeafBelow
<1>8. Len(q) \in Nat /\ w \in Seq(Token) /\ Len(w) \in Nat
  BY <1>7, LenProperties DEF IInv, TypeOK
<1>9. i \in tree[n].cands
  <2>1. Under(w, n)
    BY <1>2, <1>3, <1>7, <1>8 DEF Under, Same
  <2> QED
    BY <1>7, <2>1 DEF Radix, Candidates
<1>10. IsPrefix(P, q)
  BY <1>6, <1>9
<1>11. Len(P) <= Len(q) /\ \A j \in 1..Len(P) : P[j] = q[j]
  BY <1>7, <1>10, PrefixAt
<1>12. Len(n) + 1 \in 1..Len(P) /\ Len(n) + 1 \in 1..Len(c)
  BY <1>2, <1>3
<1>13. Shape(q[Len(n) + 1]) = s
  BY <1>1, <1>2, <1>5, <1>6, <1>12 DEF Shape, SamePrefix
<1>14. q[Len(n) + 1] = s
  BY <1>2, <1>13 DEF Shape, Wild
<1> QED
  BY <1>11, <1>12, <1>14

\* So what all candidates of the node begin with ends there.
LEMMA PrefixEnds ==
  ASSUME IInv, Radix, CandidatesLeadHere, NodesAreNeeded, \A m \in DOMAIN tree : tree[m].cands # {},
         NEW n \in DOMAIN tree, Ended(n),
         NEW P \in Seq(Token), \A i \in tree[n].cands : IsPrefix(P, inner[i + 1])
  PROVE  Len(P) <= Len(n)
<1>1. Len(P) \in Nat /\ Len(n) \in Nat
  BY LenProperties DEF IInv, TypeOK
<1>2. CASE tree[n].leaf # None
  <2>1. PICK i : i = tree[n].leaf
    OBVIOUS
  <2>2. i < Len(inner) /\ SameShape(n, inner[i + 1])
    BY <1>2, <2>1 DEF IInv, TreeInv, LeafSpellsRoute
  <2>3. Under(n, n)
    BY <1>1 DEF Under, Same
  <2>4. i \in tree[n].cands
    BY <1>2, <2>1, <2>3 DEF Radix, Candidates
  <2>5. Len(P) <= Len(inner[i + 1])
    BY <2>4 DEF IsPrefix
  <2> QED
    BY <2>2, <2>5 DEF SameShape
<1>3. CASE \E s, t \in FirstTokens(tree, n) : s # t
  <2>1. PICK s, t \in FirstTokens(tree, n) : s # t
    BY <1>3
  <2>2. ~(Len(P) > Len(n))
    BY <2>1, TokenAhead DEF Ended
  <2> QED
    BY <1>1, <2>2
<1>4. CASE Below(tree, n) = {}
  <2>1. PICK i : i \in tree[n].cands
    OBVIOUS
  <2>2. PICK w \in DOMAIN tree : tree[w].leaf = i /\ i # None /\ Under(w, n)
    BY <2>1, LeafBelow DEF CandidatesLeadHere
  <2>3. n \in Seq(Token) /\ w \in Seq(Token) /\ Len(w) \in Nat
    BY LenProperties DEF IInv, TypeOK
  <2>4. w = n
    <3>1. ~IsStrictPrefix(n, w)
      BY <1>4 DEF Below
    <3>2. Len(w) = Len(n)
      BY <1>1, <2>2, <2>3, <3>1, StrictPrefix DEF Under, Same
    <3> QED
      BY <1>1, <2>2, <2>3, <3>2, SeqEqual DEF Under, Same
  <2> QED
    BY <1>2, <2>2, <2>4
<1> QED
  BY <1>2, <1>3, <1>4 DEF NodesAreNeeded, Ended

-----------------------------------------------------------------------------
(* Every node has candidates, and the prefix of a scope names its parameters *)
(* as a route does.                                                          *)

Tended(t) == \A n \in DOMAIN t : t[n].cands # {}

\* The nodes of insert_child have the new route.
LEMMA GrowTended ==
  ASSUME Tended(tree), NEW n, NEW from
  PROVE  Tended(Grow(tree, n, from))
<1> DEFINE t == Grow(tree, n, from)
<1>1. \A m \in DOMAIN t \ DOMAIN tree : t[m].cands = {index}
  BY GrowCandidates
<1>2. \A m \in DOMAIN t \cap DOMAIN tree : t[m] = tree[m] \/ t[m].cands = {index}
  <2>1. [NewNode(index) EXCEPT !.leaf = index].cands = {index} /\ NewNode(index).cands = {index}
    BY DEF NewNode
  <2> QED
    BY <2>1 DEF Grow
<1> HIDE DEF t
<1>3. Tended(t)
  BY <1>1, <1>2 DEF Tended
<1> QED
  BY <1>3 DEF t

\* A node with a candidate more has one.
LEMMA AddTended ==
  ASSUME NEW t, IsTree(t), Tended(t), NEW n \in DOMAIN t, NEW i \in Nat
  PROVE  Tended(AddCandidate(t, n, i))
<1>1. DOMAIN AddCandidate(t, n, i) = DOMAIN t
  BY DEF AddCandidate
<1>2. \A m \in DOMAIN t : t[m].cands \subseteq AddCandidate(t, n, i)[m].cands
  BY AddCandidateAdds
<1>3. ASSUME NEW m \in DOMAIN t PROVE AddCandidate(t, n, i)[m].cands # {}
  <2>1. t[m].cands # {} /\ t[m].cands \subseteq AddCandidate(t, n, i)[m].cands
    BY <1>2 DEF Tended
  <2> QED
    BY <2>1
<1> QED
  BY <1>1, <1>3 DEF Tended

\* An insertion leaves its index at every node it makes.
LEMMA InsertTended ==
  ASSUME IInv, Radix, Marked, Tended(tree),
         \/ Plant \/ Segment \/ AddWildcard \/ RefuseCatchAll \/ RefuseWildcard
         \/ FollowWildcard \/ RefuseStatic \/ FollowStatic \/ AddStatic \/ SetLeaf
  PROVE  Tended(tree')
<1>1. IsTree(tree) /\ index \in Nat
  BY IndexIsNat DEF IInv, TypeOK, IsTree
<1>2. CASE UNCHANGED tree
  BY <1>2 DEF Tended
<1>3. CASE Plant \/ AddWildcard
  BY <1>3, GrowTended DEF Plant, AddWildcard
<1>4. CASE Segment
  <2>1. cur \in DOMAIN tree
    BY <1>4 DEF IInv, TypeOK, Segment
  <2>2. PICK upper :
          \/ tree' = AddCandidate(tree, cur, index)
          \/ tree' = [m \in DOMAIN tree \cup {upper} |->
                        IF m = upper THEN [cands |-> tree[cur].cands \cup {index}, leaf |-> None]
                        ELSE tree[m]]
    BY <1>4 DEF Segment
  <2>3. CASE tree' = AddCandidate(tree, cur, index)
    BY <1>1, <2>1, <2>3, AddTended
  <2>4. CASE tree' = [m \in DOMAIN tree \cup {upper} |->
                        IF m = upper THEN [cands |-> tree[cur].cands \cup {index}, leaf |-> None]
                        ELSE tree[m]]
    <3>1. DOMAIN tree' = DOMAIN tree \cup {upper}
      BY <2>4
    <3>2. \A m \in DOMAIN tree' : m # upper => tree'[m] = tree[m]
      BY <2>4
    <3>3. tree'[upper].cands = tree[cur].cands \cup {index}
      BY <2>4
    <3>4. tree'[upper].cands # {}
      BY <3>3
    <3> QED
      BY <3>1, <3>2, <3>4 DEF Tended
  <2> QED
    BY <2>2, <2>3, <2>4
<1>5. CASE FollowWildcard \/ FollowStatic
  <2>1. cur \in DOMAIN tree
    BY <1>5 DEF IInv, TypeOK, FollowWildcard, FollowStatic
  <2>2. tree' = AddCandidate(tree, cur, index)
    BY <1>5 DEF FollowWildcard, FollowStatic
  <2> QED
    BY <1>1, <2>1, <2>2, AddTended
<1>6. CASE AddStatic /\ BadWild(path, offset) = {}
  <2>1. PICK g : g = Grow(tree, cur, offset)
    OBVIOUS
  <2>2. GrowsAt(cur, offset) /\ cur \in DOMAIN tree
    BY <1>6, GrowsAtCur DEF AddStatic
  <2>3. IsTree(g) /\ DOMAIN tree \subseteq DOMAIN g
    BY <2>1, <2>2, GrowNodes DEF GrowsAt, IInv
  <2>4. tree' = AddCandidate(g, cur, index)
    BY <1>6, <2>1 DEF AddStatic
  <2>5. Tended(g)
    BY <2>1, GrowTended
  <2> QED
    BY <1>1, <2>2, <2>3, <2>4, <2>5, AddTended
<1>7. CASE SetLeaf /\ tree' = AddCandidate([tree EXCEPT ![cur].leaf = index], cur, index)
  <2>1. PICK u : u = [tree EXCEPT ![cur].leaf = index]
    OBVIOUS
  <2>2. cur \in DOMAIN tree
    BY <1>7 DEF IInv, TypeOK, SetLeaf
  <2>3. IsTree(u) /\ DOMAIN u = DOMAIN tree
    BY <1>1, <2>1, <2>2, SetLeafType
  <2>4. \A m \in DOMAIN tree : u[m].cands = tree[m].cands
    BY <1>1, <2>1, <2>2 DEF IsTree, Node
  <2>5. Tended(u)
    BY <2>3, <2>4 DEF Tended
  <2>6. tree' = AddCandidate(u, cur, index)
    BY <1>7, <2>1
  <2> QED
    BY <1>1, <2>2, <2>3, <2>5, <2>6, AddTended
<1> QED
  BY <1>2, <1>3, <1>4, <1>5, <1>6, <1>7 DEF RefuseCatchAll, RefuseWildcard, RefuseStatic, AddStatic, SetLeaf

\* A search that ends in a partial match stops at a node.
Stopped ==
  result.status = "partial" =>
    /\ result.request \in Seq(Char)
    /\ \E n \in DOMAIN tree : Stops(n, result.request) /\ result.cands = tree[n].cands

\* What the answers rest on besides: a well-named prefix for every scope, a
\* candidate at every node, and where the last search has stopped.
Dispatch ==
  /\ scopes[Root].prefix = RootUri
  /\ \A s \in DOMAIN scopes : WellNamed(scopes[s].prefix)
  /\ Tended(tree)
  /\ phase = "serve" \/ result.status = "none"
  /\ result.status = "none" => answer = NoAnswer
  /\ result.status # "none" => answer = ProcessRecognize(result)
  /\ Stopped

DispatchInv == AppIInv /\ SearchInv /\ Dispatch

\* A step of a configuration that leaves the recognizer alone.
LEMMA QuietDispatch ==
  ASSUME DispatchInv, phase = "configure", UNCHANGED <<vars, answer>>,
         scopes'[Root].prefix = RootUri, \A s \in DOMAIN scopes' : WellNamed(scopes'[s].prefix)
  PROVE  SearchInv' /\ Dispatch'
<1>1. SearchInv'
  BY NextSearch DEF DispatchInv
<1>2. result' = result /\ tree' = tree /\ result.status = "none" /\ answer = NoAnswer
  BY DEF vars, DispatchInv, Dispatch
<1>3. Stopped'
  BY <1>2 DEF Stopped
<1> QED
  BY <1>1, <1>2, <1>3 DEF DispatchInv, Dispatch

\* `route` begins an insertion,
LEMMA RouteDispatch ==
  ASSUME DispatchInv, NEW r \in Patterns, Route(r)
  PROVE  SearchInv' /\ Dispatch'
<1> DEFINE prefix == scopes[here.scope].prefix
           uri == Join(prefix, r)
<1>1. pc = "idle" /\ phase = "configure" /\ UNCHANGED <<scopes, answer>>
  BY DEF Route, Configuring
<1>2. CASE JoinFails(prefix, r)
  <2>1. UNCHANGED vars
    BY <1>2 DEF Route
  <2>2. scopes'[Root].prefix = RootUri /\ \A s \in DOMAIN scopes' : WellNamed(scopes'[s].prefix)
    BY <1>1 DEF DispatchInv, Dispatch
  <2> QED
    BY <1>1, <2>1, <2>2, QuietDispatch
<1>3. CASE ~JoinFails(prefix, r)
  <2>1. BeginInsert(uri)
    BY <1>3 DEF Route
  <2>2. r \in Path /\ prefix \in Path /\ here.scope \in DOMAIN scopes /\ WellNamed(r)
    BY PatternsAssumption, Here DEF DispatchInv, AppIInv, Path, ScopeData
  <2>3. WellNamed(prefix)
    BY <2>2 DEF DispatchInv, Dispatch
  <2>4. uri \in Path /\ WellNamed(uri)
    BY <2>2, <2>3, JoinExtends, JoinNamed
  <2> HIDE DEF uri
  <2>5. IInv'
    BY <2>1, <2>4, BeginInsertAny DEF DispatchInv, AppIInv, Path
  <2>6. Radix' /\ Marked'
    BY <2>1, <2>4, BeginInsertRadix DEF DispatchInv, SearchInv, Path
  <2>7. pc' # "match" /\ result' = NoResult /\ tree' = tree
    BY <2>1 DEF BeginInsert, registry
  <2>8. Searching' /\ Answered'
    BY <2>7 DEF Searching, Answered, FoundRight, Found, MissedRight, NoResult
  <2>9. answer = NoAnswer
    BY <1>1 DEF DispatchInv, Dispatch
  <2>10. Dispatch'
    BY <1>1, <2>7, <2>9 DEF DispatchInv, Dispatch, Stopped, NoResult
  <2> QED
    BY <2>5, <2>6, <2>8, <2>10 DEF SearchInv
<1> QED
  BY <1>2, <1>3

\* whose turns give every node they make a candidate.
LEMMA TurnDispatch ==
  ASSUME DispatchInv, InsertTurn
  PROVE  SearchInv' /\ Dispatch'
<1>1. Insert /\ UNCHANGED <<scopes, answer>>
  BY DEF InsertTurn, Insert
<1>2. SearchInv'
  BY <1>1, NextSearch DEF DispatchInv, Next
<1>3. Tended(tree')
  BY InsertTended DEF DispatchInv, SearchInv, Dispatch, InsertTurn
<1>4. result' = NoResult
  <2>1. pc # "idle"
    BY TurnShape DEF InsertTurn, Inserting
  <2>2. Answered /\ Insert
    BY <1>1 DEF DispatchInv, SearchInv
  <2> QED
    BY <2>2 DEF Answered, Insert, InsertAsterisk, BeginInsert, Plant, Segment, AddWildcard, RefuseCatchAll,
       RefuseWildcard, FollowWildcard, RefuseStatic, FollowStatic, AddStatic, SetLeaf, Register, Fail, Idle
<1>5. answer = NoAnswer
  <2>1. result = NoResult
    <3>1. pc # "idle"
      BY TurnShape DEF InsertTurn, Inserting
    <3> QED
      BY <3>1 DEF DispatchInv, SearchInv, Answered
  <2> QED
    BY <2>1 DEF DispatchInv, Dispatch, NoResult
<1> QED
  BY <1>1, <1>2, <1>3, <1>4, <1>5 DEF DispatchInv, Dispatch, Stopped, NoResult

\* A scope that is mounted has a well-named prefix,
LEMMA MountDispatch ==
  ASSUME DispatchInv, NEW p \in MountPoints, Mount(p)
  PROVE  SearchInv' /\ Dispatch'
<1> DEFINE parent == scopes[here.scope].prefix
           q == [prefix |-> Join(parent, p), ancestors |-> Lineage(here.scope), default |-> <<>>]
<1>1. /\ phase = "configure" /\ UNCHANGED <<vars, answer>>
      /\ UNCHANGED scopes \/ scopes' = Append(scopes, q)
  BY DEF Mount, Configuring
<1>2. /\ scopes \in Seq(ScopeData) /\ DOMAIN scopes = 1..Len(scopes) /\ Len(scopes) \in Nat
      /\ parent \in Path /\ p \in Path /\ here.scope \in DOMAIN scopes /\ WellNamed(p)
      /\ Lineage(here.scope) \in Seq(Nat)
  BY Here, MountPointsAssumption DEF DispatchInv, AppIInv, Types, ScopeData, Path
<1>3. WellNamed(Join(parent, p)) /\ Join(parent, p) \in Path
  BY <1>2, JoinExtends, JoinNamed DEF DispatchInv, Dispatch
<1>4. q \in ScopeData /\ WellNamed(q.prefix)
  BY <1>2, <1>3, EmptySeq DEF ScopeData
<1> HIDE DEF q
<1>5. /\ scopes'[Root].prefix = RootUri /\ \A s \in DOMAIN scopes' : WellNamed(scopes'[s].prefix)
  <2>1. scopes[Root].prefix = RootUri /\ \A s \in DOMAIN scopes : WellNamed(scopes[s].prefix)
    BY DEF DispatchInv, Dispatch
  <2>2. CASE UNCHANGED scopes
    BY <2>1, <2>2
  <2>3. CASE scopes' = Append(scopes, q)
    <3>1. /\ scopes' \in Seq(ScopeData) /\ Len(scopes') = Len(scopes) + 1
          /\ \A i \in 1..Len(scopes) : scopes'[i] = scopes[i]
          /\ scopes'[Len(scopes) + 1] = q
      BY <1>2, <1>4, <2>3, AppendProperties
    <3>2. DOMAIN scopes' = 1..Len(scopes) + 1
      BY <3>1, LenProperties
    <3>3. Root \in 1..Len(scopes)
      BY <1>2 DEF Root
    <3>4. ASSUME NEW s \in DOMAIN scopes' PROVE WellNamed(scopes'[s].prefix)
      <4>1. s \in 1..Len(scopes) \/ s = Len(scopes) + 1
        BY <1>2, <3>2
      <4> QED
        BY <1>2, <1>4, <2>1, <3>1, <4>1
    <3> QED
      BY <2>1, <3>1, <3>3, <3>4
  <2> QED
    BY <1>1, <2>2, <2>3
<1> QED
  BY <1>1, <1>5, QuietDispatch

\* and the other steps of a configuration change no prefix.
LEMMA FrameDispatch ==
  ASSUME DispatchInv, RouteAsterisk \/ (\E m \in Modifiers : Modify(m)) \/ BadUri \/ Return
  PROVE  SearchInv' /\ Dispatch'
<1>1. phase = "configure" /\ UNCHANGED <<vars, answer>>
  BY DEF RouteAsterisk, Modify, BadUri, Return, Configuring
<1>2. scopes'[Root].prefix = RootUri /\ \A s \in DOMAIN scopes' : WellNamed(scopes'[s].prefix)
  <2>1. scopes[Root].prefix = RootUri /\ \A s \in DOMAIN scopes : WellNamed(scopes[s].prefix)
    BY DEF DispatchInv, Dispatch
  <2>2. CASE UNCHANGED scopes
    BY <2>1, <2>2
  <2>3. CASE RouteAsterisk
    <3>1. PICK n : n = here.scope
      OBVIOUS
    <3>2. scopes' = [scopes EXCEPT ![n] = [scopes[n] EXCEPT !.default = <<here.modifier>>]]
      BY <2>3, <3>1 DEF RouteAsterisk
    <3>3. n \in DOMAIN scopes /\ scopes[n] \in ScopeData
      BY <3>1, Here DEF DispatchInv, AppIInv
    <3>4. [scopes[n] EXCEPT !.default = <<here.modifier>>].prefix = scopes[n].prefix
      BY <3>3 DEF ScopeData
    <3>5. DOMAIN scopes' = DOMAIN scopes
      BY <3>2
    <3>6. Root \in DOMAIN scopes
      <4>1. scopes \in Seq(ScopeData) /\ scopes # <<>>
        BY DEF DispatchInv, AppIInv, Types
      <4> QED
        BY <4>1, LenProperties, EmptySeq DEF Root
    <3>7. \A s \in DOMAIN scopes : scopes'[s].prefix = scopes[s].prefix
      BY <3>2, <3>3, <3>4
    <3> QED
      BY <2>1, <3>5, <3>6, <3>7
  <2> QED
    BY <2>2, <2>3 DEF Modify, BadUri, Return
<1> QED
  BY <1>1, <1>2, QuietDispatch

\* A request gets the answer that its search has come to.
LEMMA ServeDispatch ==
  ASSUME DispatchInv, Serve
  PROVE  SearchInv' /\ Dispatch'
<1>1. Recognize /\ Answer /\ UNCHANGED <<phase, scopes, endpoints>>
  BY DEF Serve, Request, RequestAsterisk, MatchTurn, Recognize
<1>2. SearchInv'
  BY <1>1, NextSearch DEF DispatchInv, Next
<1>3. UNCHANGED <<tree, inner>> /\ IInv /\ Radix /\ Marked /\ Searching
  BY <1>1, SearchRadix DEF DispatchInv, SearchInv
<1>4. phase = "serve"
  <2>1. MatchStatic \/ MatchParam \/ MatchCatchAll => pc = "match"
    BY DEF MatchStatic, MatchParam, MatchCatchAll
  <2> QED
    BY <2>1 DEF Serve, Request, RequestAsterisk, MatchTurn, DispatchInv, AppIInv, Underway
<1>5. pc' = "idle" => result'.status \in {"ok", "not_matched", "partial"}
  <2>1. \A status \in {"ok", "not_matched", "partial"} : \A i, ps, w, cands :
          Outcome(status, i, ps, w, cands) => result'.status = status
    BY DEF Outcome
  <2>2. CASE MatchStatic \/ MatchParam \/ MatchCatchAll
    BY <2>1, <2>2 DEF MatchStatic, MatchParam, MatchCatchAll, LeafOrPartial, Advance,
       PartiallyMatched, registry
  <2>3. CASE RecognizeAsterisk \/ \E r \in Requests : BeginRecognize(r) \/ RecognizeNothing(r)
    BY <2>3 DEF RecognizeAsterisk, BeginRecognize, RecognizeNothing, Idle, registry
  <2> QED
    BY <1>1, <2>2, <2>3 DEF Recognize
<1>6. pc' # "idle" => result' = NoResult
  BY <1>2 DEF SearchInv, Answered
<1>7. Stopped'
  <2> SUFFICES ASSUME result'.status = "partial"
               PROVE  /\ result'.request \in Seq(Char)
                      /\ \E n \in DOMAIN tree : Stops(n, result'.request) /\ result'.cands = tree[n].cands
    BY <1>3 DEF Stopped, Stops, Ended
  <2>1. pc' = "idle"
    BY <1>6 DEF NoResult
  <2>2. CASE RecognizeAsterisk \/ \E r \in Requests : BeginRecognize(r) \/ RecognizeNothing(r)
    BY <2>1, <2>2 DEF RecognizeAsterisk, BeginRecognize, RecognizeNothing
  <2>3. CASE MatchCatchAll
    BY <1>3, <2>3, StopsAtNoCatchAll
  <2>4. CASE MatchStatic \/ MatchParam
    <3>1. Stops(cur, path) /\ result'.cands = tree[cur].cands /\ result'.request = path
      BY <1>3, <2>1, <2>4, StopsAtStatic, StopsAtParam
    <3>2. cur \in DOMAIN tree /\ path \in Seq(Char)
      BY <1>3, <2>4 DEF IInv, TypeOK, Searching, MatchStatic, MatchParam
    <3> QED
      BY <3>1, <3>2
  <2> QED
    BY <1>1, <2>2, <2>3, <2>4 DEF Recognize
<1>8. result'.status = "none" => answer' = NoAnswer
  BY <1>1, <1>5 DEF Answer
<1>9. result'.status # "none" => answer' = ProcessRecognize(result)'
  <2> SUFFICES ASSUME result'.status # "none" PROVE answer' = ProcessRecognize(result)'
    OBVIOUS
  <2>1. pc' = "idle"
    BY <1>6 DEF NoResult
  <2>2. answer' = ProcessRecognize(result')
    BY <1>1, <2>1 DEF Answer
  <2>3. \A s : FindDefaultHandler(s)' = FindDefaultHandler(s)
    BY <1>1 DEF FindDefaultHandler, Lineage
  <2>4. \A s : Fallback(s)' = Fallback(s)
    BY <2>3 DEF Fallback
  <2>5. \A r, c : InferScope(r, c)' = InferScope(r, c)
    BY <1>1 DEF InferScope
  <2>6. ProcessRecognize(result)' = ProcessRecognize(result')
    BY <1>1, <2>4, <2>5 DEF ProcessRecognize
  <2> QED
    BY <2>2, <2>6
<1> QED
  BY <1>1, <1>2, <1>3, <1>4, <1>7, <1>8, <1>9 DEF DispatchInv, Dispatch, Tended

\* All of it holds at first,
LEMMA InitDispatch == AppInit => DispatchInv
<1> SUFFICES ASSUME AppInit PROVE DispatchInv
  OBVIOUS
<1>1. /\ DOMAIN tree = {} /\ result = NoResult /\ answer = NoAnswer /\ DOMAIN scopes = {1}
      /\ scopes[1].prefix = RootUri
  BY DEF AppInit, Init
<1>2. WellNamed(RootUri)
  BY DEF WellNamed, RootUri
<1>3. Tended(tree) /\ Stopped
  BY <1>1 DEF Tended, Stopped, NoResult
<1>4. Dispatch
  BY <1>1, <1>2, <1>3 DEF Dispatch, Root, NoResult
<1> QED
  BY <1>4, AppInitInv, InitSearch DEF AppInit, DispatchInv

\* and every step keeps it.
LEMMA NextDispatch == DispatchInv /\ [AppNext]_<<vars, appVars>> => DispatchInv'
<1> SUFFICES ASSUME DispatchInv, [AppNext]_<<vars, appVars>> PROVE DispatchInv'
  OBVIOUS
<1>1. AppIInv'
  BY AppNextInv DEF DispatchInv
<1>2. CASE UNCHANGED <<vars, appVars>>
  <2>1. UNCHANGED vars /\ UNCHANGED <<phase, scopes, endpoints, answer>>
    BY <1>2 DEF appVars
  <2>2. SearchInv' /\ tree' = tree /\ result' = result
    BY <2>1, NextSearch DEF DispatchInv, vars
  <2>3. \A s : FindDefaultHandler(s)' = FindDefaultHandler(s)
    BY <2>1 DEF FindDefaultHandler, Lineage
  <2>4. \A s : Fallback(s)' = Fallback(s)
    BY <2>3 DEF Fallback
  <2>5. \A r, c : InferScope(r, c)' = InferScope(r, c)
    BY <2>1 DEF InferScope
  <2>6. ProcessRecognize(result)' = ProcessRecognize(result)
    BY <2>1, <2>2, <2>4, <2>5 DEF ProcessRecognize
  <2>7. Stopped'
    BY <2>2 DEF Stopped, Stops, Ended, Below, FirstTokens, DispatchInv, Dispatch
  <2> QED
    BY <1>1, <2>1, <2>2, <2>6, <2>7 DEF DispatchInv, Dispatch, Tended
<1>3. CASE Configure
  BY <1>1, <1>3, RouteDispatch, TurnDispatch, MountDispatch, FrameDispatch DEF Configure, DispatchInv
<1>4. CASE Serve
  BY <1>1, <1>4, ServeDispatch DEF DispatchInv
<1> QED
  BY <1>2, <1>3, <1>4 DEF AppNext

\* The inductive invariant of what requests are answered.
THEOREM DispatchInvariance == AppSpec => []DispatchInv
<1> QED
  BY InitDispatch, NextDispatch, PTL DEF AppSpec

-----------------------------------------------------------------------------
(* The scope of a fallback *)

\* A fallback starts from the root, or from the scope inferred of the candidates.
LEMMA FallbackScope ==
  ASSUME DispatchInv, answer.kind \in {"default", "not_found"}
  PROVE  /\ answer.by = FindDefaultHandler(answer.scope)
         /\ \/ result.status = "not_matched" /\ answer.scope = Root
            \/ result.status = "partial" /\ answer.scope = InferScope(result.request, result.cands)
<1>1. result.status # "none"
  BY DEF DispatchInv, Dispatch, NoAnswer
<1>2. answer = ProcessRecognize(result) /\ result.status \in {"ok", "partial", "not_matched"}
  BY <1>1 DEF DispatchInv, Dispatch, SearchInv, IInv, TypeOK
<1>3. result.status # "ok"
  BY <1>2 DEF ProcessRecognize
<1>4. CASE result.status = "not_matched"
  <2>1. answer = Fallback(Root)
    BY <1>2, <1>4 DEF ProcessRecognize
  <2> QED
    BY <1>4, <2>1 DEF Fallback
<1>5. CASE result.status = "partial"
  <2>1. answer = Fallback(InferScope(result.request, result.cands))
    BY <1>2, <1>5 DEF ProcessRecognize
  <2> QED
    BY <1>5, <2>1 DEF Fallback
<1> QED
  BY <1>2, <1>3, <1>4, <1>5

\* The candidates of a partial match are indices.
LEMMA CandsAreIndices ==
  ASSUME DispatchInv, result.status = "partial"
  PROVE  result.cands \subseteq Nat
<1>1. PICK n \in DOMAIN tree : result.cands = tree[n].cands
  BY DEF DispatchInv, Dispatch, Stopped
<1>2. tree[n] \in Node
  BY DEF DispatchInv, SearchInv, IInv, TypeOK
<1> QED
  BY <1>1, <1>2 DEF Node

\* A route and its endpoint.
LEMMA EndpointOf ==
  ASSUME AppIInv, NEW i \in 1..Len(inner)
  PROVE  /\ i \in DOMAIN endpoints /\ endpoints[i].uri = inner[i]
         /\ Placed(scopes, endpoints[i]) /\ endpoints[i].ancestors \in Seq(Nat)
         /\ endpoints[i].ancestors # <<>> /\ endpoints[i].ancestors[1] = Root
         /\ inner[i] \in Path
<1>1. /\ DOMAIN inner = 1..Len(inner) /\ DOMAIN endpoints = 1..Len(endpoints)
      /\ Len(endpoints) = Len(inner)
  BY LenProperties DEF AppIInv, Types, IInv, TypeOK, EndpointOfRoute
<1>2. i \in DOMAIN endpoints /\ endpoints[i].uri = inner[i] /\ Placed(scopes, endpoints[i])
  BY <1>1 DEF AppIInv, EndpointOfRoute, AllPlaced
<1>3. endpoints[i] \in Endpoint(Len(scopes))
  BY <1>1, <1>2, ElementOfSeq DEF AppIInv, Types
<1> QED
  BY <1>2, <1>3 DEF Endpoint, Placed, NestedIn

\* No scope of a route the request could become is passed over: such a route is
\* a candidate, and the scope inferred is one that all candidates share.
THEOREM NoScopeIsPassedOver == AppSpec => []FallbackCovers
<1>1. DispatchInv => FallbackCovers
  <2> SUFFICES ASSUME DispatchInv, Unmatched, ~RanOut, KindsKept, NEW i \in DOMAIN inner,
                      Extendable(inner[i], result.request)
               PROVE  answer.scope \in ToSet(endpoints[i].ancestors)
    BY DEF FallbackCovers
  <2>1. AppIInv /\ IInv /\ MissedRight /\ i \in 1..Len(inner) /\ i \in Nat
    BY LenProperties DEF DispatchInv, SearchInv, Answered, IInv, TypeOK
  <2>2. /\ i \in DOMAIN endpoints /\ endpoints[i].ancestors \in Seq(Nat)
        /\ endpoints[i].ancestors # <<>> /\ endpoints[i].ancestors[1] = Root /\ inner[i] \in Path
    BY <2>1, EndpointOf
  <2>3. answer.kind \in {"default", "not_found"}
    BY DEF Unmatched
  <2>4. CASE answer.scope = Root
    <3>1. 1 \in DOMAIN endpoints[i].ancestors
      BY <2>2, LenProperties, EmptySeq
    <3> QED
      BY <2>2, <2>4, <3>1 DEF ToSet
  <2>5. CASE result.status = "partial" /\ answer.scope = InferScope(result.request, result.cands)
    <3>1. inner[i] # Asterisk
      BY <2>2 DEF Path, Asterisk, Slash
    <3>2. i - 1 \in result.cands
      BY <2>1, <2>5, <3>1, CompleteOfTree DEF SearchComplete, Routes
    <3>3. \E k \in DOMAIN endpoints[i].ancestors :
            InferScope(result.request, result.cands) = endpoints[i].ancestors[k]
      BY <2>1, <2>2, <2>5, <3>2, CandsAreIndices, InferredScope
    <3> QED
      BY <2>5, <3>3 DEF ToSet
  <2> QED
    BY <2>3, <2>4, <2>5, FallbackScope
<1> QED
  BY DispatchInvariance, <1>1, PTL

\* A scope on the way to one of a route's scopes has a prefix of the route.
LEMMA AboveScope ==
  ASSUME AppIInv, NEW lineage, NEW uri, NestedIn(scopes, lineage, uri), NEW k \in DOMAIN lineage,
         lineage \in Seq(Nat), NEW s, s \in ToSet(Lineage(lineage[k]))
  PROVE  s \in DOMAIN scopes /\ (scopes[s].prefix = RootUri \/ IsPrefix(scopes[s].prefix, uri))
<1> DEFINE v == lineage[k]
<1>1. v \in DOMAIN scopes /\ scopes[v].ancestors = SubSeq(lineage, 1, k - 1)
  BY DEF NestedIn
<1>2. Len(lineage) \in Nat /\ k \in 1..Len(lineage)
  BY LenProperties
<1>3. /\ scopes[v].ancestors \in Seq(Nat) /\ Len(scopes[v].ancestors) = k - 1
      /\ \A j \in 1..k - 1 : scopes[v].ancestors[j] = lineage[j]
  <2>1. \A j \in 1..k - 1 : lineage[j] \in Nat
    BY <1>2, ElementOfSeq
  <2> QED
    BY <1>1, <1>2, <2>1, SubSeqProperties
<1>4. lineage[k] \in Nat
  BY <1>2, ElementOfSeq
<1>5. \E j \in 1..k : s = lineage[j]
  <2>1. /\ Len(Lineage(v)) = k /\ \A j \in 1..k - 1 : Lineage(v)[j] = lineage[j]
        /\ Lineage(v)[k] = lineage[k] /\ Lineage(v) \in Seq(Nat)
    <3>1. PICK l, g : l = scopes[v].ancestors /\ g = Append(l, v)
      OBVIOUS
    <3>2. l \in Seq(Nat) /\ Len(l) = k - 1 /\ v \in Nat /\ (\A j \in 1..k - 1 : l[j] = lineage[j])
      BY <1>3, <1>4, <3>1
    <3>3. /\ g \in Seq(Nat) /\ Len(g) = Len(l) + 1 /\ g[Len(l) + 1] = v
          /\ \A j \in 1..Len(l) : g[j] = l[j]
      BY <3>1, <3>2, AppendProperties
    <3>4. Lineage(v) = g /\ Len(l) + 1 = k
      BY <1>2, <3>1, <3>2 DEF Lineage
    <3> QED
      BY <1>2, <3>2, <3>3, <3>4
  <2>2. PICK j \in DOMAIN Lineage(v) : s = Lineage(v)[j]
    BY DEF ToSet
  <2>3. j \in 1..k
    BY <2>1, <2>2, LenProperties
  <2>4. j \in 1..k - 1 \/ j = k
    BY <1>2, <2>3
  <2> QED
    BY <2>1, <2>2, <2>3, <2>4
<1>6. PICK j \in 1..k : s = lineage[j]
  BY <1>5
<1>7. j \in DOMAIN lineage
  BY <1>2, <1>6, LenProperties
<1> QED
  BY <1>6, <1>7 DEF NestedIn

\* A default handler answers what runs along the prefix of its scope.
THEOREM DefaultIsLocal == AppSpec => []FallbackIsLocal
<1>1. DispatchInv => FallbackIsLocal
  <2> SUFFICES ASSUME DispatchInv, CandidatesLeadHere, NodesAreNeeded, answer.kind = "default",
                      NEW s \in answer.by, scopes[s].prefix # RootUri
               PROVE  Along(scopes[s].prefix, result.request)
    BY DEF FallbackIsLocal, AnswersInScope
  <2>1. AppIInv /\ IInv /\ Radix /\ Tended(tree) /\ scopes[Root].prefix = RootUri
    BY DEF DispatchInv, SearchInv, Dispatch
  <2>2. PICK v : v = answer.scope
    OBVIOUS
  <2>3. s \in ToSet(Lineage(v))
    BY <2>2, FallbackScope DEF FindDefaultHandler, ToSet
  <2>4. Lineage(Root) = <<Root>>
    <3>1. Rooted(scopes) /\ Root \in DOMAIN scopes /\ scopes[Root] \in ScopeData
      <4>1. scopes \in Seq(ScopeData) /\ scopes # <<>>
        BY <2>1 DEF AppIInv, Types
      <4>2. Root \in 1..Len(scopes)
        BY <4>1, LenProperties, EmptySeq DEF Root
      <4> QED
        BY <2>1, <4>1, <4>2, ElementOfSeq, LenProperties DEF AppIInv
    <3>2. PICK l : l = scopes[Root].ancestors
      OBVIOUS
    <3>3. l \in Seq(Nat) /\ NestedIn(scopes, Append(l, Root), RootUri) /\ \A k \in DOMAIN l : l[k] < Root
      BY <2>1, <3>1, <3>2 DEF Rooted, ScopeData
    <3>4. l = <<>>
      <4> SUFFICES ASSUME l # <<>> PROVE FALSE
        OBVIOUS
      <4>1. 1 \in DOMAIN l /\ Len(l) \in Nat /\ 1 \in 1..Len(l) /\ l[1] \in Nat
        BY <3>3, LenProperties, EmptySeq, ElementOfSeq
      <4>2. Append(l, Root)[1] = l[1]
        BY <3>3, <4>1, AppendProperties DEF Root
      <4> QED
        BY <3>3, <4>1, <4>2 DEF NestedIn, Root
    <3> QED
      BY <3>2, <3>4 DEF Lineage
  <2>5. v # Root
    <3> SUFFICES ASSUME v = Root PROVE FALSE
      OBVIOUS
    <3>1. s = Root
      BY <2>3, <2>4 DEF ToSet
    <3> QED
      BY <2>1, <3>1
  <2>6. result.status = "partial" /\ v = InferScope(result.request, result.cands)
    BY <2>2, <2>5, FallbackScope
  <2>7. PICK n \in DOMAIN tree : Stops(n, result.request) /\ result.cands = tree[n].cands
    BY <2>6 DEF DispatchInv, Dispatch, Stopped
  <2>8. PICK r, P : r = result.request /\ P = scopes[s].prefix
    OBVIOUS
  <2>9. r \in Seq(Char)
    BY <2>6, <2>8 DEF DispatchInv, Dispatch, Stopped
  <2>10. ASSUME NEW i \in tree[n].cands
         PROVE  s \in DOMAIN scopes /\ IsPrefix(P, inner[i + 1]) /\ SamePrefix(n, inner[i + 1], Len(n))
                /\ inner[i + 1] \in Seq(Token)
    <3>1. i \in Nat /\ i < Len(inner) /\ SamePrefix(n, inner[i + 1], Len(n))
      <4>1. tree[n] \in Node
        BY <2>1 DEF IInv, TypeOK
      <4> QED
        BY <4>1 DEF CandidatesLeadHere, Node
    <3>2. PICK e : e = i + 1
      OBVIOUS
    <3>3. e \in 1..Len(inner) /\ e - 1 = i
      <4>1. Len(inner) \in Nat
        BY <2>1, LenProperties DEF IInv, TypeOK
      <4> QED
        BY <3>1, <3>2, <4>1
    <3>4. /\ e \in DOMAIN endpoints /\ endpoints[e].uri = inner[e] /\ endpoints[e].ancestors \in Seq(Nat)
          /\ NestedIn(scopes, endpoints[e].ancestors, inner[e]) /\ inner[e] \in Path
      BY <2>1, <3>3, EndpointOf DEF Placed
    <3>5. PICK k \in DOMAIN endpoints[e].ancestors : v = endpoints[e].ancestors[k]
      BY <2>1, <2>6, <2>7, <3>3, <3>4, CandsAreIndices, InferredScope
    <3>6. s \in DOMAIN scopes /\ (scopes[s].prefix = RootUri \/ IsPrefix(scopes[s].prefix, inner[e]))
      BY <2>1, <2>3, <3>4, <3>5, AboveScope
    <3> QED
      BY <2>8, <3>1, <3>2, <3>4, <3>6 DEF Path
  <2>11. PICK i : i \in tree[n].cands
    BY <2>1 DEF Tended
  <2>12. P \in Seq(Token) /\ Len(P) \in Nat /\ n \in Seq(Token) /\ Len(n) \in Nat
    <3>1. scopes[s] \in ScopeData
      BY <2>1, <2>10, <2>11, LenProperties, ElementOfSeq DEF AppIInv, Types
    <3> QED
      BY <2>1, <2>8, <3>1, LenProperties DEF ScopeData, Path, IInv, TypeOK
  <2>13. \A j \in 1..Len(P) : j <= Len(n) => Shape(P[j]) = Shape(n[j])
    <3>1. PICK q : q = inner[i + 1]
      OBVIOUS
    <3>2. IsPrefix(P, q) /\ SamePrefix(n, q, Len(n)) /\ q \in Seq(Token)
      BY <2>10, <2>11, <3>1
    <3>3. \A j \in 1..Len(P) : P[j] = q[j]
      BY <2>12, <3>2, PrefixAt
    <3>4. \A j \in 1..Len(n) : Shape(n[j]) = Shape(q[j])
      BY <3>2 DEF SamePrefix
    <3> QED
      BY <2>12, <3>3, <3>4
  <2>14. PICK m \in 0..Len(n) :
           /\ \E o \in Ends(n, r)[m] : o = Len(r) \/ (m = Len(n) /\ Ended(n))
           /\ \A k \in 1..Len(n) : n[k] # "*"
    BY <2>7, <2>8 DEF Stops
  <2>15. PICK o \in Ends(n, r)[m] : o = Len(r) \/ (m = Len(n) /\ Ended(n))
    BY <2>14
  <2>16. o = Len(r) \/ (m = Len(n) /\ Len(P) <= Len(n))
    <3>1. Ended(n) => Len(P) <= Len(n)
      BY <2>1, <2>10, <2>12, PrefixEnds DEF Tended
    <3> QED
      BY <2>15, <3>1
  <2>17. Along(P, r)
    BY <2>9, <2>12, <2>13, <2>14, <2>15, <2>16, AlongNode
  <2> QED
    BY <2>8, <2>17
<1> QED
  BY DispatchInvariance, <1>1, PTL

-----------------------------------------------------------------------------
(* Configurations that pass every error on *)

\* Why a node is there.
Forked(t, n) ==
  \/ t[n].leaf # None
  \/ FirstTokens(t, n) \cap Wild # {}
  \/ \E s, u \in FirstTokens(t, n) : s # u

\* The index i is that of a route that leads to n, or of the one on its way.
Led(n, i) ==
  IF i = Len(inner) THEN pc \in Inserting /\ SamePrefix(n, path, Len(n))
  ELSE i < Len(inner) /\ SamePrefix(n, inner[i + 1], Len(n))

\* The node a fork, or a leaf, is about to be made at.
Due(n) == n = cur /\ (pc = "leaf" \/ (pc = "descend" /\ NextToken \notin FirstTokens(tree, cur)))

AllLed == \A n \in DOMAIN tree : \A i \in tree[n].cands : Led(n, i)

AllForked ==
  \A n \in DOMAIN tree :
    /\ tree[n].leaf # None \/ Below(tree, n) # {}
    /\ IsStatic(n) => Forked(tree, n) \/ Due(n)

Strict == phase # "refused" => AllLed /\ AllForked

\* A tree that grows keeps what its nodes are there for.
LEMMA ForkKept ==
  ASSUME NEW t, NEW u, DOMAIN t \subseteq DOMAIN u,
         \A m \in DOMAIN t : t[m].leaf # None => u[m].leaf # None, NEW n \in DOMAIN t
  PROVE  /\ Below(t, n) \subseteq Below(u, n) /\ FirstTokens(t, n) \subseteq FirstTokens(u, n)
         /\ Forked(t, n) => Forked(u, n)
<1>1. Below(t, n) \subseteq Below(u, n)
  BY DEF Below
<1>2. FirstTokens(t, n) \subseteq FirstTokens(u, n)
  BY <1>1 DEF FirstTokens
<1> QED
  BY <1>1, <1>2 DEF Forked

\* The route on its way is that of its index as soon as it is registered.
LEMMA LedKept ==
  ASSUME IInv, pc \in Inserting,
         \/ pc' \in Inserting /\ path' = path /\ inner' = inner
         \/ inner' = Append(inner, path),
         NEW n, NEW i \in Nat, Led(n, i)
  PROVE  Led(n, i)'
<1>1. /\ inner \in Seq(Seq(Token)) /\ path \in Seq(Token) /\ Len(inner) \in Nat
  BY LenProperties DEF IInv, TypeOK
<1>2. CASE pc' \in Inserting /\ path' = path /\ inner' = inner
  BY <1>2 DEF Led, SamePrefix
<1>3. CASE inner' = Append(inner, path)
  <2>1. /\ Len(inner') = Len(inner) + 1 /\ inner'[Len(inner) + 1] = path
        /\ \A j \in 1..Len(inner) : inner'[j] = inner[j]
    BY <1>1, <1>3, AppendProperties
  <2>2. i < Len(inner')
    BY <1>1, <2>1 DEF Led
  <2>3. SamePrefix(n, inner'[i + 1], Len(n))
    <3>1. CASE i = Len(inner)
      BY <2>1, <3>1 DEF Led
    <3>2. CASE i # Len(inner)
      <4>1. i + 1 \in 1..Len(inner)
        BY <1>1, <3>2 DEF Led
      <4> QED
        BY <2>1, <3>2, <4>1 DEF Led
    <3> QED
      BY <3>1, <3>2
  <2>4. i # Len(inner')
    BY <1>1, <2>1, <2>2
  <2> QED
    BY <2>2, <2>3, <2>4 DEF Led, SamePrefix
<1> QED
  BY <1>2, <1>3

\* A step that gives nodes their old candidates, those of a node below them, or
\* the route on its way.
LEMMA LedStep ==
  ASSUME IInv, IInv', AllLed, pc \in Inserting,
         \/ pc' \in Inserting /\ path' = path /\ inner' = inner
         \/ inner' = Append(inner, path),
         \A n \in DOMAIN tree' : \A i \in tree'[n].cands :
           \/ i = index /\ SamePrefix(n, path, Len(n))
           \/ \E m \in DOMAIN tree : i \in tree[m].cands /\ Under(m, n)
  PROVE  AllLed'
<1> SUFFICES ASSUME NEW n \in DOMAIN tree', NEW i \in tree'[n].cands PROVE Led(n, i)'
  BY DEF AllLed
<1>1. i \in Nat /\ n \in Seq(Token) /\ Len(n) \in Nat
  <2>1. tree'[n] \in Node /\ n \in Seq(Token)
    BY DEF IInv, TypeOK
  <2> QED
    BY <2>1, LenProperties DEF Node
<1>2. Led(n, i)
  <2>1. CASE i = index /\ SamePrefix(n, path, Len(n))
    BY <2>1 DEF Led, index
  <2>2. CASE \E m \in DOMAIN tree : i \in tree[m].cands /\ Under(m, n)
    <3>1. PICK m \in DOMAIN tree : i \in tree[m].cands /\ Under(m, n)
      BY <2>2
    <3>2. m \in Seq(Token) /\ Len(m) \in Nat /\ Led(m, i)
      BY <3>1, LenProperties DEF AllLed, IInv, TypeOK
    <3>3. Len(n) <= Len(m) /\ \A j \in 1..Len(n) : n[j] = m[j]
      BY <3>1 DEF Under, Same
    <3>4. \A q : Len(q) \in Nat /\ SamePrefix(m, q, Len(m)) => SamePrefix(n, q, Len(n))
      BY <1>1, <3>2, <3>3 DEF SamePrefix
    <3>5. Len(path) \in Nat /\ \A j \in 1..Len(inner) : Len(inner[j]) \in Nat
      <4>1. path \in Seq(Token) /\ inner \in Seq(Seq(Token)) /\ Len(inner) \in Nat
        BY LenProperties DEF IInv, TypeOK
      <4>2. \A j \in 1..Len(inner) : inner[j] \in Seq(Token)
        BY <4>1, ElementOfSeq
      <4> QED
        BY <4>1, <4>2, LenProperties
    <3>6. i < Len(inner) => i + 1 \in 1..Len(inner)
      <4>1. Len(inner) \in Nat
        BY LenProperties DEF IInv, TypeOK
      <4> QED
        BY <1>1, <4>1
    <3> QED
      BY <3>2, <3>4, <3>5, <3>6 DEF Led
  <2> QED
    BY <2>1, <2>2
<1> QED
  BY <1>1, <1>2, LedKept

\* What a node is there for stays; the new ones, and the node a walk leaves, have
\* to be looked at.
LEMMA ForkStep ==
  ASSUME AllForked, DOMAIN tree \subseteq DOMAIN tree',
         \A m \in DOMAIN tree : tree[m].leaf # None => tree'[m].leaf # None,
         \A n \in DOMAIN tree' \ DOMAIN tree :
           /\ tree'[n].leaf # None \/ Below(tree', n) # {}
           /\ IsStatic(n) => Forked(tree', n) \/ Due(n)',
         \A n \in DOMAIN tree : IsStatic(n) /\ Due(n) => Forked(tree', n) \/ Due(n)'
  PROVE  AllForked'
<1> SUFFICES ASSUME NEW n \in DOMAIN tree'
             PROVE  /\ tree'[n].leaf # None \/ Below(tree', n) # {}
                    /\ IsStatic(n) => Forked(tree', n) \/ Due(n)'
  BY DEF AllForked, IsStatic, Forked, Below, FirstTokens
<1>1. CASE n \notin DOMAIN tree
  BY <1>1
<1>2. CASE n \in DOMAIN tree
  <2>1. /\ Below(tree, n) \subseteq Below(tree', n) /\ (Forked(tree, n) => Forked(tree', n))
    BY <1>2, ForkKept
  <2>2. /\ tree[n].leaf # None \/ Below(tree, n) # {}
        /\ IsStatic(n) => Forked(tree, n) \/ Due(n)
    BY <1>2 DEF AllForked
  <2> QED
    BY <1>2, <2>1, <2>2
<1> QED
  BY <1>1, <1>2

\* insert_child ends every piece of static text at a parameter or with a leaf.
LEMMA GrownStrict ==
  ASSUME IInv, IInv', AllLed, AllForked, NEW n, NEW from, GrowsAt(n, from), GrowsTo(n, from),
         BadWild(path, from) = {}, pc \in Inserting, pc' = "idle", inner' = Append(inner, path),
         \A m \in DOMAIN tree' \ DOMAIN tree : tree'[m].cands = {index},
         \A m \in DOMAIN tree : \A i \in tree'[m].cands :
           i \in tree[m].cands \/ (i = index /\ SamePrefix(m, path, Len(m))),
         \A m \in DOMAIN tree : IsStatic(m) /\ Due(m) => Forked(tree', m)
  PROVE  AllLed' /\ AllForked'
<1> DEFINE g == Grow(tree, n, from)
<1>1. /\ n \in Seq(Token) /\ from \in Nat /\ Len(n) = from /\ from < Len(path) /\ Len(path) \in Nat
      /\ path \in Seq(Token) /\ SamePrefix(n, path, from) /\ OpenEnd(n, from) /\ TypeOK
  BY LenProperties DEF GrowsAt, IInv, TypeOK
<1>2. /\ IsTree(g) /\ DOMAIN tree \subseteq DOMAIN g /\ \A m \in DOMAIN tree : g[m] = tree[m]
      /\ \A m \in DOMAIN g \ DOMAIN tree :
           /\ \E k \in Cuts(path, from) : Continues(m, n, from, k)
           /\ g[m].leaf = IF Len(m) = Len(path) THEN index ELSE None
      /\ \A k \in Cuts(path, from) : \E m \in DOMAIN g \ DOMAIN tree : Continues(m, n, from, k)
  BY <1>1, GrowNodes
<1> HIDE DEF g
<1>3. DOMAIN tree' = DOMAIN g /\ \A m \in DOMAIN tree' : tree'[m].leaf = g[m].leaf
  BY DEF GrowsTo, g
<1>4. index \in Nat /\ index # None
  BY <1>1, IndexIsNat DEF None
<1>5. \A k \in Cuts(path, from) : k \in from + 1..Len(path)
      /\ (path[k] \in Wild \/ k = Len(path) \/ path[k + 1] \in Wild)
  BY DEF Cuts
<1>6. \A k \in from + 1..Len(path) :
        path[k] \in Wild \/ k = Len(path) \/ path[k + 1] \in Wild => k \in Cuts(path, from)
  BY DEF Cuts
<1>7. AllLed'
  <2>1. ASSUME NEW m \in DOMAIN tree', NEW i \in tree'[m].cands
        PROVE  \/ i = index /\ SamePrefix(m, path, Len(m))
               \/ \E d \in DOMAIN tree : i \in tree[d].cands /\ Under(d, m)
    <3>1. CASE m \in DOMAIN tree
      <4>1. Under(m, m)
        BY <1>1, <3>1, LenProperties DEF Under, Same, TypeOK
      <4> QED
        BY <3>1, <4>1
    <3>2. CASE m \notin DOMAIN tree
      <4>1. i = index
        BY <3>2
      <4>2. PICK k \in Cuts(path, from) : Continues(m, n, from, k)
        BY <1>2, <1>3, <3>2
      <4>3. \A j \in 1..from : Shape(n[j]) = Shape(path[j])
        BY <1>1 DEF SamePrefix
      <4>4. Len(m) = k /\ k \in from + 1..Len(path)
        BY <1>5, <4>2 DEF Continues
      <4>5. ASSUME NEW j \in 1..k PROVE Shape(m[j]) = Shape(path[j])
        <5>1. j \in 1..from \/ j \in from + 1..k
          BY <1>1, <4>4
        <5> QED
          BY <4>2, <4>3, <5>1 DEF Continues
      <4>6. SamePrefix(m, path, Len(m))
        BY <1>1, <4>4, <4>5 DEF SamePrefix
      <4> QED
        BY <4>1, <4>6
    <3> QED
      BY <3>1, <3>2
  <2> QED
    BY <2>1, LedStep
<1>8. AllForked'
  <2>1. \A m \in DOMAIN tree : tree[m].leaf # None => tree'[m].leaf # None
    BY <1>2, <1>3
  <2>2. ASSUME NEW m \in DOMAIN tree' \ DOMAIN tree
        PROVE  /\ tree'[m].leaf # None \/ Below(tree', m) # {}
               /\ IsStatic(m) => Forked(tree', m) \/ Due(m)'
    <3>1. PICK k \in Cuts(path, from) : Continues(m, n, from, k)
      BY <1>2, <1>3
    <3>2. k \in from + 1..Len(path) /\ Len(m) = k /\ m \in Seq(Token)
      BY <1>5, <3>1 DEF Continues
    <3>3. CASE k = Len(path)
      <4>1. tree'[m].leaf = index
        BY <1>2, <1>3, <3>2, <3>3
      <4> QED
        BY <1>4, <4>1 DEF Forked
    \* A text that goes on from m is below it.
    <3>4. ASSUME NEW l \in Cuts(path, from), k < l
          PROVE  \E d \in Below(tree', m) : d[Len(m) + 1] = path[Len(m) + 1]
      <4>1. PICK d \in DOMAIN tree' : Continues(d, n, from, l)
        BY <1>2, <1>3
      <4>2. d \in Seq(Token) /\ Len(d) = l /\ l \in from + 1..Len(path)
        BY <1>5, <4>1 DEF Continues
      <4>3. \A j \in 1..k : m[j] = d[j]
        <5> SUFFICES ASSUME NEW j \in 1..k PROVE m[j] = d[j]
          OBVIOUS
        <5>1. (j \in 1..from \/ j \in from + 1..k) /\ (j \in 1..from \/ j \in from + 1..l)
          BY <1>1, <3>2, <3>4, <4>2
        <5> QED
          BY <1>1, <3>1, <3>2, <4>1, <4>2, <5>1 DEF Continues
      <4>4. IsStrictPrefix(m, d)
        BY <1>1, <3>2, <3>4, <4>2, <4>3, StrictPrefix
      <4>5. k + 1 \in from + 1..l
        BY <1>1, <3>2, <3>4, <4>2
      <4>6. d[k + 1] = path[k + 1]
        BY <4>1, <4>5 DEF Continues
      <4> QED
        BY <3>2, <4>1, <4>4, <4>6 DEF Below
    <3>5. CASE k # Len(path)
      <4>1. Len(path) \in Cuts(path, from) /\ k < Len(path)
        BY <1>1, <1>6, <3>2, <3>5
      <4>2. Below(tree', m) # {}
        BY <3>4, <4>1
      <4>3. ASSUME IsStatic(m) PROVE Forked(tree', m)
        <5>1. path[k] \notin Wild
          <6>1. m[k] = path[k]
            BY <1>1, <3>1, <3>2 DEF Continues
          <6> QED
            BY <3>2, <4>3, <6>1 DEF IsStatic
        <5>2. path[k + 1] \in Wild
          BY <1>5, <3>5, <5>1
        <5>3. k + 1 \in Cuts(path, from)
          <6>1. k + 1 \in from + 1..Len(path)
            BY <1>1, <3>2, <4>1
          <6> QED
            BY <1>6, <5>2, <6>1
        <5>4. k < k + 1
          BY <3>2
        <5>5. PICK d \in Below(tree', m) : d[Len(m) + 1] = path[Len(m) + 1]
          BY <3>4, <5>3, <5>4
        <5>6. path[Len(m) + 1] \in FirstTokens(tree', m)
          BY <5>5 DEF FirstTokens
        <5> QED
          BY <3>2, <5>2, <5>6 DEF Forked
      <4> QED
        BY <4>2, <4>3
    <3> QED
      BY <3>3, <3>5
  <2> QED
    BY <1>2, <1>3, <2>1, <2>2, ForkStep
<1> QED
  BY <1>7, <1>8

\* The first route of all,
LEMMA PlantStrict ==
  ASSUME IInv, IInv', AllLed, AllForked, Plant, pc' = "idle", inner' = Append(inner, path),
         BadWild(path, 0) = {}
  PROVE  AllLed' /\ AllForked'
<1>1. GrowsAt(<<>>, 0) /\ DOMAIN tree = {} /\ tree' = Grow(tree, <<>>, 0) /\ pc \in Inserting
  BY PlantGrows DEF IInv, OnTheWay, Plant, Inserting
<1>2. GrowsTo(<<>>, 0) /\ \A m \in DOMAIN tree' \ DOMAIN tree : tree'[m].cands = {index}
  BY <1>1, GrowCandidates DEF GrowsTo
<1> QED
  BY <1>1, <1>2, GrownStrict

\* What the two other callers have in common: text is added below cur.
LEMMA BranchStrict ==
  ASSUME IInv, IInv', AllLed, AllForked, pc = "descend", pc' = "idle", inner' = Append(inner, path),
         BadWild(path, offset) = {}, GrowsAt(cur, offset), GrowsTo(cur, offset),
         \A m \in DOMAIN tree' \ DOMAIN tree : tree'[m].cands = {index},
         \A m \in DOMAIN tree : \A i \in tree'[m].cands : i \in tree[m].cands \/ (i = index /\ m = cur),
         NextToken \notin Wild => NextToken \notin FirstTokens(tree, cur)
  PROVE  AllLed' /\ AllForked'
<1> DEFINE g == Grow(tree, cur, offset)
<1>1. /\ cur \in DOMAIN tree /\ cur \in Seq(Token) /\ offset = Len(cur) /\ offset \in Nat /\ Len(path) \in Nat
      /\ offset < Len(path) /\ SamePrefix(cur, path, Len(cur)) /\ OpenEnd(cur, offset) /\ TypeOK
  BY LenProperties DEF IInv, TypeOK, OnTheWay, GrowsAt
<1>2. /\ DOMAIN tree \subseteq DOMAIN g /\ \A m \in DOMAIN tree : g[m] = tree[m]
      /\ \A k \in Cuts(path, offset) : \E m \in DOMAIN g : Continues(m, cur, offset, k)
  BY <1>1, GrowNodes
<1> HIDE DEF g
<1>3. DOMAIN tree' = DOMAIN g /\ \A m \in DOMAIN tree' : tree'[m].leaf = g[m].leaf
  BY DEF GrowsTo, g
<1>4. Len(path) \in Cuts(path, offset) /\ (NextToken \in Wild => offset + 1 \in Cuts(path, offset))
  <2>1. Len(path) \in offset + 1..Len(path) /\ offset + 1 \in offset + 1..Len(path)
    BY <1>1
  <2> QED
    BY <2>1 DEF Cuts, NextToken
<1>5. NextToken \in FirstTokens(tree', cur)
  <2>1. PICK d \in DOMAIN tree' : Continues(d, cur, offset, Len(path))
    BY <1>2, <1>3, <1>4
  <2>2. d \in Seq(Token) /\ Len(d) = Len(path) /\ (\A j \in 1..Len(cur) : cur[j] = d[j])
        /\ d[offset + 1] = path[offset + 1]
    <3>1. offset + 1 \in offset + 1..Len(path)
      BY <1>1
    <3> QED
      BY <1>1, <2>1, <3>1 DEF Continues
  <2>3. IsStrictPrefix(cur, d)
    BY <1>1, <2>2, StrictPrefix
  <2>4. d \in Below(tree', cur) /\ d[Len(cur) + 1] = NextToken
    BY <1>1, <2>1, <2>2, <2>3 DEF Below, NextToken
  <2> QED
    BY <2>4 DEF FirstTokens
<1>6. Forked(tree', cur)
  <2>1. CASE NextToken \in Wild
    BY <1>5, <2>1 DEF Forked
  <2>2. CASE NextToken \notin Wild /\ tree[cur].leaf # None
    BY <1>1, <1>2, <1>3, <2>2 DEF Forked
  <2>3. CASE NextToken \notin Wild /\ Below(tree, cur) # {}
    <3>1. PICK s \in FirstTokens(tree, cur) : s # NextToken
      BY <2>3 DEF FirstTokens
    <3>2. FirstTokens(tree, cur) \subseteq FirstTokens(tree', cur)
      BY <1>1, <1>2, <1>3, ForkKept
    <3> QED
      BY <1>5, <3>1, <3>2 DEF Forked
  <2> QED
    BY <1>1, <2>1, <2>2, <2>3 DEF AllForked
<1> QED
  BY <1>1, <1>6, GrownStrict DEF Due, Inserting

\* a parameter below a childless node,
LEMMA AddWildcardStrict ==
  ASSUME IInv, IInv', AllLed, AllForked, AddWildcard, pc' = "idle", inner' = Append(inner, path),
         BadWild(path, offset) = {}
  PROVE  AllLed' /\ AllForked'
<1>1. GrowsAt(cur, offset) /\ tree' = Grow(tree, cur, offset) /\ pc = "descend" /\ NextToken \in Wild
  BY GrowsAtCur DEF AddWildcard, Wild
<1>2. GrowsTo(cur, offset) /\ \A m \in DOMAIN tree' \ DOMAIN tree : tree'[m].cands = {index}
  BY <1>1, GrowCandidates DEF GrowsTo
<1>3. \A m \in DOMAIN tree : tree'[m] = tree[m]
  BY <1>1, GrowNodes DEF GrowsAt, IInv
<1> QED
  BY <1>1, <1>2, <1>3, BranchStrict

\* and a static child beside others.
LEMMA AddStaticStrict ==
  ASSUME IInv, IInv', AllLed, AllForked, AddStatic, pc' = "idle", inner' = Append(inner, path),
         BadWild(path, offset) = {}
  PROVE  AllLed' /\ AllForked'
<1> DEFINE g == Grow(tree, cur, offset)
<1>1. GrowsAt(cur, offset) /\ cur \in DOMAIN tree /\ pc = "descend" /\ index \in Nat
      /\ NextToken \notin FirstTokens(tree, cur)
  BY GrowsAtCur, IndexIsNat DEF AddStatic, IInv
<1>2. IsTree(g) /\ DOMAIN tree \subseteq DOMAIN g /\ \A m \in DOMAIN tree : g[m] = tree[m]
  BY <1>1, GrowNodes DEF GrowsAt, IInv
<1>3. \A m \in DOMAIN g \ DOMAIN tree : g[m].cands = {index}
  BY GrowCandidates
<1> HIDE DEF g
<1>4. tree' = AddCandidate(g, cur, index)
  BY DEF AddStatic, g
<1>5. SameLeaves(g, tree')
  BY <1>1, <1>2, <1>4, AddCandidateKeepsLeaves
<1>6. GrowsTo(cur, offset)
  BY <1>5 DEF GrowsTo, g, SameLeaves
<1>7. \A m \in DOMAIN g : tree'[m].cands = IF m = cur THEN g[m].cands \cup {index} ELSE g[m].cands
  BY <1>1, <1>2, <1>4 DEF AddCandidate, IsTree, Node
<1>8. DOMAIN tree' = DOMAIN g
  BY <1>5 DEF SameLeaves
<1>9. \A m \in DOMAIN tree' \ DOMAIN tree : tree'[m].cands = {index}
  BY <1>1, <1>3, <1>7, <1>8
<1>10. \A m \in DOMAIN tree : \A i \in tree'[m].cands : i \in tree[m].cands \/ (i = index /\ m = cur)
  BY <1>2, <1>7, <1>8
<1> QED
  BY <1>1, <1>6, <1>9, <1>10, BranchStrict

\* A step that only marks the node it is at.
LEMMA MarkStrict ==
  ASSUME IInv, IInv', AllLed, AllForked, pc \in Inserting, cur \in DOMAIN tree,
         \/ pc' \in Inserting /\ path' = path /\ inner' = inner
         \/ inner' = Append(inner, path),
         NEW t, IsTree(t), SameLeaves(t, tree'), \A m \in DOMAIN t : t[m].cands = tree[m].cands,
         DOMAIN t = DOMAIN tree, \A m \in DOMAIN tree : tree[m].leaf # None => t[m].leaf # None,
         tree' = AddCandidate(t, cur, index), SamePrefix(cur, path, Len(cur)),
         \A n : n = cur /\ IsStatic(n) /\ Due(n) => Forked(tree', n) \/ Due(n)'
  PROVE  AllLed' /\ AllForked'
<1>1. DOMAIN tree' = DOMAIN tree /\ \A m \in DOMAIN tree : tree'[m].leaf = t[m].leaf
  BY DEF SameLeaves
<1>2. \A m \in DOMAIN tree : \A i \in tree'[m].cands :
        i \in tree[m].cands \/ (i = index /\ m = cur)
  BY DEF AddCandidate, IsTree, Node
<1>3. AllLed'
  <2>1. ASSUME NEW n \in DOMAIN tree', NEW i \in tree'[n].cands
        PROVE  \/ i = index /\ SamePrefix(n, path, Len(n))
               \/ \E m \in DOMAIN tree : i \in tree[m].cands /\ Under(m, n)
    <3>1. Under(n, n)
      BY <1>1, LenProperties DEF Under, Same, IInv, TypeOK
    <3> QED
      BY <1>1, <1>2, <3>1
  <2> QED
    BY <2>1, LedStep
<1>4. AllForked'
  <2>1. \A n \in DOMAIN tree : IsStatic(n) /\ Due(n) => Forked(tree', n) \/ Due(n)'
    BY DEF Due
  <2> QED
    BY <1>1, <2>1, ForkStep
<1> QED
  BY <1>3, <1>4

\* The walk goes on to a static child there is,
LEMMA FollowStaticStrict ==
  ASSUME IInv, IInv', AllLed, AllForked, FollowStatic
  PROVE  AllLed' /\ AllForked'
<1>1. /\ cur \in DOMAIN tree /\ offset = Len(cur) /\ SamePrefix(cur, path, Len(cur)) /\ index \in Nat
      /\ IsTree(tree) /\ pc = "descend"
  BY IndexIsNat DEF IInv, TypeOK, OnTheWay, FollowStatic, IsTree
<1>2. /\ tree' = AddCandidate(tree, cur, index) /\ pc' = "segment" /\ path' = path /\ inner' = inner
      /\ cur' \in ChildAt(tree, cur, NextToken)
  BY DEF FollowStatic
<1>3. NextToken \in FirstTokens(tree, cur)
  BY <1>2 DEF ChildAt, Children, FirstTokens
<1>4. SameLeaves(tree, tree')
  BY <1>1, <1>2, AddCandidateKeepsLeaves
<1>5. ~Due(cur)
  BY <1>1, <1>3 DEF Due
<1> QED
  BY <1>1, <1>2, <1>4, <1>5, MarkStrict DEF Inserting

\* or to a parameter, which is what the node is there for.
LEMMA FollowWildcardStrict ==
  ASSUME IInv, IInv', AllLed, AllForked, FollowWildcard, pc' # "idle"
  PROVE  AllLed' /\ AllForked'
<1>1. /\ cur \in DOMAIN tree /\ offset = Len(cur) /\ SamePrefix(cur, path, Len(cur)) /\ index \in Nat
      /\ IsTree(tree) /\ pc = "descend"
  BY IndexIsNat DEF IInv, TypeOK, OnTheWay, FollowWildcard, IsTree
<1>2. /\ tree' = AddCandidate(tree, cur, index) /\ pc' \in {"leaf", "descend"} /\ path' = path /\ inner' = inner
      /\ Below(tree, cur) # {} /\ FirstTokens(tree, cur) \subseteq Wild
  BY DEF FollowWildcard, Fail, Idle
<1>3. SameLeaves(tree, tree')
  BY <1>1, <1>2, AddCandidateKeepsLeaves
<1>4. Forked(tree, cur)
  <2>1. FirstTokens(tree, cur) # {}
    BY <1>2 DEF FirstTokens
  <2> QED
    BY <1>2, <2>1 DEF Forked
<1>5. Forked(tree', cur)
  BY <1>1, <1>3, <1>4, ForkKept DEF SameLeaves
<1> QED
  BY <1>1, <1>2, <1>3, <1>5, MarkStrict DEF Inserting

\* A leaf is set where the text of the route ends.
LEMMA SetLeafStrict ==
  ASSUME IInv, IInv', AllLed, AllForked, SetLeaf, inner' = Append(inner, path), inner' # inner
  PROVE  AllLed' /\ AllForked'
<1> DEFINE u == [tree EXCEPT ![cur].leaf = index]
<1>1. /\ cur \in DOMAIN tree /\ SameShape(cur, path) /\ index \in Nat /\ IsTree(tree) /\ pc = "leaf"
  BY IndexIsNat DEF IInv, TypeOK, OnTheWay, SetLeaf, IsTree
<1>2. tree' = AddCandidate(u, cur, index)
  BY DEF SetLeaf, Fail
<1>3. IsTree(u) /\ DOMAIN u = DOMAIN tree /\ u[cur].leaf = index /\ \A m \in DOMAIN tree \ {cur} : u[m] = tree[m]
  BY <1>1, SetLeafType
<1>4. \A m \in DOMAIN u : u[m].cands = tree[m].cands
  BY <1>1 DEF IsTree, Node
<1> HIDE DEF u
<1>5. SameLeaves(u, tree')
  BY <1>1, <1>2, <1>3, AddCandidateKeepsLeaves
<1>6. index # None
  BY <1>1 DEF None
<1>7. Forked(tree', cur)
  BY <1>1, <1>3, <1>5, <1>6 DEF Forked, SameLeaves
<1>8. SamePrefix(cur, path, Len(cur))
  BY <1>1, LenProperties DEF SameShape, SamePrefix, IInv, TypeOK
<1>9. \A m \in DOMAIN tree : tree[m].leaf # None => u[m].leaf # None
  BY <1>3, <1>6
<1> QED
  BY <1>1, <1>2, <1>3, <1>4, <1>5, <1>7, <1>8, <1>9, MarkStrict DEF Inserting

\* Static text is split where the route forks off, or ends.
LEMMA SegmentStrict ==
  ASSUME IInv, IInv', Radix, AllLed, AllForked, Segment
  PROVE  AllLed' /\ AllForked'
<1>1. /\ cur \in Seq(Token) /\ cur \in DOMAIN tree /\ offset \in Nat /\ pc = "segment"
      /\ Len(path) \in Nat /\ Len(cur) \in Nat /\ index \in Nat /\ IsTree(tree)
  BY LenProperties, IndexIsNat DEF IInv, TypeOK, Segment, IsTree
<1>2. /\ offset < Len(path) /\ offset < Len(cur) /\ cur[offset + 1] = path[offset + 1]
      /\ \A m \in DOMAIN tree : IsStrictPrefix(m, cur) => Len(m) <= offset
  BY DEF IInv, OnTheWay, Segment
<1>3. PICK i \in 0..Len(path) :
        /\ CommonPrefix(i)
        /\ tree' = IF offset + i = Len(cur)
                   THEN AddCandidate(tree, cur, index)
                   ELSE [m \in DOMAIN tree \cup {SubSeq(cur, 1, offset + i)} |->
                           IF m = SubSeq(cur, 1, offset + i)
                           THEN [cands |-> tree[cur].cands \cup {index}, leaf |-> None]
                           ELSE tree[m]]
        /\ cur' = SubSeq(cur, 1, offset + i)
        /\ offset' = offset + i
        /\ pc' = IF offset + i = Len(path) THEN "leaf" ELSE "descend"
  BY DEF Segment
<1>4. path' = path /\ inner' = inner /\ pc' \in Inserting
  BY <1>3 DEF Segment, Inserting
<1>5. PICK k, upper : k = offset + i /\ upper = SubSeq(cur, 1, k)
  OBVIOUS
<1>6. k \in offset + 1..Len(cur) /\ k \in Nat /\ k >= 1 /\ k <= Len(cur) /\ k <= Len(path)
  <2>1. i # 0
    BY <1>1, <1>2, <1>3 DEF CommonPrefix
  <2> QED
    BY <1>1, <1>3, <1>5, <2>1 DEF CommonPrefix
<1>7. upper \in Seq(Token) /\ Len(upper) = k /\ Same(upper, cur, k)
  <2>1. \A j \in 1..k : cur[j] \in Token
    BY <1>1, <1>6, ElementOfSeq
  <2> QED
    BY <1>5, <1>6, <2>1, SubSeqProperties DEF Same
<1>8. /\ cur' = upper /\ offset' = k
      /\ (k = Len(path) /\ pc' = "leaf") \/ (k < Len(path) /\ pc' = "descend")
  BY <1>1, <1>3, <1>5, <1>6
<1>9. SamePrefix(upper, path, Len(upper))
  BY <1>1, <1>4, <1>6, <1>7, <1>8 DEF IInv, OnTheWay, SameShape, SamePrefix
<1>10. CASE k = Len(cur)
  <2>1. upper = cur
    BY <1>1, <1>7, <1>10, SeqEqual DEF Same
  <2>2. tree' = AddCandidate(tree, cur, index)
    BY <1>3, <1>5, <1>10
  <2>3. SameLeaves(tree, tree')
    BY <1>1, <2>2, AddCandidateKeepsLeaves
  <2>4. \A n : ~Due(n)
    BY <1>1 DEF Due
  <2> QED
    BY <1>1, <1>4, <1>9, <2>1, <2>2, <2>3, <2>4, MarkStrict DEF Inserting
<1>11. CASE k # Len(cur)
  <2>1. k < Len(cur) /\ IsStrictPrefix(upper, cur)
    BY <1>1, <1>6, <1>7, <1>11, StrictPrefix DEF Same
  <2>2. upper \notin DOMAIN tree
    BY <1>1, <1>2, <1>6, <1>7, <2>1
  <2>3. tree' = [m \in DOMAIN tree \cup {upper} |->
                   IF m = upper
                   THEN [cands |-> tree[cur].cands \cup {index}, leaf |-> None]
                   ELSE tree[m]]
    BY <1>3, <1>5, <1>11
  <2>4. /\ DOMAIN tree' = DOMAIN tree \cup {upper} /\ \A m \in DOMAIN tree : tree'[m] = tree[m]
        /\ tree'[upper].cands = tree[cur].cands \cup {index}
    BY <2>2, <2>3
  <2> HIDE <2>3
  <2>5. AllLed'
    <3>1. Under(cur, upper)
      BY <1>1, <1>6, <1>7 DEF Under
    <3>2. ASSUME NEW n \in DOMAIN tree', NEW j \in tree'[n].cands
          PROVE  \/ j = index /\ SamePrefix(n, path, Len(n))
                 \/ \E m \in DOMAIN tree : j \in tree[m].cands /\ Under(m, n)
      <4>1. CASE n = upper
        BY <1>1, <1>9, <2>4, <3>1, <4>1
      <4>2. CASE n # upper
        <5>1. n \in DOMAIN tree /\ Under(n, n)
          BY <2>4, <4>2, LenProperties DEF Under, Same, IInv, TypeOK
        <5> QED
          BY <2>4, <5>1
      <4> QED
        BY <4>1, <4>2
    <3> QED
      BY <1>1, <1>4, <3>2, LedStep DEF Inserting
  <2>6. Below(tree', upper) # {}
    BY <1>1, <2>1, <2>4 DEF Below
  <2>7. pc' = "descend" => path[k + 1] \notin FirstTokens(tree', upper)
    <3> SUFFICES ASSUME pc' = "descend", NEW d \in Below(tree', upper), d[k + 1] = path[k + 1]
                 PROVE  FALSE
      BY <1>7 DEF FirstTokens
    <3>1. d \in DOMAIN tree /\ IsStrictPrefix(upper, d)
      <4>1. d # upper
        BY DEF Below, IsStrictPrefix
      <4> QED
        BY <2>4, <4>1 DEF Below
    <3>2. d \in Seq(Token) /\ Len(d) \in Nat
      BY <3>1, LenProperties DEF IInv, TypeOK
    <3>3. k < Len(d) /\ \A j \in 1..k : upper[j] = d[j]
      BY <1>7, <3>1, <3>2, StrictPrefix
    <3>4. Same(d, cur, offset + 1) /\ offset < Len(d)
      BY <1>1, <1>6, <1>7, <3>2, <3>3 DEF Same
    <3>5. Under(d, cur)
      BY <1>1, <1>2, <3>1, <3>4, OneChild DEF IInv, Radix
    <3>6. d[k + 1] = cur[k + 1]
      BY <1>6, <2>1, <3>5 DEF Under, Same
    <3>7. path[k + 1] # cur[k + 1]
      BY <1>3, <1>5, <1>8, <2>1 DEF CommonPrefix
    <3> QED
      BY <3>6, <3>7
  <2>8. Due(upper)'
    <3>1. pc' = "descend" => path'[offset' + 1] \notin FirstTokens(tree', upper)
      BY <1>4, <1>8, <2>7
    <3> QED
      BY <1>8, <3>1 DEF Due, NextToken
  <2>9. \A n : ~Due(n)
    BY <1>1 DEF Due
  <2>10. AllForked'
    BY <2>4, <2>6, <2>8, <2>9, ForkStep
  <2> QED
    BY <2>5, <2>10
<1> QED
  BY <1>10, <1>11

\* One turn of an insertion, which ends the configuration when it fails.
LEMMA TurnStrict ==
  ASSUME ~Lenient, DispatchInv, DispatchInv', Strict, InsertTurn
  PROVE  Strict'
<1>1. IInv /\ IInv' /\ Radix
  BY DEF DispatchInv, AppIInv, SearchInv
<1>2. /\ pc \in Inserting
      /\ \/ pc' \in Inserting /\ path' = path /\ inner' = inner
         \/ pc' = "idle" /\ inner' \in {inner, Append(inner, path)}
  BY TurnShape DEF InsertTurn
<1>3. AllLed /\ AllForked
  BY <1>2 DEF Strict, DispatchInv, AppIInv, Underway
<1>4. CASE pc' = "idle" /\ inner' = inner
  <2>1. phase' = "refused"
    BY <1>4 DEF InsertTurn, Refuse
  <2> QED
    BY <2>1 DEF Strict
<1>5. CASE pc' = "idle" /\ inner' # inner
  <2>1. inner' = Append(inner, path) /\ ~Fail
    BY <1>2, <1>5 DEF Inserting, Fail
  <2>2. CASE Plant
    BY <1>1, <1>3, <1>5, <2>1, <2>2, PlantStrict DEF Plant, Strict
  <2>3. CASE AddWildcard
    BY <1>1, <1>3, <1>5, <2>1, <2>3, AddWildcardStrict DEF AddWildcard, Strict
  <2>4. CASE AddStatic
    BY <1>1, <1>3, <1>5, <2>1, <2>4, AddStaticStrict DEF AddStatic, Strict
  <2>5. CASE SetLeaf
    BY <1>1, <1>3, <1>5, <2>1, <2>5, SetLeafStrict DEF Strict
  <2>6. CASE Segment \/ FollowWildcard \/ FollowStatic \/ RefuseCatchAll \/ RefuseWildcard \/ RefuseStatic
    BY <1>5, <2>1, <2>6 DEF Segment, FollowWildcard, FollowStatic, RefuseCatchAll, RefuseWildcard, RefuseStatic
  <2> QED
    BY <2>2, <2>3, <2>4, <2>5, <2>6 DEF InsertTurn
<1>6. CASE pc' # "idle"
  <2>1. ~Fail /\ ~Register(path)
    BY <1>6 DEF Fail, Register, Idle
  <2>2. CASE Segment
    BY <1>1, <1>3, <2>2, SegmentStrict DEF Strict
  <2>3. CASE FollowWildcard
    BY <1>1, <1>3, <1>6, <2>3, FollowWildcardStrict DEF Strict
  <2>4. CASE FollowStatic
    BY <1>1, <1>3, <2>4, FollowStaticStrict DEF Strict
  <2>5. ~Plant /\ ~AddWildcard /\ ~AddStatic /\ ~SetLeaf /\ ~RefuseCatchAll /\ ~RefuseWildcard /\ ~RefuseStatic
    BY <2>1 DEF Plant, AddWildcard, AddStatic, SetLeaf, RefuseCatchAll, RefuseWildcard, RefuseStatic
  <2> QED
    BY <2>2, <2>3, <2>4, <2>5 DEF InsertTurn
<1> QED
  BY <1>4, <1>5, <1>6

\* Between insertions neither the tree nor the routes change.
LEMMA QuietStrict ==
  ASSUME Strict, UNCHANGED <<tree, inner>>, pc \notin Inserting, phase = "refused" => phase' = "refused"
  PROVE  Strict'
<1> SUFFICES ASSUME phase' # "refused" PROVE AllLed' /\ AllForked'
  BY DEF Strict
<1>1. AllLed /\ AllForked
  BY DEF Strict
<1>2. \A n, i : Led(n, i) => i # Len(inner) /\ i < Len(inner) /\ SamePrefix(n, inner[i + 1], Len(n))
  BY DEF Led
<1>3. AllLed'
  BY <1>1, <1>2 DEF AllLed, Led
<1>4. \A n : ~Due(n)
  BY DEF Due, Inserting
<1>5. AllForked'
  BY <1>1, <1>4 DEF AllForked, Forked, Below, FirstTokens
<1> QED
  BY <1>3, <1>5

\* Every step keeps what the nodes are there for, as long as an error ends the
\* configuration.
LEMMA NextStrict ==
  ASSUME ~Lenient, DispatchInv, DispatchInv', Strict, [AppNext]_<<vars, appVars>>
  PROVE  Strict'
<1>1. pc = "idle" => pc \notin Inserting
  BY DEF Inserting
<1>2. CASE \E r \in Patterns : Route(r)
  <2>1. PICK r \in Patterns : Route(r)
    BY <1>2
  <2>2. UNCHANGED <<tree, inner>>
    BY <2>1 DEF Route, BeginInsert, registry, vars
  <2>3. pc = "idle" /\ phase = "configure"
    BY <2>1 DEF Route, Configuring
  <2> QED
    BY <1>1, <2>2, <2>3, QuietStrict
<1>3. CASE InsertTurn
  BY <1>3, TurnStrict
<1>4. CASE \/ RouteAsterisk \/ (\E p \in MountPoints : Mount(p)) \/ (\E m \in Modifiers : Modify(m))
           \/ BadUri \/ Return
  <2>1. UNCHANGED <<tree, inner>> /\ pc = "idle" /\ phase = "configure"
    BY <1>4 DEF RouteAsterisk, Mount, Modify, BadUri, Return, Configuring, vars
  <2> QED
    BY <1>1, <2>1, QuietStrict
<1>5. CASE Serve
  <2>1. Recognize /\ phase' = phase
    BY <1>5 DEF Serve, Request, RequestAsterisk, MatchTurn, Recognize
  <2>2. UNCHANGED <<tree, inner>>
    BY <2>1, SearchRadix DEF DispatchInv, SearchInv
  <2>3. pc \in {"idle", "match"}
    BY <2>1 DEF Recognize, RecognizeAsterisk, BeginRecognize, RecognizeNothing, MatchStatic, MatchParam,
       MatchCatchAll
  <2> QED
    BY <2>1, <2>2, <2>3, QuietStrict DEF Inserting
<1>6. CASE UNCHANGED <<vars, appVars>>
  <2>1. UNCHANGED <<tree, inner, phase, pc, path, cur, offset>>
    BY <1>6 DEF vars, appVars
  <2>2. \A n, i : Led(n, i)' = Led(n, i)
    BY <2>1 DEF Led
  <2>3. AllLed => AllLed'
    BY <2>1, <2>2 DEF AllLed
  <2>4. AllForked => AllForked'
    BY <2>1 DEF AllForked, Forked, Below, FirstTokens, Due, NextToken
  <2> QED
    BY <2>1, <2>3, <2>4 DEF Strict
<1> QED
  BY <1>2, <1>3, <1>4, <1>5, <1>6 DEF AppNext, Configure

\* When every error ends the configuration, the nodes of an application that
\* serves are there for routes, and their candidates lead to them.
LEMMA StrictInvariance == ~Lenient => (AppSpec => [](DispatchInv /\ Strict))
<1> SUFFICES ASSUME ~Lenient PROVE AppSpec => [](DispatchInv /\ Strict)
  OBVIOUS
<1>1. AppInit => DispatchInv /\ Strict
  <2> SUFFICES ASSUME AppInit PROVE Strict
    BY InitDispatch
  <2>1. DOMAIN tree = {}
    BY DEF AppInit, Init
  <2> QED
    BY <2>1 DEF Strict, AllLed, AllForked
<1>2. DispatchInv /\ Strict /\ [AppNext]_<<vars, appVars>> => (DispatchInv /\ Strict)'
  BY NextDispatch, NextStrict
<1> QED
  BY <1>1, <1>2, PTL DEF AppSpec

\* So a default handler answers only requests of its scope.
THEOREM DefaultsStayInScope == ~Lenient => (AppSpec => []AnswersInScope)
<1> SUFFICES ASSUME ~Lenient PROVE AppSpec => []AnswersInScope
  OBVIOUS
<1>1. DispatchInv /\ Strict /\ FallbackIsLocal => AnswersInScope
  <2> SUFFICES ASSUME DispatchInv, Strict, FallbackIsLocal, answer.kind = "default" PROVE AnswersInScope
    BY DEF AnswersInScope
  <2>1. phase = "serve" /\ pc \notin Inserting
    BY DEF DispatchInv, Dispatch, NoAnswer, AppIInv, Underway
  <2>2. AllLed /\ AllForked
    BY <2>1 DEF Strict
  <2>3. CandidatesLeadHere
    BY <2>1, <2>2 DEF AllLed, Led, CandidatesLeadHere
  <2>4. NodesAreNeeded
    BY <2>1, <2>2 DEF AllForked, Forked, Due, Inserting, NodesAreNeeded
  <2> QED
    BY <2>3, <2>4 DEF FallbackIsLocal
<1> QED
  BY <1>1, StrictInvariance, DefaultIsLocal, PTL
=============================================================================
