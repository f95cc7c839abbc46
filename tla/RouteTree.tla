----------------------------- MODULE RouteTree ------------------------------
(***************************************************************************)
(* The route recognizer, tsukuyomi/src/app/recognizer.rs: a radix tree     *)
(* over route patterns, built by `Recognizer::insert` and searched by      *)
(* `Recognizer::recognize`.                                                *)
(*                                                                         *)
(* A node is identified by the text it spells from the root, a sequence of *)
(* tokens.  The tree is a function from these sequences to the fields a    *)
(* node keeps, and the parent, the children and the label of a node follow *)
(* from the prefix order.  Splitting a node then adds the shorter prefix   *)
(* and touches nothing below it, as the code moves the leaf and the        *)
(* children of the old node to the new one.  An empty function is a tree   *)
(* whose root is None.                                                     *)
(*                                                                         *)
(* One action is one turn of the loop of `add_path` or of `recognize`; the *)
(* loop of `insert_child`, which only extends the node it was given, is    *)
(* one step.                                                               *)
(***************************************************************************)
EXTENDS RoutePattern

CONSTANTS
  Patterns,   \* the routes an application may try to register
  Requests,   \* the paths it may be asked for
  MaxRoutes   \* bound on the number of registered routes

ASSUME PatternsAssumption ==
  /\ Patterns \subseteq Seq(Token)
  /\ \A p \in Patterns : p # <<>> /\ p[1] = Slash /\ WellNamed(p)
ASSUME RequestsAssumption == Requests \subseteq Seq(Char)
ASSUME MaxRoutesAssumption == MaxRoutes \in Nat

None     == -1        \* Option::None for a leaf and for the asterisk
Asterisk == <<"*">>   \* the route and the request "*"; no pattern, as it has no slash
NoResult == [status |-> "none"]

VARIABLES
  inner,      \* the registered routes in order, the keys of the IndexMap
  tree,       \* node text -> [cands, leaf]
  asterisk,   \* index of the route "*"
  pc,         \* where the operation in progress stands
  path,       \* its argument
  cur,        \* the node `n` it is at
  offset,     \* how much of the path it has consumed
  params,     \* the Captures of a search: the spans of its parameters
  wildcard,   \* and that of the catch-all, a sequence of at most one
  result      \* the outcome of the last search

vars == <<inner, tree, asterisk, pc, path, cur, offset, params, wildcard, result>>
registry == <<inner, tree, asterisk>>
captures == <<params, wildcard>>

-----------------------------------------------------------------------------
(* The shape of the tree. *)

Below(t, n) == {c \in DOMAIN t : IsStrictPrefix(n, c)}

\* The nodes directly below n, and the first tokens of their labels.
Children(t, n) == {c \in Below(t, n) : \A d \in Below(t, n) : ~IsStrictPrefix(d, c)}
FirstTokens(t, n) == {c[Len(n) + 1] : c \in Below(t, n)}
ChildAt(t, n, tok) == {c \in Children(t, n) : c[Len(n) + 1] = tok}

\* The node with none above it: there is at most one (SingleRoot).
Roots(t) == {n \in DOMAIN t : \A m \in DOMAIN t : ~IsStrictPrefix(m, n)}
IsStatic(n) == n[Len(n)] \notin Wild

\* NodeKind::Static(s): s is the text of n after its parent's, of length b.
LabelStart(t, n, b) ==
  /\ \A m \in DOMAIN t : IsStrictPrefix(m, n) => Len(m) <= b
  /\ b > 0 => SubSeq(n, 1, b) \in DOMAIN t

AddCandidate(t, n, i) == [t EXCEPT ![n].cands = @ \cup {i}]
NewNode(i) == [cands |-> {i}, leaf |-> None]

\* `InsertContext.index`: the index the route gets if the insertion succeeds.
index == Len(inner)

-----------------------------------------------------------------------------
(* insert *)

Idle ==
  /\ pc' = "idle"
  /\ path' = <<>> /\ cur' = <<>> /\ offset' = 0
  /\ params' = <<>> /\ wildcard' = <<>>

\* `self.inner.insert(path, data)`: an IndexMap keeps the place of a key it has.
Register(p) ==
  /\ inner' = IF p \in ToSet(inner) THEN inner ELSE Append(inner, p)
  /\ Idle /\ UNCHANGED <<asterisk, result>>

\* An error returned from the tree: `?` skips the registration, and whatever
\* was done to the tree stays.
Fail == Idle /\ UNCHANGED <<inner, asterisk, result>>

InsertAsterisk ==
  /\ pc = "idle" /\ index < MaxRoutes
  /\ IF asterisk # None
     THEN UNCHANGED <<inner, asterisk>>
     ELSE asterisk' = index /\ inner' = Append(inner, Asterisk)
  /\ result' = NoResult
  /\ Idle /\ UNCHANGED tree

\* find_wildcard_end, as insert_child calls it on the rest of the path: the
\* first parameter of that rest is not asked for the slash in front of it.
WildcardEndOk(p, w, first) ==
  /\ w > first => p[w - 1] = Slash
  /\ w < Len(p) => p[w + 1] \notin Wild
  /\ p[w] = "*" => w = Len(p)

\* insert_child, and the static node its callers put in front: the places of
\* the path from `from` on where a node ends, up to the first bad parameter.
FirstWild(p, from) == {w \in from + 1..Len(p) : p[w] \in Wild /\ \A v \in from + 1..w - 1 : p[v] \notin Wild}
BadWild(p, from) ==
  {w \in from + 1..Len(p) :
     p[w] \in Wild /\ \A first \in FirstWild(p, from) : ~WildcardEndOk(p, w, first)}
Cuts(p, from) ==
  {k \in from + 1..Len(p) :
     /\ p[k] \in Wild \/ k = Len(p) \/ p[k + 1] \in Wild
     /\ \A w \in BadWild(p, from) : k < w}

\* The tree with the nodes of insert_child hung below n, and the leaf on the
\* last of them when the path was used up.
Grow(t, n, from) ==
  LET new == {n \o SubSeq(path, from + 1, k) : k \in Cuts(path, from)}
      end == n \o SubSeq(path, from + 1, Len(path))
  IN [m \in DOMAIN t \cup new |->
        IF m \notin new THEN t[m]
        ELSE IF m = end THEN [NewNode(index) EXCEPT !.leaf = index]
        ELSE NewNode(index)]

\* Tree::visit_tree
BeginInsert(p) ==
  /\ pc = "idle" /\ index < MaxRoutes
  /\ path' = p
  /\ \/ DOMAIN tree = {} /\ pc' = "plant" /\ cur' = <<>>
     \/ cur' \in Roots(tree) /\ pc' = "segment"
  /\ offset' = 0
  /\ result' = NoResult
  /\ UNCHANGED <<registry, captures>>

\* The first route makes the root, which stays if the rest is refused.
Plant ==
  /\ pc = "plant"
  /\ tree' = Grow(tree, <<>>, 0)
  /\ IF BadWild(path, 0) = {} THEN Register(path) ELSE Fail

\* i is longest_common_prefix of the rest of the path and the label of cur,
\* which begins where the path stands.
CommonPrefix(i) ==
  /\ offset + i <= Len(path) /\ offset + i <= Len(cur)
  /\ \A k \in offset + 1..offset + i : path[k] = cur[k]
  /\ (offset + i < Len(path) /\ offset + i < Len(cur))
       => path[offset + i + 1] # cur[offset + i + 1]

\* Mutant: the walk goes on to an upper half that was never made.
SegmentNoSplit ==
  /\ pc = "segment"
  /\ \E i \in 0..Len(path) :
       LET upper == SubSeq(cur, 1, offset + i) IN
       /\ CommonPrefix(i)
       /\ tree' = IF offset + i = Len(cur) THEN AddCandidate(tree, cur, index) ELSE tree
       /\ cur' = upper /\ offset' = offset + i
       /\ pc' = IF offset + i = Len(path) THEN "leaf" ELSE "descend"
  /\ UNCHANGED <<inner, asterisk, path, captures, result>>

\* The head of the loop at a static node: split it unless its whole label is
\* shared.  The lower half keeps the leaf, the children and a copy of the
\* candidates.
Segment ==
  /\ pc = "segment"
  /\ \E i \in 0..Len(path) :
       LET upper == SubSeq(cur, 1, offset + i) IN
       /\ CommonPrefix(i)
       /\ tree' = IF offset + i = Len(cur)
                  THEN AddCandidate(tree, cur, index)
                  ELSE [m \in DOMAIN tree \cup {upper} |->
                          IF m = upper
                          THEN [cands |-> tree[cur].cands \cup {index}, leaf |-> None]
                          ELSE tree[m]]
       /\ cur' = upper
       /\ offset' = offset + i
       /\ pc' = IF offset + i = Len(path) THEN "leaf" ELSE "descend"
  /\ UNCHANGED <<inner, asterisk, path, captures, result>>

NextToken == path[offset + 1]

\* Mutant: `:name` next to `*name` instead of on the same child.
AddWildcardBeside ==
  /\ pc = "descend" /\ NextToken = ":" /\ NextToken \notin FirstTokens(tree, cur)
  /\ tree' = Grow(tree, cur, offset)
  /\ IF BadWild(path, offset) = {} THEN Register(path) ELSE Fail

\* A parameter where the node has no child yet: insert_child.
AddWildcard ==
  /\ pc = "descend" /\ NextToken = ":" /\ Below(tree, cur) = {}
  /\ tree' = Grow(tree, cur, offset)
  /\ IF BadWild(path, offset) = {} THEN Register(path) ELSE Fail

\* "'catch-all' conflict"
RefuseCatchAll ==
  /\ pc = "descend" /\ NextToken = "*" /\ Below(tree, cur) = {}
  /\ Fail /\ UNCHANGED tree

\* "A static node has already inserted at wildcard position."
RefuseWildcard ==
  /\ pc = "descend" /\ NextToken \in Wild
  /\ FirstTokens(tree, cur) \ Wild # {}
  /\ Fail /\ UNCHANGED tree

\* A parameter where the node has a parameter child: `n = children[0]`,
\* whatever the kind of that child.
FollowWildcard ==
  /\ pc = "descend" /\ NextToken \in Wild
  /\ Below(tree, cur) # {} /\ FirstTokens(tree, cur) \subseteq Wild
  /\ tree' = AddCandidate(tree, cur, index)
  /\ IF WildcardEndOk(path, offset + 1, 0)
     THEN /\ cur' \in Children(tree, cur)
          /\ offset' = offset + 1
          /\ pc' = IF offset + 1 = Len(path) THEN "leaf" ELSE "descend"
          /\ UNCHANGED <<inner, asterisk, path, captures, result>>
     ELSE Fail

\* "A wildcard node has already inserted."
RefuseStatic ==
  /\ pc = "descend" /\ NextToken \notin Wild
  /\ FirstTokens(tree, cur) \cap Wild # {}
  /\ Fail /\ UNCHANGED tree

FollowStatic ==
  /\ pc = "descend" /\ NextToken \notin Wild
  /\ FirstTokens(tree, cur) \cap Wild = {}
  /\ cur' \in ChildAt(tree, cur, NextToken)
  /\ tree' = AddCandidate(tree, cur, index)
  /\ pc' = "segment"
  /\ UNCHANGED <<inner, asterisk, path, offset, captures, result>>

\* A new static child, built aside with all that follows and dropped when a
\* parameter of the rest is refused.
AddStatic ==
  /\ pc = "descend" /\ NextToken \notin Wild
  /\ FirstTokens(tree, cur) \cap (Wild \cup {NextToken}) = {}
  /\ IF BadWild(path, offset) = {}
     THEN tree' = AddCandidate(Grow(tree, cur, offset), cur, index) /\ Register(path)
     ELSE Fail /\ UNCHANGED tree

\* Mutants: the leaf is overwritten; it is set before the conflict is seen.
SetLeafOver ==
  /\ pc = "leaf"
  /\ tree' = AddCandidate([tree EXCEPT ![cur].leaf = index], cur, index)
  /\ Register(path)
SetLeafFirst ==
  /\ pc = "leaf"
  /\ tree' = AddCandidate([tree EXCEPT ![cur].leaf = index], cur, index)
  /\ IF "*" \in FirstTokens(tree, cur) \/ tree[cur].leaf # None THEN Fail ELSE Register(path)

\* After the loop: "catch-all conflict" and "normal path conflict", or set_leaf.
SetLeaf ==
  /\ pc = "leaf"
  /\ IF "*" \in FirstTokens(tree, cur) \/ tree[cur].leaf # None
     THEN Fail /\ UNCHANGED tree
     ELSE /\ tree' = AddCandidate([tree EXCEPT ![cur].leaf = index], cur, index)
          /\ Register(path)

Insert ==
  \/ InsertAsterisk
  \/ \E p \in Patterns : BeginInsert(p)
  \/ Plant \/ Segment
  \/ AddWildcard \/ RefuseCatchAll \/ RefuseWildcard \/ FollowWildcard
  \/ RefuseStatic \/ FollowStatic \/ AddStatic
  \/ SetLeaf

-----------------------------------------------------------------------------
(* recognize *)

Outcome(status, i, ps, w, cands) ==
  /\ result' = [status |-> status, index |-> i, request |-> path,
                params |-> ps, wildcard |-> w, cands |-> cands]
  /\ Idle /\ UNCHANGED registry

\* A request for "*", which never reaches the tree.
RecognizeAsterisk ==
  /\ pc = "idle"
  /\ result' = [status |-> IF asterisk # None THEN "ok" ELSE "not_matched",
                index |-> asterisk, request |-> Asterisk,
                params |-> <<>>, wildcard |-> <<>>, cands |-> {}]
  /\ Idle /\ UNCHANGED registry

BeginRecognize(r) ==
  /\ pc = "idle"
  /\ path' = r
  /\ pc' = "match" /\ cur' \in Roots(tree) /\ offset' = 0
  /\ result' = NoResult
  /\ UNCHANGED <<registry, captures>>

\* No root: NotMatched at once.
RecognizeNothing(r) ==
  /\ pc = "idle" /\ DOMAIN tree = {}
  /\ result' = [status |-> "not_matched", index |-> None, request |-> r,
                params |-> <<>>, wildcard |-> <<>>, cands |-> {}]
  /\ Idle /\ UNCHANGED registry

PartiallyMatched(ps) == Outcome("partial", None, ps, wildcard, tree[cur].cands)

\* The node's own leaf decides: `n.leaf.ok_or_else(PartiallyMatched)`.
LeafOrPartial(ps, w) ==
  IF tree[cur].leaf # None
  THEN Outcome("ok", tree[cur].leaf, ps, w, {})
  ELSE Outcome("partial", None, ps, w, tree[cur].cands)

\* The foot of the loop: the child for the byte at o.  A parameter child is
\* taken whether or not there is a byte.
Fits(o) ==
  {c \in Children(tree, cur) :
     LET tok == c[Len(cur) + 1] IN tok \in Wild \/ (o < Len(path) /\ tok = path[o + 1])}
Advance(o, ps) ==
  IF Fits(o) = {}
  THEN PartiallyMatched(ps)
  ELSE /\ cur' \in Fits(o)
       /\ offset' = o /\ params' = ps
       /\ UNCHANGED <<registry, pc, path, wildcard, result>>

Rest == SubSeq(path, offset + 1, Len(path))

\* Mutant: a request with no text left stops where it is.
MatchStaticEarly ==
  /\ pc = "match" /\ IsStatic(cur)
  /\ \E b \in 0..Len(cur) - 1 :
       LET s == SubSeq(cur, b + 1, Len(cur)) IN
       /\ LabelStart(tree, cur, b)
       /\ IF Len(s) < Len(Rest) /\ IsPrefix(s, Rest) THEN Advance(offset + Len(s), params)
          ELSE IF s = Rest THEN LeafOrPartial(params, wildcard)
          ELSE Outcome("not_matched", None, params, wildcard, {})

MatchStatic ==
  /\ pc = "match" /\ IsStatic(cur)
  /\ \E b \in 0..Len(cur) - 1 :
       LET s == SubSeq(cur, b + 1, Len(cur)) IN
       /\ LabelStart(tree, cur, b)
       /\ \/ Len(s) < Len(Rest) /\ IsPrefix(s, Rest) /\ Advance(offset + Len(s), params)
          \/ Len(s) > Len(Rest) /\ IsPrefix(Rest, s) /\ Advance(Len(path), params)
          \/ /\ s = Rest /\ tree[cur].leaf # None
             /\ Outcome("ok", tree[cur].leaf, params, wildcard, {})
          \/ s = Rest /\ tree[cur].leaf = None /\ Advance(Len(path), params)
          \/ /\ ~IsPrefix(s, Rest) /\ ~IsPrefix(Rest, s)
             /\ Outcome("not_matched", None, params, wildcard, {})

\* Mutant: a parameter takes the rest of the path, slashes and all.
MatchParamGreedy ==
  /\ pc = "match" /\ cur[Len(cur)] = ":"
  /\ LeafOrPartial(Append(params, <<offset, Len(path)>>), wildcard)

MatchParam ==
  /\ pc = "match" /\ cur[Len(cur)] = ":"
  /\ \E end \in offset..Len(path) :
       LET ps == Append(params, <<offset, end>>) IN
       /\ SlashFree(path, offset + 1, end)
       /\ end < Len(path) => path[end + 1] = Slash
       /\ IF end = Len(path) THEN LeafOrPartial(ps, wildcard) ELSE Advance(end, ps)

MatchCatchAll ==
  /\ pc = "match" /\ cur[Len(cur)] = "*"
  /\ LeafOrPartial(params, <<<<offset, Len(path)>>>>)

Recognize ==
  \/ RecognizeAsterisk
  \/ \E r \in Requests : BeginRecognize(r) \/ RecognizeNothing(r)
  \/ MatchStatic \/ MatchParam \/ MatchCatchAll

Init ==
  /\ inner = <<>> /\ tree = <<>> /\ asterisk = None
  /\ pc = "idle" /\ path = <<>> /\ cur = <<>> /\ offset = 0
  /\ params = <<>> /\ wildcard = <<>>
  /\ result = NoResult

Next == Insert \/ Recognize

Spec == Init /\ [][Next]_vars

-----------------------------------------------------------------------------
(* Properties. *)

Node == [cands : SUBSET Nat, leaf : Nat \cup {None}]
Span == Nat \X Nat

\* The fields of the recognizer and of an operation have their types, and an
\* operation that walks the tree stands on a node of it.
TypeOK ==
  /\ inner \in Seq(Seq(Token))
  /\ DOMAIN tree \subseteq Seq(Token) \ {<<>>}
  /\ tree \in [DOMAIN tree -> Node]
  /\ asterisk \in Nat \cup {None}
  /\ pc \in {"idle", "plant", "segment", "descend", "leaf", "match"}
  /\ path \in Seq(Token) /\ cur \in Seq(Token) /\ offset \in Nat
  /\ pc \in {"segment", "descend", "leaf", "match"} => cur \in DOMAIN tree
  /\ params \in Seq(Span) /\ wildcard \in Seq(Span)
  /\ result.status \in {"none", "ok", "partial", "not_matched"}

\* `self.get(index).expect("should be success")` (recognizer.rs:101) never
\* panics: whatever was inserted or refused before, in whatever order, a
\* successful search returns the index of a registered route.
LookupNeverPanics ==
  result.status = "ok" => result.index \in 0..Len(inner) - 1

\* The leaves and the registered routes are in bijection, and a leaf lies
\* where the text of its route leads, up to the kind of the parameters.  So
\* no route is lost by a split, overwritten, or left under a stale index when
\* an insertion fails between taking the index and registering the route.
LeafSpellsRoute ==
  /\ \A n \in DOMAIN tree : tree[n].leaf # None =>
       /\ tree[n].leaf < Len(inner)
       /\ SameShape(n, inner[tree[n].leaf + 1])
  /\ \A i \in 1..Len(inner) : inner[i] # Asterisk =>
       \E n \in DOMAIN tree : tree[n].leaf = i - 1
  /\ \A m, n \in DOMAIN tree : tree[m].leaf = tree[n].leaf /\ tree[m].leaf # None => m = n
  /\ asterisk # None => asterisk < Len(inner) /\ inner[asterisk + 1] = Asterisk

\* Where a walk stands: on a node whose text is, up to the kind of the
\* parameters, the part of the path behind it.  At "segment" the label of the
\* node begins at the offset and shares at least one token with the path.
OnTheWay ==
  /\ pc = "plant" => DOMAIN tree = {} /\ offset = 0
  /\ pc \in {"plant", "segment", "descend", "leaf"} => path # <<>> /\ path[1] = Slash
  /\ pc = "segment" =>
       /\ offset < Len(path) /\ offset < Len(cur)
       /\ SamePrefix(cur, path, offset)
       /\ cur[offset + 1] = path[offset + 1]
       /\ \A m \in DOMAIN tree : IsStrictPrefix(m, cur) => Len(m) <= offset
  /\ pc = "descend" => offset = Len(cur) /\ offset < Len(path) /\ SamePrefix(cur, path, offset)
  /\ pc = "leaf" => SameShape(cur, path)

\* A parameter is a node of its own in every text of the tree, and every text
\* begins with a slash.
ParametersAreNodes ==
  \A n \in DOMAIN tree :
    /\ n[1] = Slash
    /\ \A k \in 1..Len(n) : n[k] \in Wild => SubSeq(n, 1, k) \in DOMAIN tree

\* Two nodes of the tree never differ in the kind of a parameter alone: of two
\* siblings at most one can continue a given path, which is what lets both walks
\* take the first child that fits (226, 202, 376).
OneWayDown ==
  \A m, n \in DOMAIN tree : \A k \in 1..Len(m) :
    SamePrefix(m, n, k) => m[k] = n[k]
\* What a route is for: searching an instance of a registered route finds it.
\* A request that is not found is no instance of any route, and the routes it
\* could still be extended to are among the candidates of a partial match,
\* unless the search ran on into a parameter with no text left for it.  This
\* and SearchSound hold while every leaf lies at its route, kinds included: a
\* route is taken for one with parameters of the other kind when such a route
\* (insert accepts it where it ends or goes on), or the nodes a refused one has
\* left, stand in its way.
Routes == {i \in 1..Len(inner) : inner[i] # Asterisk}

RanOut ==
  /\ result.params # <<>>
  /\ Last(result.params) = <<Len(result.request), Len(result.request)>>

KindsKept == \A n \in DOMAIN tree : tree[n].leaf # None => n = inner[tree[n].leaf + 1]

SearchComplete ==
  result.status \notin {"none", "ok"} /\ KindsKept => \A i \in Routes :
    /\ ~Matches(inner[i], result.request)
    /\ Extendable(inner[i], result.request) /\ ~RanOut => i - 1 \in result.cands

\* What a search returns is right: the request is what the route spells with
\* the captured text in the place of its parameters, and each captured text
\* is one segment.  The doc of recognize (83): "returns a reference to
\* registered value of "T" if matched.  At the same time, this method returns
\* a sequence of pairs which indicates the range of substrings extracted".
CapturesFit(p) ==
  /\ Len(result.params) = Count(p, Len(p), ":")
  /\ Len(result.wildcard) = Count(p, Len(p), "*")
  /\ \A k \in 1..Len(result.params) :
       SlashFree(result.request, result.params[k][1] + 1, result.params[k][2])

Spelled(p) ==
  Fill(p, result.request, result.params,
       IF result.wildcard = <<>> THEN <<0, 0>> ELSE result.wildcard[1])

Found == result.status = "ok" /\ result.request # Asterisk
FoundRoute == inner[result.index + 1]

SearchExact ==
  Found => CapturesFit(FoundRoute) /\ Spelled(FoundRoute) = result.request

\* The part of it the code keeps: a request may also stop short inside the
\* static text before a last parameter, which then captures nothing (336).
SearchSound ==
  Found /\ KindsKept =>
    /\ CapturesFit(FoundRoute)
    /\ LET text == Spelled(FoundRoute)
           cut  == SubSeq(text, Len(result.request) + 1, Len(text))
       IN /\ IsPrefix(result.request, text)
          /\ cut # <<>> => FoundRoute[Len(FoundRoute)] \in Wild

\* A route stays registered under its index for good: an insertion that
\* comes later, accepted or refused, moves or removes none.
RoutesAreStable ==
  [][/\ IsPrefix(inner, inner')
     /\ \A n \in DOMAIN tree : tree[n].leaf # None =>
          n \in DOMAIN tree' /\ tree'[n].leaf = tree[n].leaf]_vars

=============================================================================
