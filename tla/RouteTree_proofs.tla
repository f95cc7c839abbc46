-------------------------- MODULE RouteTree_proofs --------------------------
(***************************************************************************)
(* Theorems about the route recognizer, for every set of routes and of     *)
(* requests.                                                               *)
(*                                                                         *)
(* IInv says that an insertion keeps leaves and routes in bijection; what  *)
(* was registered stays follows from it step by step.  SearchInv adds what *)
(* a search relies on: the tree branches where texts part (Radix), the     *)
(* nodes an insertion has passed know of it (Marked), the walk has read    *)
(* what its node spells and left behind no route that could match          *)
(* (Searching), and so the answer is right (Answered).                     *)
(***************************************************************************)
EXTENDS RouteTree, SequenceTheorems, FiniteSetTheorems, WellFoundedInduction, TLAPS

\* A strict prefix, read position by position.
LEMMA StrictPrefix ==
  ASSUME NEW m \in Seq(Token), NEW n \in Seq(Token)
  PROVE  IsStrictPrefix(m, n) <=> Len(m) < Len(n) /\ \A j \in 1..Len(m) : m[j] = n[j]
<1>1. \A k \in 0..Len(n) : /\ SubSeq(n, 1, k) \in Seq(Token)
                           /\ Len(SubSeq(n, 1, k)) = k
                           /\ \A j \in 1..k : SubSeq(n, 1, k)[j] = n[j]
  BY SubSeqProperties
<1>2. SubSeq(m, 1, Len(m)) = m
  BY SubSeqFull
<1>3. ASSUME IsStrictPrefix(m, n) PROVE Len(m) < Len(n) /\ \A j \in 1..Len(m) : m[j] = n[j]
  <2>1. Len(m) <= Len(n) /\ m = SubSeq(n, 1, Len(m)) /\ m # n
    BY <1>2, <1>3 DEF IsStrictPrefix, IsPrefix
  <2>2. \A j \in 1..Len(m) : m[j] = n[j]
    BY <1>1, <2>1
  <2>3. Len(m) # Len(n)
    BY <2>1, <2>2, SeqEqual
  <2> QED
    BY <2>1, <2>2, <2>3
<1>4. ASSUME Len(m) < Len(n), \A j \in 1..Len(m) : m[j] = n[j] PROVE IsStrictPrefix(m, n)
  <2>1. m = SubSeq(n, 1, Len(m))
    BY <1>1, <1>4, SeqEqual
  <2> QED
    BY <1>2, <1>4, <2>1 DEF IsStrictPrefix, IsPrefix
<1> QED
  BY <1>3, <1>4

\* The text of a node that insert_child hangs below n.
LEMMA NewText ==
  ASSUME NEW n \in Seq(Token), NEW p \in Seq(Token), NEW from \in 0..Len(p),
         NEW k \in from..Len(p), Len(n) = from
  PROVE  LET m == n \o SubSeq(p, from + 1, k) IN
         /\ m \in Seq(Token) /\ Len(m) = k
         /\ \A j \in 1..from : m[j] = n[j]
         /\ \A j \in from + 1..k : m[j] = p[j]
<1> DEFINE s == SubSeq(p, from + 1, k)
<1>0. from \in Nat /\ k \in Nat /\ Len(p) \in Nat
  BY LenProperties
<1>1. s \in Seq(Token) /\ Len(s) = k - from /\ \A j \in 1..k - from : s[j] = p[from + j]
  <2>1. /\ s \in Seq(Token)
        /\ Len(s) = IF from + 1 <= k THEN k - (from + 1) + 1 ELSE 0
        /\ \A j \in 1..k - (from + 1) + 1 : s[j] = p[from + 1 + j - 1]
    BY <1>0, SubSeqProperties
  <2> QED
    BY <1>0, <2>1
<1> HIDE DEF s
<1>2. n \o s \in Seq(Token) /\ Len(n \o s) = k
  <2>1. n \o s \in Seq(Token) /\ Len(n \o s) = Len(n) + Len(s)
    BY <1>1, ConcatProperties
  <2> QED
    BY <1>0, <1>1, <2>1
<1>3. \A j \in 1..from : (n \o s)[j] = n[j]
  BY <1>0, <1>1
<1>4. ASSUME NEW j \in from + 1..k PROVE (n \o s)[j] = p[j]
  <2>1. (n \o s)[j] = s[j - from]
    BY <1>0, <1>1
  <2> QED
    BY <1>0, <1>1, <2>1
<1> QED
  BY <1>2, <1>3, <1>4 DEF s

-----------------------------------------------------------------------------
(* What the operations do to the tree. *)

IsTree(t) == DOMAIN t \subseteq Seq(Token) \ {<<>>} /\ t \in [DOMAIN t -> Node]

\* Two trees with the same nodes and the same leaves.
SameLeaves(t, u) == DOMAIN u = DOMAIN t /\ \A n \in DOMAIN t : u[n].leaf = t[n].leaf

\* `self.inner.len()` is a natural number.
LEMMA IndexIsNat == TypeOK => index \in Nat
BY LenProperties DEF TypeOK, index

\* Adding a candidate to a node changes no leaf and no text.
LEMMA AddCandidateKeepsLeaves ==
  ASSUME NEW t, IsTree(t), NEW n \in DOMAIN t, NEW i \in Nat
  PROVE  IsTree(AddCandidate(t, n, i)) /\ SameLeaves(t, AddCandidate(t, n, i))
BY DEF IsTree, SameLeaves, AddCandidate, Node

\* set_leaf (245-252) keeps the tree well typed.
LEMMA SetLeafType ==
  ASSUME NEW t, IsTree(t), NEW n \in DOMAIN t, NEW i \in Nat
  PROVE  LET u == [t EXCEPT ![n].leaf = i] IN
         /\ IsTree(u) /\ DOMAIN u = DOMAIN t /\ u[n].leaf = i
         /\ \A m \in DOMAIN t \ {n} : u[m] = t[m]
BY DEF IsTree, Node

\* Nothing of the tree leads on from n the way the path does.
OpenEnd(n, from) ==
  \A d \in DOMAIN tree : SamePrefix(d, n, from) /\ Len(d) > from =>
    Shape(d[from + 1]) # Shape(path[from + 1])

\* m is n continued along the path up to k.
Continues(m, n, from, k) ==
  /\ m \in Seq(Token) /\ Len(m) = k
  /\ \A j \in 1..from : m[j] = n[j]
  /\ \A j \in from + 1..k : m[j] = path[j]

\* Of two texts that continue n along the path the shorter begins the longer.
LEMMA ContinuesPart ==
  ASSUME NEW m, NEW g, NEW n, NEW from \in Nat, NEW b \in Nat, NEW k \in 1..b,
         Continues(m, n, from, b), Continues(g, n, from, k), k > from
  PROVE  g = SubSeq(m, 1, k)
<1>1. \A j \in 1..k : g[j] = m[j]
  <2> SUFFICES ASSUME NEW j \in 1..k PROVE g[j] = m[j]
    OBVIOUS
  <2>1. CASE j <= from
    BY <2>1 DEF Continues
  <2>2. CASE j > from
    BY <2>2 DEF Continues
  <2> QED
    BY <2>1, <2>2
<1>2. /\ SubSeq(m, 1, k) \in Seq(Token) /\ Len(SubSeq(m, 1, k)) = k
      /\ \A j \in 1..k : SubSeq(m, 1, k)[j] = m[j]
  BY SubSeqProperties DEF Continues
<1> QED
  BY <1>1, <1>2, SeqEqual DEF Continues

\* Grow keeps the nodes there are and adds the texts that end at a cut, with
\* the leaf on the one that spells the whole path.
LEMMA GrowNodes ==
  ASSUME TypeOK, NEW n \in Seq(Token), NEW from \in Nat, Len(n) = from, from < Len(path),
         OpenEnd(n, from)
  PROVE  LET t == Grow(tree, n, from) IN
         /\ IsTree(t)
         /\ DOMAIN tree \subseteq DOMAIN t
         /\ \A m \in DOMAIN tree : t[m] = tree[m]
         /\ \A m \in DOMAIN t \ DOMAIN tree :
              /\ \E k \in Cuts(path, from) : Continues(m, n, from, k)
              /\ t[m].leaf = IF Len(m) = Len(path) THEN index ELSE None
         /\ \A k \in Cuts(path, from) :
              /\ n \o SubSeq(path, from + 1, k) \in DOMAIN t \ DOMAIN tree
              /\ Continues(n \o SubSeq(path, from + 1, k), n, from, k)
<1> DEFINE text(k) == n \o SubSeq(path, from + 1, k)
           new == {text(k) : k \in Cuts(path, from)}
           t == Grow(tree, n, from)
<1>1. Len(path) \in Nat /\ path \in Seq(Token) /\ index \in Nat
  BY IndexIsNat, LenProperties DEF TypeOK
<1>2. Cuts(path, from) \subseteq from + 1..Len(path)
  BY DEF Cuts
<1>3. \A k \in from..Len(path) : Continues(text(k), n, from, k)
  BY <1>1, NewText DEF Continues
<1>6. t = [m \in DOMAIN tree \cup new |->
             IF m \notin new THEN tree[m]
             ELSE IF m = text(Len(path)) THEN [NewNode(index) EXCEPT !.leaf = index]
             ELSE NewNode(index)]
  BY DEF Grow
<1> HIDE DEF t, text
<1>4. ASSUME NEW k \in Cuts(path, from) PROVE text(k) \notin DOMAIN tree
  <2>1. Continues(text(k), n, from, k) /\ k \in from + 1..Len(path)
    BY <1>1, <1>2, <1>3
  <2>2. SamePrefix(text(k), n, from) /\ Len(text(k)) > from
    BY <1>1, <2>1 DEF Continues, SamePrefix
  <2>3. text(k)[from + 1] = path[from + 1]
    BY <1>1, <2>1 DEF Continues
  <2> QED
    BY <2>1, <2>2, <2>3 DEF OpenEnd
<1>5. \A k \in Cuts(path, from) : text(k) # <<>> /\ text(k) \in Seq(Token)
  <2>1. \A k \in Cuts(path, from) : Len(text(k)) = k /\ k > 0 /\ text(k) \in Seq(Token)
    BY <1>1, <1>2, <1>3 DEF Continues
  <2> QED
    BY <2>1, EmptySeq
<1>7. /\ [NewNode(index) EXCEPT !.leaf = index] \in Node
      /\ [NewNode(index) EXCEPT !.leaf = index].leaf = index
      /\ NewNode(index) \in Node /\ NewNode(index).leaf = None
  BY <1>1 DEF NewNode, Node
<1>8. Len(text(Len(path))) = Len(path)
  BY <1>1, <1>3 DEF Continues
<1>9. \A m \in new : m \notin DOMAIN tree /\ m # <<>> /\ m \in Seq(Token)
  BY <1>4, <1>5
<1>10. ASSUME NEW m \in new PROVE Len(m) = Len(path) <=> m = text(Len(path))
  <2>1. PICK k \in Cuts(path, from) : m = text(k)
    OBVIOUS
  <2>2. Len(m) = k
    BY <1>1, <1>2, <1>3, <2>1 DEF Continues
  <2> QED
    BY <1>8, <2>1, <2>2
<1>11. DOMAIN t = DOMAIN tree \cup new
  BY <1>6
<1>12. \A m \in DOMAIN tree : t[m] = tree[m]
  BY <1>6, <1>9
<1>13. \A m \in new : t[m] \in Node /\ t[m].leaf = IF Len(m) = Len(path) THEN index ELSE None
  BY <1>6, <1>7, <1>10
<1>14. IsTree(t)
  <2>1. \A m \in DOMAIN t : t[m] \in Node
    BY <1>11, <1>12, <1>13 DEF TypeOK
  <2>2. t = [m \in DOMAIN t |-> t[m]]
    BY <1>6
  <2> QED
    BY <1>9, <1>11, <2>1, <2>2 DEF IsTree, TypeOK
<1>15. \A m \in DOMAIN t \ DOMAIN tree : \E k \in Cuts(path, from) : Continues(m, n, from, k)
  BY <1>1, <1>2, <1>3, <1>11
<1>16. \A k \in Cuts(path, from) : text(k) \in DOMAIN t \ DOMAIN tree
  BY <1>9, <1>11
<1>17. \A k \in Cuts(path, from) : Continues(text(k), n, from, k)
  BY <1>1, <1>2, <1>3
<1>18. \A m \in DOMAIN t \ DOMAIN tree : t[m].leaf = IF Len(m) = Len(path) THEN index ELSE None
  BY <1>11, <1>13
<1>19. DOMAIN tree \subseteq DOMAIN t
  BY <1>11
<1> QED
  BY <1>12, <1>14, <1>15, <1>16, <1>17, <1>18, <1>19 DEF t, text

-----------------------------------------------------------------------------
(* The invariant, and what keeps it. *)

TreeInv == LeafSpellsRoute /\ OneWayDown /\ ParametersAreNodes

IInv == TypeOK /\ TreeInv /\ OnTheWay /\ LookupNeverPanics

\* Two texts of the tree that agree up to k, kinds aside, agree in kinds too.
LEMMA SamePrefixSame ==
  ASSUME OneWayDown, TypeOK, NEW m \in DOMAIN tree, NEW n \in DOMAIN tree, NEW k \in Nat,
         SamePrefix(m, n, k)
  PROVE  \A j \in 1..k : m[j] = n[j]
<1> TAKE j \in 1..k
<1>1. Len(m) \in Nat /\ Len(n) \in Nat
  BY LenProperties DEF TypeOK
<1>2. SamePrefix(m, n, j) /\ j \in 1..Len(m)
  BY <1>1 DEF SamePrefix
<1> QED
  BY <1>2 DEF OneWayDown

\* Where a walk ends on a node that has no child for the rest of the path,
\* the path leads nowhere in the tree.
LEMMA OpenAtLeaf ==
  ASSUME TypeOK, OneWayDown, cur \in DOMAIN tree, offset = Len(cur), offset < Len(path),
         \/ Below(tree, cur) = {}
         \/ NextToken \notin Wild /\ FirstTokens(tree, cur) \cap (Wild \cup {NextToken}) = {}
  PROVE  OpenEnd(cur, offset)
<1> SUFFICES ASSUME NEW d \in DOMAIN tree, SamePrefix(d, cur, offset), Len(d) > offset,
                    Shape(d[offset + 1]) = Shape(path[offset + 1])
             PROVE  FALSE
  BY DEF OpenEnd
<1>1. d \in Seq(Token) /\ cur \in Seq(Token) /\ Len(d) \in Nat /\ offset \in Nat
  BY LenProperties DEF TypeOK
<1>2. \A j \in 1..offset : d[j] = cur[j]
  BY <1>1, SamePrefixSame
<1>3. d \in Below(tree, cur)
  BY <1>1, <1>2, StrictPrefix DEF Below
<1>4. d[offset + 1] \in FirstTokens(tree, cur)
  BY <1>3 DEF FirstTokens
<1>5. d[offset + 1] \notin Wild /\ d[offset + 1] # path[offset + 1] /\ path[offset + 1] \notin Wild
  BY <1>3, <1>4 DEF NextToken
<1> QED
  BY <1>5 DEF Shape

\* A path that leads nowhere is not registered.
LEMMA OpenEndIsFresh ==
  ASSUME TypeOK, LeafSpellsRoute, NEW n \in Seq(Token), NEW from \in Nat, Len(n) = from,
         from < Len(path), path[1] = Slash, SamePrefix(n, path, from), OpenEnd(n, from)
  PROVE  path \notin ToSet(inner)
<1> SUFFICES ASSUME NEW i \in 1..Len(inner), inner[i] = path PROVE FALSE
  BY LenProperties DEF ToSet, TypeOK
<1>1. path # Asterisk
  BY DEF Asterisk, Slash
<1>2. PICK d \in DOMAIN tree : tree[d].leaf = i - 1
  BY <1>1 DEF LeafSpellsRoute
<1>3. Len(inner) \in Nat /\ i \in Nat /\ i - 1 # None /\ i - 1 + 1 = i
  BY LenProperties DEF TypeOK, None
<1>4. SameShape(d, path)
  BY <1>2, <1>3 DEF LeafSpellsRoute
<1>5. Len(path) \in Nat /\ Len(d) = Len(path) /\ \A j \in 1..Len(path) : Shape(d[j]) = Shape(path[j])
  BY <1>4, LenProperties DEF TypeOK, SameShape, SamePrefix
<1>6. SamePrefix(d, n, from)
  BY <1>5 DEF SamePrefix
<1> QED
  BY <1>5, <1>6 DEF OpenEnd

\* A step that neither adds a node nor moves a leaf.
LEMMA QuietStep ==
  ASSUME TypeOK, TreeInv, SameLeaves(tree, tree'), UNCHANGED <<inner, asterisk>>
  PROVE  TreeInv'
<1> USE DEF SameLeaves
<1>1. LeafSpellsRoute'
  BY DEF TreeInv, LeafSpellsRoute
<1>2. OneWayDown'
  BY DEF TreeInv, OneWayDown
<1>3. ParametersAreNodes'
  BY DEF TreeInv, ParametersAreNodes
<1> QED
  BY <1>1, <1>2, <1>3 DEF TreeInv

\* A route becomes registered in the step that puts its index on the node it
\* spells.
LEMMA RegisterRoute ==
  ASSUME TypeOK, LeafSpellsRoute, path \notin ToSet(inner), path # Asterisk, Register(path),
         DOMAIN tree \subseteq DOMAIN tree',
         NEW end \in DOMAIN tree', tree'[end].leaf = index, SameShape(end, path),
         end \in DOMAIN tree => tree[end].leaf = None,
         \A m \in DOMAIN tree' \ {end} :
           tree'[m].leaf = IF m \in DOMAIN tree THEN tree[m].leaf ELSE None
  PROVE  LeafSpellsRoute'
<1>1. inner' = Append(inner, path) /\ asterisk' = asterisk
  BY DEF Register
<1>2. /\ Len(inner) \in Nat
      /\ Len(inner') = Len(inner) + 1
      /\ \A i \in 1..Len(inner) : inner'[i] = inner[i]
      /\ inner'[Len(inner) + 1] = path
  BY <1>1, AppendProperties, LenProperties DEF TypeOK
<1>3. \A m \in DOMAIN tree : tree[m].leaf \in Nat \cup {None}
  BY DEF TypeOK, Node
<1>4. \A m \in DOMAIN tree : tree[m].leaf # None =>
        tree[m].leaf < Len(inner) /\ SameShape(m, inner[tree[m].leaf + 1])
  BY DEF LeafSpellsRoute
<1>5. ASSUME NEW m \in DOMAIN tree', tree'[m].leaf # None
      PROVE  tree'[m].leaf < Len(inner') /\ SameShape(m, inner'[tree'[m].leaf + 1])
  <2>1. CASE m = end
    BY <1>2, <2>1 DEF index
  <2>2. CASE m # end
    <3>1. m \in DOMAIN tree /\ tree'[m].leaf = tree[m].leaf
      BY <1>5, <2>2
    <3>2. tree[m].leaf \in Nat /\ tree[m].leaf < Len(inner)
      BY <1>3, <1>4, <1>5, <3>1
    <3>3. inner'[tree[m].leaf + 1] = inner[tree[m].leaf + 1]
      BY <1>2, <3>2
    <3> QED
      BY <1>2, <1>4, <1>5, <3>1, <3>2, <3>3
  <2> QED
    BY <2>1, <2>2
<1>6. ASSUME NEW i \in 1..Len(inner'), inner'[i] # Asterisk
      PROVE  \E n \in DOMAIN tree' : tree'[n].leaf = i - 1
  <2>1. CASE i = Len(inner) + 1
    BY <1>2, <2>1 DEF index
  <2>2. CASE i # Len(inner) + 1
    <3>1. i \in 1..Len(inner) /\ inner[i] # Asterisk /\ i - 1 # None
      BY <1>2, <1>6, <2>2 DEF None
    <3>2. PICK n \in DOMAIN tree : tree[n].leaf = i - 1
      BY <3>1 DEF LeafSpellsRoute
    <3>3. n # end
      BY <3>1, <3>2
    <3> QED
      BY <3>2, <3>3
  <2> QED
    BY <2>1, <2>2
<1>7. ASSUME NEW m \in DOMAIN tree', NEW n \in DOMAIN tree',
             tree'[m].leaf = tree'[n].leaf, tree'[m].leaf # None
      PROVE  m = n
  <2>1. \A d \in DOMAIN tree' \ {end} : tree'[d].leaf # None =>
          d \in DOMAIN tree /\ tree'[d].leaf = tree[d].leaf /\ tree[d].leaf < Len(inner)
    BY <1>4
  <2>2. index = Len(inner)
    BY DEF index
  <2>3. CASE m = end \/ n = end
    BY <1>2, <1>7, <2>1, <2>2, <2>3
  <2>4. CASE m # end /\ n # end
    BY <1>7, <2>1, <2>4 DEF LeafSpellsRoute
  <2> QED
    BY <2>3, <2>4
<1>8. asterisk' # None => asterisk' < Len(inner') /\ inner'[asterisk' + 1] = Asterisk
  <2>1. asterisk # None => asterisk \in Nat /\ asterisk < Len(inner) /\ inner[asterisk + 1] = Asterisk
    BY DEF TypeOK, LeafSpellsRoute
  <2> QED
    BY <1>1, <1>2, <2>1
<1> QED
  BY <1>5, <1>6, <1>7, <1>8 DEF LeafSpellsRoute

-----------------------------------------------------------------------------
(* insert_child. *)

\* What Grow returns, with the candidate that AddStatic adds to it or without,
\* is the tree of the next state.
GrowsTo(n, from) ==
  /\ DOMAIN tree' = DOMAIN Grow(tree, n, from)
  /\ \A m \in DOMAIN tree' : tree'[m].leaf = Grow(tree, n, from)[m].leaf

\* The conditions under which the code calls it.
GrowsAt(n, from) ==
  /\ n \in Seq(Token) /\ from \in Nat /\ Len(n) = from /\ from < Len(path)
  /\ n \in DOMAIN tree \/ from = 0
  /\ path # <<>> /\ path[1] = Slash
  /\ SamePrefix(n, path, from) /\ OpenEnd(n, from)

\* insert_child adds nodes whose parameters agree with the nodes there.
LEMMA GrowOneWay ==
  ASSUME TypeOK, OneWayDown, NEW n, NEW from, GrowsAt(n, from), GrowsTo(n, from)
  PROVE  OneWayDown'
<1> USE DEF GrowsAt, GrowsTo
<1>1. Len(path) \in Nat /\ Cuts(path, from) \subseteq from + 1..Len(path)
  BY LenProperties DEF Cuts, TypeOK
<1>2. \A m \in DOMAIN tree' : m \in Seq(Token) /\ Len(m) \in Nat
  BY GrowNodes, LenProperties DEF IsTree
<1>3. \A m \in DOMAIN tree' \ DOMAIN tree :
        \E k \in from + 1..Len(path) : Continues(m, n, from, k)
  BY <1>1, GrowNodes
<1> SUFFICES ASSUME NEW d \in DOMAIN tree', NEW m \in DOMAIN tree', NEW k \in 1..Len(d),
                    SamePrefix(d, m, k)
             PROVE  d[k] = m[k]
  BY DEF OneWayDown
<1>4. CASE d \in DOMAIN tree /\ m \in DOMAIN tree
  BY <1>4 DEF OneWayDown
<1>5. CASE d \notin DOMAIN tree /\ m \notin DOMAIN tree
  <2>1. PICK a \in from + 1..Len(path) : Continues(d, n, from, a)
    BY <1>3, <1>5
  <2>2. PICK b \in from + 1..Len(path) : Continues(m, n, from, b)
    BY <1>3, <1>5
  <2>3. k \in 1..a /\ k \in 1..b /\ k \in Nat
    BY <2>1, <2>2 DEF Continues, SamePrefix
  <2>4. CASE k <= from
    BY <2>1, <2>2, <2>3, <2>4 DEF Continues
  <2>5. CASE k > from
    BY <2>1, <2>2, <2>3, <2>5 DEF Continues
  <2> QED
    BY <2>3, <2>4, <2>5
\* One old node and one new: they part where the new text leaves the tree.
<1>6. ASSUME NEW x \in DOMAIN tree, NEW y \in DOMAIN tree' \ DOMAIN tree,
             SamePrefix(x, y, k)
      PROVE  x[k] = y[k]
  <2>1. PICK b \in from + 1..Len(path) : Continues(y, n, from, b)
    BY <1>3
  <2>2. x \in Seq(Token) /\ Len(x) \in Nat /\ k \in Nat /\ k <= Len(x) /\ k <= b /\ Len(y) = b
    BY <1>2, <1>6, <2>1, LenProperties DEF Continues, SamePrefix, TypeOK
  <2>3. \A j \in 1..k : Shape(x[j]) = Shape(y[j])
    BY <1>6 DEF SamePrefix
  <2>4. CASE k <= from
    <3>1. n \in DOMAIN tree /\ y[k] = n[k]
      BY <2>1, <2>2, <2>4 DEF Continues
    <3>2. SamePrefix(x, n, k)
      BY <2>1, <2>2, <2>3, <2>4 DEF Continues, SamePrefix
    <3> QED
      BY <2>2, <3>1, <3>2, SamePrefixSame
  <2>5. CASE k > from
    <3>1. SamePrefix(x, n, from) /\ Len(x) > from
      <4>1. from \in Nat /\ Len(n) = from /\ from < Len(x) /\ 1..from \subseteq 1..k
        BY <2>2, <2>5
      <4>2. \A j \in 1..from : y[j] = n[j]
        BY <2>1 DEF Continues
      <4>3. \A j \in 1..from : Shape(x[j]) = Shape(n[j])
        BY <2>3, <4>1, <4>2
      <4> QED
        BY <4>1, <4>3 DEF SamePrefix
    <3>2. y[from + 1] = path[from + 1] /\ from + 1 \in 1..k
      BY <2>1, <2>2, <2>5 DEF Continues
    <3>3. Shape(x[from + 1]) # Shape(path[from + 1])
      BY <3>1 DEF OpenEnd
    <3> QED
      BY <2>3, <3>2, <3>3
  <2> QED
    BY <2>2, <2>4, <2>5
<1>7. SamePrefix(m, d, k)
  BY <1>2 DEF SamePrefix
<1> QED
  BY <1>4, <1>5, <1>6, <1>7

\* The nodes insert_child adds end at their parameters.
LEMMA GrowParameters ==
  ASSUME TypeOK, ParametersAreNodes, NEW n, NEW from, GrowsAt(n, from), GrowsTo(n, from)
  PROVE  ParametersAreNodes'
<1> USE DEF GrowsAt, GrowsTo
<1>1. Len(path) \in Nat /\ Cuts(path, from) \subseteq from + 1..Len(path)
  BY LenProperties DEF Cuts, TypeOK
<1>2. DOMAIN tree \subseteq DOMAIN tree'
  BY GrowNodes
<1> SUFFICES ASSUME NEW m \in DOMAIN tree'
             PROVE  /\ m[1] = Slash
                    /\ \A k \in 1..Len(m) : m[k] \in Wild => SubSeq(m, 1, k) \in DOMAIN tree'
  BY DEF ParametersAreNodes
<1>3. CASE m \in DOMAIN tree
  BY <1>2, <1>3 DEF ParametersAreNodes
<1>4. CASE m \notin DOMAIN tree
  <2>1. PICK b \in Cuts(path, from) : Continues(m, n, from, b)
    BY <1>4, GrowNodes
  <2>2. b \in from + 1..Len(path) /\ Len(m) = b /\ m \in Seq(Token)
    BY <1>1, <2>1 DEF Continues
  <2>3. m[1] = Slash
    <3>1. CASE from = 0
      BY <2>1, <2>2, <3>1 DEF Continues
    <3>2. CASE from # 0
      BY <2>1, <2>2, <3>2 DEF Continues, ParametersAreNodes
    <3> QED
      BY <3>1, <3>2
  <2>4. ASSUME NEW k \in 1..Len(m), m[k] \in Wild
        PROVE  SubSeq(m, 1, k) \in DOMAIN tree'
    <3>1. /\ k \in 1..b /\ SubSeq(m, 1, k) \in Seq(Token)
          /\ Len(SubSeq(m, 1, k)) = k /\ \A j \in 1..k : SubSeq(m, 1, k)[j] = m[j]
      BY <1>1, <2>2, SubSeqProperties
    <3>2. CASE k <= from
      <4>1. /\ SubSeq(n, 1, k) \in Seq(Token) /\ Len(SubSeq(n, 1, k)) = k
            /\ \A j \in 1..k : SubSeq(n, 1, k)[j] = n[j]
        BY <3>2, SubSeqProperties
      <4>2. SubSeq(m, 1, k) = SubSeq(n, 1, k)
        BY <2>1, <3>1, <3>2, <4>1, SeqEqual DEF Continues
      <4>3. n \in DOMAIN tree /\ n[k] \in Wild /\ k \in 1..Len(n)
        BY <2>1, <2>4, <3>1, <3>2 DEF Continues
      <4> QED
        BY <1>2, <4>2, <4>3 DEF ParametersAreNodes
    <3>3. CASE k > from
      <4>1. path[k] \in Wild
        <5>1. k \in from + 1..b
          BY <1>1, <2>2, <3>1, <3>3
        <5> QED
          BY <2>1, <2>4, <5>1 DEF Continues
      <4>2. k \in Cuts(path, from)
        <5>1. \A w \in BadWild(path, from) : w \in Nat /\ b < w
          BY <1>1 DEF Cuts, BadWild
        <5>2. k \in from + 1..Len(path) /\ \A w \in BadWild(path, from) : k < w
          BY <1>1, <2>2, <3>1, <3>3, <5>1
        <5> QED
          BY <4>1, <5>2 DEF Cuts
      <4>3. /\ n \o SubSeq(path, from + 1, k) \in DOMAIN tree'
            /\ Continues(n \o SubSeq(path, from + 1, k), n, from, k)
        BY <4>2, GrowNodes
      <4>4. n \o SubSeq(path, from + 1, k) = SubSeq(m, 1, k)
        <5>1. from \in Nat /\ b \in Nat /\ k \in 1..b
          BY <1>1, <2>2, <3>1
        <5> DEFINE g == n \o SubSeq(path, from + 1, k)
        <5>2. Continues(g, n, from, k) /\ Continues(m, n, from, b) /\ k > from
          BY <2>1, <3>3, <4>3
        <5> HIDE DEF g
        <5>3. g = SubSeq(m, 1, k)
          BY <5>1, <5>2, ContinuesPart
        <5> QED
          BY <5>3 DEF g
      <4> QED
        BY <4>3, <4>4
    <3> QED
      BY <3>1, <3>2, <3>3
  <2> QED
    BY <2>3, <2>4
<1> QED
  BY <1>3, <1>4

\* insert_child registers the route exactly when it put its leaf.
LEMMA GrowLeaves ==
  ASSUME TypeOK, LeafSpellsRoute, NEW n, NEW from, GrowsAt(n, from), GrowsTo(n, from),
         IF BadWild(path, from) = {} THEN Register(path) ELSE Fail
  PROVE  LeafSpellsRoute'
<1> USE DEF GrowsAt, GrowsTo
<1>1. /\ Len(path) \in Nat
      /\ DOMAIN tree \subseteq DOMAIN tree'
      /\ \A m \in DOMAIN tree : tree'[m].leaf = tree[m].leaf
      /\ \A m \in DOMAIN tree' \ DOMAIN tree :
           /\ tree'[m].leaf = IF Len(m) = Len(path) THEN index ELSE None
           /\ \E k \in Cuts(path, from) : Continues(m, n, from, k)
  BY GrowNodes, LenProperties, SMTT(20) DEF TypeOK
<1>2. CASE BadWild(path, from) = {}
  <2> DEFINE end == n \o SubSeq(path, from + 1, Len(path))
  <2>1. Len(path) \in Cuts(path, from)
    BY <1>1, <1>2 DEF Cuts
  <2>2. end \in DOMAIN tree' /\ end \notin DOMAIN tree /\ Continues(end, n, from, Len(path))
    <3>1. \A k \in Cuts(path, from) :
            /\ n \o SubSeq(path, from + 1, k) \in DOMAIN tree' \ DOMAIN tree
            /\ Continues(n \o SubSeq(path, from + 1, k), n, from, k)
      BY GrowNodes
    <3> QED
      BY <2>1, <3>1
  <2> HIDE DEF end
  <2>3. SameShape(end, path)
    BY <1>1, <2>2 DEF Continues, SamePrefix, SameShape
  <2>4. tree'[end].leaf = index
    BY <1>1, <2>2 DEF Continues
  <2>5. ASSUME NEW m \in DOMAIN tree' \ {end}
        PROVE  tree'[m].leaf = IF m \in DOMAIN tree THEN tree[m].leaf ELSE None
    <3>1. CASE m \in DOMAIN tree
      BY <1>1, <3>1
    <3>2. CASE m \notin DOMAIN tree
      <4>1. PICK k \in Cuts(path, from) : Continues(m, n, from, k)
        BY <1>1, <3>2
      <4>2. k # Len(path)
        <5>1. SUFFICES ASSUME k = Len(path) PROVE m = end
          OBVIOUS
        <5>2. \A j \in 1..Len(m) : m[j] = end[j]
          BY <1>1, <2>2, <4>1, <5>1 DEF Continues
        <5> QED
          BY <1>1, <2>2, <4>1, <5>1, <5>2, SeqEqual DEF Continues
      <4> QED
        BY <1>1, <3>2, <4>1, <4>2 DEF Continues
    <3> QED
      BY <3>1, <3>2
  <2>6. path \notin ToSet(inner) /\ path # Asterisk
    BY OpenEndIsFresh DEF Asterisk, Slash
  <2> QED
    BY <1>1, <1>2, <2>2, <2>3, <2>4, <2>5, <2>6, RegisterRoute
<1>3. CASE BadWild(path, from) # {}
  <2>1. UNCHANGED <<inner, asterisk>>
    BY <1>3 DEF Fail
  <2>2. ASSUME NEW m \in DOMAIN tree' \ DOMAIN tree PROVE tree'[m].leaf = None
    <3>1. PICK k \in Cuts(path, from) : Continues(m, n, from, k)
      BY <1>1
    <3>2. k # Len(path)
      <4>1. PICK w \in BadWild(path, from) : k < w
        BY <1>3 DEF Cuts
      <4>2. w \in from + 1..Len(path) /\ k \in from + 1..Len(path)
        BY DEF BadWild, Cuts
      <4> QED
        BY <1>1, <4>1, <4>2
    <3> QED
      BY <1>1, <3>1, <3>2 DEF Continues
  <2> QED
    BY <1>1, <2>1, <2>2 DEF LeafSpellsRoute
<1> QED
  BY <1>2, <1>3

\* Together: insert_child keeps the tree part of the invariant.
LEMMA GrowKeepsTreeInv ==
  ASSUME TypeOK, TreeInv, NEW n, NEW from, GrowsAt(n, from), GrowsTo(n, from),
         IF BadWild(path, from) = {} THEN Register(path) ELSE Fail
  PROVE  TreeInv'
BY GrowOneWay, GrowParameters, GrowLeaves DEF TreeInv

-----------------------------------------------------------------------------
(* The other steps of an insertion. *)

\* An insertion ends: the route is registered or refused.
LEMMA EndOfInsert ==
  ASSUME IInv, IsTree(tree'), TreeInv', Register(path) \/ Fail
  PROVE  IInv'
<1>1. Len(inner) \in Nat /\ inner \in Seq(Seq(Token)) /\ path \in Seq(Token)
  BY LenProperties DEF IInv, TypeOK
<1>2. inner' \in Seq(Seq(Token)) /\ Len(inner') \in Nat /\ Len(inner) <= Len(inner')
  <2>1. CASE inner' = inner
    BY <1>1, <2>1
  <2>2. CASE inner' = Append(inner, path)
    BY <1>1, <2>2, AppendProperties
  <2> QED
    BY <2>1, <2>2 DEF Register, Fail
<1>3. UNCHANGED <<asterisk, result>> /\ Idle
  BY DEF Register, Fail
<1>4. TypeOK'
  BY <1>2, <1>3, EmptySeq DEF IInv, TypeOK, Idle, IsTree
<1>5. OnTheWay'
  BY <1>3 DEF Idle, OnTheWay
<1>6. LookupNeverPanics'
  BY <1>1, <1>2, <1>3 DEF IInv, LookupNeverPanics
<1> QED
  BY <1>4, <1>5, <1>6 DEF IInv

\* visit_tree on an empty tree (304-310): the path hangs below the empty text,
LEMMA PlantGrows ==
  ASSUME IInv, Plant
  PROVE  GrowsAt(<<>>, 0)
<1>1. path \in Seq(Token) /\ Len(path) \in Nat /\ path # <<>> /\ path[1] = Slash /\ DOMAIN tree = {}
  BY LenProperties DEF IInv, TypeOK, OnTheWay, Plant
<1>2. Len(path) > 0
  BY <1>1, EmptySeq
<1>3. <<>> \in Seq(Token) /\ Len(<<>>) = 0
  BY EmptySeq
<1> QED
  BY <1>1, <1>2, <1>3 DEF GrowsAt, SamePrefix, OpenEnd

\* and keeps the invariant.
LEMMA PlantStep == IInv /\ Plant => IInv'
<1> SUFFICES ASSUME IInv, Plant PROVE IInv'
  OBVIOUS
<1>1. GrowsAt(<<>>, 0)
  BY PlantGrows
<1>2. IsTree(tree') /\ GrowsTo(<<>>, 0)
  BY <1>1, GrowNodes DEF Plant, IInv, GrowsAt, GrowsTo
<1>3. TreeInv'
  BY <1>1, <1>2, GrowKeepsTreeInv DEF Plant, IInv
<1> QED
  BY <1>2, <1>3, EndOfInsert DEF Plant

\* Where a walk finds no child to follow, the rest of the path fits below its node.
LEMMA GrowsAtCur ==
  ASSUME IInv, pc = "descend",
         \/ Below(tree, cur) = {}
         \/ NextToken \notin Wild /\ FirstTokens(tree, cur) \cap (Wild \cup {NextToken}) = {}
  PROVE  GrowsAt(cur, offset) /\ cur \in DOMAIN tree
<1>1. cur \in DOMAIN tree /\ cur \in Seq(Token) /\ offset \in Nat
  BY DEF IInv, TypeOK
<1>2. /\ offset = Len(cur) /\ offset < Len(path) /\ SamePrefix(cur, path, offset)
      /\ path # <<>> /\ path[1] = Slash
  BY DEF IInv, OnTheWay
<1>3. OpenEnd(cur, offset)
  BY <1>1, <1>2, OpenAtLeaf DEF IInv, TreeInv
<1> QED
  BY <1>1, <1>2, <1>3 DEF GrowsAt

\* A parameter below a childless node (186-189) keeps the invariant.
LEMMA AddWildcardStep == IInv /\ AddWildcard => IInv'
<1> SUFFICES ASSUME IInv, AddWildcard PROVE IInv'
  OBVIOUS
<1>1. GrowsAt(cur, offset)
  BY GrowsAtCur DEF AddWildcard
<1>2. IsTree(tree') /\ GrowsTo(cur, offset)
  BY <1>1, GrowNodes DEF AddWildcard, IInv, GrowsAt, GrowsTo
<1>3. TreeInv'
  BY <1>1, <1>2, GrowKeepsTreeInv DEF AddWildcard, IInv
<1> QED
  BY <1>2, <1>3, EndOfInsert DEF AddWildcard

\* A refused insertion that left the tree alone keeps the invariant.
LEMMA RefuseStep == IInv /\ Fail /\ UNCHANGED tree => IInv'
<1> SUFFICES ASSUME IInv, Fail, UNCHANGED tree PROVE IInv'
  OBVIOUS
<1>1. IsTree(tree') /\ SameLeaves(tree, tree')
  BY DEF IInv, TypeOK, IsTree, SameLeaves
<1>2. TreeInv'
  BY <1>1, QuietStep DEF IInv, Fail
<1> QED
  BY <1>1, <1>2, EndOfInsert

\* A new static child (232-241) keeps the invariant.
LEMMA AddStaticStep == IInv /\ AddStatic => IInv'
<1> SUFFICES ASSUME IInv, AddStatic PROVE IInv'
  OBVIOUS
<1>1. CASE BadWild(path, offset) = {}
  <2>1. GrowsAt(cur, offset) /\ cur \in DOMAIN tree
    BY GrowsAtCur DEF AddStatic
  <2>2. /\ IsTree(Grow(tree, cur, offset)) /\ cur \in DOMAIN Grow(tree, cur, offset)
        /\ index \in Nat
    BY <2>1, GrowNodes, IndexIsNat DEF IInv, GrowsAt
  <2>3. IsTree(tree') /\ GrowsTo(cur, offset)
    BY <1>1, <2>2, AddCandidateKeepsLeaves DEF AddStatic, GrowsTo, SameLeaves
  <2>4. TreeInv'
    BY <1>1, <2>1, <2>3, GrowKeepsTreeInv DEF AddStatic, IInv
  <2> QED
    BY <1>1, <2>3, <2>4, EndOfInsert DEF AddStatic
<1>2. CASE BadWild(path, offset) # {}
  BY <1>2, RefuseStep DEF AddStatic
<1> QED
  BY <1>1, <1>2

\* The end of an insertion (245-252) keeps the invariant.
LEMMA SetLeafStep == IInv /\ SetLeaf => IInv'
<1> SUFFICES ASSUME IInv, SetLeaf PROVE IInv'
  OBVIOUS
<1>1. /\ cur \in DOMAIN tree /\ SameShape(cur, path) /\ path # <<>> /\ path[1] = Slash
      /\ index \in Nat /\ IsTree(tree) /\ path \in Seq(Token)
  BY IndexIsNat DEF IInv, TypeOK, OnTheWay, SetLeaf, IsTree
<1>2. CASE "*" \in FirstTokens(tree, cur) \/ tree[cur].leaf # None
  BY <1>2, RefuseStep DEF SetLeaf
<1>3. CASE ~("*" \in FirstTokens(tree, cur) \/ tree[cur].leaf # None)
  <2> DEFINE u == [tree EXCEPT ![cur].leaf = index]
  <2>1. /\ IsTree(u) /\ DOMAIN u = DOMAIN tree /\ u[cur].leaf = index
        /\ \A m \in DOMAIN tree \ {cur} : u[m] = tree[m]
    BY <1>1, SetLeafType
  <2>2. tree' = AddCandidate(u, cur, index) /\ Register(path)
    BY <1>3 DEF SetLeaf
  <2> HIDE DEF u
  <2>3. IsTree(tree') /\ SameLeaves(u, tree')
    BY <1>1, <2>1, <2>2, AddCandidateKeepsLeaves
  <2>4. /\ DOMAIN tree' = DOMAIN tree /\ tree'[cur].leaf = index
        /\ \A m \in DOMAIN tree \ {cur} : tree'[m].leaf = tree[m].leaf
    BY <1>1, <2>1, <2>3 DEF SameLeaves
  <2>5. path \notin ToSet(inner)
    <3> SUFFICES ASSUME NEW i \in 1..Len(inner), inner[i] = path PROVE FALSE
      BY LenProperties DEF ToSet, IInv, TypeOK
    <3>1. PICK d \in DOMAIN tree : tree[d].leaf = i - 1
      BY <1>1 DEF IInv, TreeInv, LeafSpellsRoute, Asterisk, Slash
    <3>2. i - 1 # None /\ i - 1 + 1 = i
      BY LenProperties DEF IInv, TypeOK, None
    <3>3. SameShape(d, path)
      BY <3>1, <3>2 DEF IInv, TreeInv, LeafSpellsRoute
    <3>4. /\ d \in Seq(Token) /\ cur \in Seq(Token)
          /\ Len(d) = Len(cur) /\ Len(cur) \in Nat /\ SamePrefix(d, cur, Len(cur))
      BY <1>1, <3>3, LenProperties DEF IInv, TypeOK, SameShape, SamePrefix
    <3>5. \A j \in 1..Len(cur) : d[j] = cur[j]
      BY <1>1, <3>4, SamePrefixSame DEF IInv, TreeInv
    <3>6. d = cur
      BY <3>4, <3>5, SeqEqual
    <3> QED
      BY <1>3, <3>1, <3>2, <3>6
  <2>6. LeafSpellsRoute'
    BY <1>1, <1>3, <2>2, <2>4, <2>5, RegisterRoute DEF IInv, TreeInv, Asterisk, Slash
  <2>7. OneWayDown' /\ ParametersAreNodes'
    BY <2>4 DEF IInv, TreeInv, OneWayDown, ParametersAreNodes
  <2> QED
    BY <2>2, <2>3, <2>6, <2>7, EndOfInsert DEF TreeInv
<1> QED
  BY <1>2, <1>3

\* So does its beginning (300-312),
LEMMA BeginInsertAny ==
  ASSUME IInv, NEW p \in Seq(Token), p # <<>>, p[1] = Slash, BeginInsert(p)
  PROVE  IInv'
<1>1. Len(p) \in Nat /\ Len(p) > 0 /\ p \in Seq(Token) /\ p # <<>> /\ p[1] = Slash
  BY LenProperties, EmptySeq
<1>2. path' = p /\ offset' = 0 /\ result' = NoResult /\ UNCHANGED <<registry, captures>>
  BY DEF BeginInsert
<1>3. UNCHANGED <<inner, tree, asterisk, params, wildcard>>
  BY <1>2 DEF registry, captures
<1>4. TreeInv'
  BY <1>3, QuietStep DEF IInv, TypeOK, SameLeaves
<1>5. CASE DOMAIN tree = {} /\ pc' = "plant" /\ cur' = <<>>
  <2>1. TypeOK'
    BY <1>1, <1>2, <1>3, <1>5, EmptySeq DEF IInv, TypeOK, NoResult
  <2>2. OnTheWay'
    BY <1>1, <1>2, <1>3, <1>5 DEF OnTheWay
  <2> QED
    BY <1>2, <1>4, <2>1, <2>2 DEF IInv, LookupNeverPanics, NoResult
<1>6. CASE cur' \in Roots(tree) /\ pc' = "segment"
  <2>1. /\ cur' \in DOMAIN tree /\ cur' \in Seq(Token) /\ cur' # <<>>
        /\ Len(cur') \in Nat /\ Len(cur') > 0
    BY <1>6, LenProperties, EmptySeq DEF Roots, IInv, TypeOK
  <2>2. TypeOK'
    BY <1>1, <1>2, <1>3, <1>6, <2>1 DEF IInv, TypeOK, NoResult
  <2>3. cur'[1] = Slash
    BY <2>1 DEF IInv, TreeInv, ParametersAreNodes
  <2>4. \A m \in DOMAIN tree : ~IsStrictPrefix(m, cur')
    BY <1>6 DEF Roots
  <2>5. OnTheWay'
    BY <1>1, <1>2, <1>3, <1>6, <2>1, <2>3, <2>4 DEF OnTheWay, SamePrefix
  <2> QED
    BY <1>2, <1>4, <2>2, <2>5 DEF IInv, LookupNeverPanics, NoResult
<1> QED
  BY <1>5, <1>6 DEF BeginInsert

\* The same of one of the patterns.
LEMMA BeginInsertStep == IInv /\ (\E p \in Patterns : BeginInsert(p)) => IInv'
BY BeginInsertAny, PatternsAssumption

\* the route "*" (65-69),
LEMMA InsertAsteriskStep == IInv /\ InsertAsterisk => IInv'
<1> SUFFICES ASSUME IInv, InsertAsterisk PROVE IInv'
  OBVIOUS
<1>1. result' = NoResult /\ Idle /\ tree' = tree
  BY DEF InsertAsterisk
<1>2. /\ Len(inner) \in Nat /\ inner \in Seq(Seq(Token)) /\ index = Len(inner)
      /\ \A m \in DOMAIN tree : tree[m].leaf \in Nat \cup {None}
  BY LenProperties DEF IInv, TypeOK, index, Node
<1>3. Asterisk \in Seq(Token)
  BY DEF Asterisk, Token, Wild
<1>4. inner' \in Seq(Seq(Token)) /\ asterisk' \in Nat \cup {None}
  <2>1. Append(inner, Asterisk) \in Seq(Seq(Token))
    BY <1>2, <1>3, AppendProperties
  <2> QED
    BY <1>2, <2>1 DEF InsertAsterisk, IInv, TypeOK
<1>5. TypeOK'
  BY <1>1, <1>4, EmptySeq DEF IInv, TypeOK, Idle, NoResult
<1>6. CASE asterisk # None
  BY <1>1, <1>6, QuietStep, <1>5 DEF InsertAsterisk, SameLeaves, IInv, Idle, OnTheWay, LookupNeverPanics, NoResult
<1>7. CASE asterisk = None
  <2>1. asterisk' = index /\ inner' = Append(inner, Asterisk)
    BY <1>7 DEF InsertAsterisk
  <2>2. /\ Len(inner') = Len(inner) + 1 /\ inner'[Len(inner) + 1] = Asterisk
        /\ \A i \in 1..Len(inner) : inner'[i] = inner[i]
    BY <1>2, <1>3, <2>1, AppendProperties
  <2>3. \A m \in DOMAIN tree' : tree'[m].leaf # None =>
          tree'[m].leaf < Len(inner') /\ SameShape(m, inner'[tree'[m].leaf + 1])
    <3> SUFFICES ASSUME NEW m \in DOMAIN tree, tree[m].leaf # None
                 PROVE  tree[m].leaf < Len(inner') /\ SameShape(m, inner'[tree[m].leaf + 1])
      BY <1>1
    <3>1. tree[m].leaf < Len(inner) /\ SameShape(m, inner[tree[m].leaf + 1])
      BY DEF IInv, TreeInv, LeafSpellsRoute
    <3> QED
      BY <1>2, <2>2, <3>1
  <2>4. \A i \in 1..Len(inner') : inner'[i] # Asterisk =>
          \E n \in DOMAIN tree' : tree'[n].leaf = i - 1
    BY <1>1, <1>2, <2>2 DEF IInv, TreeInv, LeafSpellsRoute
  <2>5. asterisk' < Len(inner') /\ inner'[asterisk' + 1] = Asterisk
    BY <1>2, <2>1, <2>2
  <2>6. LeafSpellsRoute'
    BY <1>1, <2>3, <2>4, <2>5 DEF IInv, TreeInv, LeafSpellsRoute
  <2>7. OneWayDown' /\ ParametersAreNodes'
    BY <1>1 DEF IInv, TreeInv, OneWayDown, ParametersAreNodes
  <2> QED
    BY <1>1, <1>5, <2>6, <2>7 DEF IInv, TreeInv, Idle, OnTheWay, LookupNeverPanics, NoResult
<1> QED
  BY <1>6, <1>7

\* the comparison of a label with the path, splits included (150-183),
LEMMA SegmentStep == IInv /\ Segment => IInv'
<1> SUFFICES ASSUME IInv, Segment PROVE IInv'
  OBVIOUS
<1>1. /\ path \in Seq(Token) /\ cur \in Seq(Token) /\ cur \in DOMAIN tree /\ offset \in Nat
      /\ Len(path) \in Nat /\ Len(cur) \in Nat /\ index \in Nat /\ IsTree(tree)
  BY LenProperties, IndexIsNat DEF IInv, TypeOK, Segment, IsTree
<1>2. /\ offset < Len(path) /\ offset < Len(cur) /\ SamePrefix(cur, path, offset)
      /\ cur[offset + 1] = path[offset + 1] /\ path # <<>> /\ path[1] = Slash
      /\ \A m \in DOMAIN tree : IsStrictPrefix(m, cur) => Len(m) <= offset
  BY DEF IInv, OnTheWay, Segment
<1>3. PICK i \in 0..Len(path) :
        /\ CommonPrefix(i)
        /\ tree' = IF offset + i = Len(cur)
                   THEN AddCandidate(tree, cur, index)
                   ELSE [m \in DOMAIN tree \cup {SubSeq(cur, 1, offset + i)} |->
                           IF m = SubSeq(cur, 1, offset + i)
                           THEN [cands |-> tree[cur].cands \cup {index}, leaf |-> None]
                           ELSE tree[m]]
        /\ cur' = SubSeq(cur, 1, offset + i)
        /\ offset' = offset + i
        /\ pc' = IF offset + i = Len(path) THEN "leaf" ELSE "descend"
  BY DEF Segment
<1> DEFINE upper == SubSeq(cur, 1, offset + i)
<1>4. UNCHANGED <<inner, asterisk, path, params, wildcard, result>>
  BY DEF Segment, captures
<1>9. /\ cur' = upper
      /\ tree' = IF offset + i = Len(cur)
                 THEN AddCandidate(tree, cur, index)
                 ELSE [m \in DOMAIN tree \cup {upper} |->
                         IF m = upper
                         THEN [cands |-> tree[cur].cands \cup {index}, leaf |-> None]
                         ELSE tree[m]]
  BY <1>3
<1>5. /\ i \in 1..Len(path) /\ offset + i <= Len(path) /\ offset + i <= Len(cur)
      /\ \A k \in offset + 1..offset + i : path[k] = cur[k]
  <2>1. i # 0
    BY <1>1, <1>2, <1>3 DEF CommonPrefix
  <2> QED
    BY <1>1, <1>3, <2>1 DEF CommonPrefix
<1>6. /\ upper \in Seq(Token) /\ Len(upper) = offset + i
      /\ \A j \in 1..offset + i : upper[j] = cur[j]
  BY <1>1, <1>5, SubSeqProperties
<1> HIDE DEF upper
<1>7. SamePrefix(upper, path, offset + i)
  <2>1. \A j \in 1..offset : Shape(upper[j]) = Shape(path[j])
    BY <1>1, <1>2, <1>5, <1>6 DEF SamePrefix
  <2>2. \A j \in offset + 1..offset + i : upper[j] = path[j]
    BY <1>1, <1>5, <1>6
  <2>3. \A j \in 1..offset + i : Shape(upper[j]) = Shape(path[j])
    <3> SUFFICES ASSUME NEW j \in 1..offset + i PROVE Shape(upper[j]) = Shape(path[j])
      OBVIOUS
    <3>1. j \in 1..offset \/ j \in offset + 1..offset + i
      BY <1>1, <1>5
    <3> QED BY <2>1, <2>2, <3>1
  <2> QED
    BY <1>1, <1>5, <1>6, <2>3 DEF SamePrefix
<1>8. /\ IsTree(tree') /\ upper \in DOMAIN tree' /\ DOMAIN tree' = DOMAIN tree \cup {upper}
      /\ \A m \in DOMAIN tree : tree'[m].leaf = tree[m].leaf
      /\ upper \notin DOMAIN tree => tree'[upper].leaf = None
  <2>1. CASE offset + i = Len(cur)
    <3>1. upper = cur
      BY <1>1, <2>1, SubSeqFull DEF upper
    <3> QED
      <4>1. tree' = AddCandidate(tree, cur, index)
        BY <1>9, <2>1
      <4>2. IsTree(tree') /\ SameLeaves(tree, tree')
        BY <1>1, <4>1, AddCandidateKeepsLeaves
      <4> QED BY <1>1, <3>1, <4>2 DEF SameLeaves
  <2>2. CASE offset + i # Len(cur)
    <3>1. upper \notin DOMAIN tree
      <4>1. IsStrictPrefix(upper, cur)
        BY <1>1, <1>5, <1>6, <2>2, StrictPrefix
      <4>2. Len(upper) > offset
        BY <1>1, <1>5, <1>6
      <4>3. upper \in DOMAIN tree => Len(upper) <= offset
        BY <1>2, <4>1
      <4> QED
        <5>1. Len(upper) \in Nat /\ offset \in Nat
          BY <1>1, <1>6, LenProperties
        <5> QED
          BY <4>2, <4>3, <5>1
    <3>2. tree' = [m \in DOMAIN tree \cup {upper} |->
                     IF m = upper
                     THEN [cands |-> tree[cur].cands \cup {index}, leaf |-> None]
                     ELSE tree[m]]
      BY <1>9, <2>2
    <3>3. [cands |-> tree[cur].cands \cup {index}, leaf |-> None] \in Node
      BY <1>1 DEF IsTree, Node
    <3>4. upper # <<>>
      BY <1>1, <1>5, <1>6, EmptySeq
    <3> QED
      BY <1>1, <1>6, <3>1, <3>2, <3>3, <3>4 DEF IsTree
  <2> QED
    BY <2>1, <2>2
<1>3a. offset' = offset + i /\ pc' = IF offset + i = Len(path) THEN "leaf" ELSE "descend"
  BY <1>3
<1>10. TypeOK'
  <2>1. cur' \in DOMAIN tree' /\ cur' \in Seq(Token) /\ offset' \in Nat
    BY <1>1, <1>3a, <1>5, <1>6, <1>8, <1>9
  <2>2. DOMAIN tree' \subseteq Seq(Token) \ {<<>>} /\ tree' \in [DOMAIN tree' -> Node]
    BY <1>8 DEF IsTree
  <2>3. pc' \in {"leaf", "descend"}
    BY <1>3a
  <2> QED
    BY <1>4, <2>1, <2>2, <2>3 DEF IInv, TypeOK
<1>11. OnTheWay'
  <2>1. CASE offset + i = Len(path)
    <3>1. pc' = "leaf" /\ SameShape(cur', path')
      BY <1>3a, <1>4, <1>6, <1>7, <1>9, <2>1 DEF SameShape
    <3> QED
      BY <1>2, <1>4, <3>1 DEF OnTheWay
  <2>2. CASE offset + i # Len(path)
    <3>1. /\ pc' = "descend" /\ offset' = Len(cur') /\ offset' < Len(path')
          /\ SamePrefix(cur', path', offset')
      BY <1>1, <1>3a, <1>4, <1>5, <1>6, <1>7, <1>9, <2>2
    <3> QED
      BY <1>2, <1>4, <3>1 DEF OnTheWay
  <2> QED
    BY <2>1, <2>2
<1>12. LeafSpellsRoute'
  BY <1>4, <1>8 DEF IInv, TreeInv, LeafSpellsRoute
<1>13. OneWayDown'
  <2> SUFFICES ASSUME NEW m \in DOMAIN tree', NEW n \in DOMAIN tree', NEW k \in 1..Len(m),
                      SamePrefix(m, n, k)
               PROVE  m[k] = n[k]
    BY DEF OneWayDown
  \* The new node stands for a beginning of the old one.
  <2> DEFINE old(x) == IF x = upper THEN cur ELSE x
  <2>1. \A x \in DOMAIN tree' : old(x) \in DOMAIN tree
    BY <1>1, <1>8
  <2>2. \A x \in DOMAIN tree' : /\ x \in Seq(Token) /\ Len(x) \in Nat /\ Len(x) <= Len(old(x))
                                /\ Len(old(x)) \in Nat
                                /\ \A j \in 1..Len(x) : old(x)[j] = x[j]
    BY <1>1, <1>5, <1>6, <1>8, LenProperties DEF IsTree
  <2> HIDE DEF old
  <2>3. SamePrefix(old(m), old(n), k) /\ k \in 1..Len(m) /\ k \in 1..Len(n) /\ k \in 1..Len(old(m))
    <3>1. k \in 1..Len(m) /\ k \in 1..Len(n) /\ 1..k \subseteq 1..Len(m) /\ 1..k \subseteq 1..Len(n)
      BY <2>2 DEF SamePrefix
    <3>2. k <= Len(old(m)) /\ k <= Len(old(n)) /\ k \in 1..Len(old(m))
      BY <2>2, <3>1
    <3>3. \A j \in 1..k : old(m)[j] = m[j] /\ old(n)[j] = n[j]
      BY <2>2, <3>1
    <3>4. \A j \in 1..k : Shape(old(m)[j]) = Shape(old(n)[j])
      BY <3>3 DEF SamePrefix
    <3> QED
      BY <3>1, <3>2, <3>4 DEF SamePrefix
  <2>4. old(m)[k] = old(n)[k]
    BY <2>1, <2>3 DEF IInv, TreeInv, OneWayDown
  <2> QED
    BY <2>2, <2>3, <2>4
<1>14. ParametersAreNodes'
  <2> SUFFICES ASSUME NEW k \in 1..Len(upper), upper[k] \in Wild
               PROVE  SubSeq(upper, 1, k) \in DOMAIN tree
    <3>1. upper[1] = Slash
      BY <1>1, <1>5, <1>6 DEF IInv, TreeInv, ParametersAreNodes
    <3> QED
      BY <1>8, <3>1 DEF IInv, TreeInv, ParametersAreNodes
  <2>1. k \in 1..Len(cur) /\ cur[k] \in Wild
    BY <1>1, <1>5, <1>6
  <2>2. /\ Len(SubSeq(upper, 1, k)) = k /\ \A j \in 1..k : SubSeq(upper, 1, k)[j] = upper[j]
        /\ SubSeq(upper, 1, k) \in Seq(Token)
    BY <1>1, <1>6, SubSeqProperties
  <2>3. /\ Len(SubSeq(cur, 1, k)) = k /\ \A j \in 1..k : SubSeq(cur, 1, k)[j] = cur[j]
        /\ SubSeq(cur, 1, k) \in Seq(Token)
    BY <1>1, <2>1, SubSeqProperties
  <2>4. SubSeq(upper, 1, k) = SubSeq(cur, 1, k)
    <3>1. \A j \in 1..k : SubSeq(upper, 1, k)[j] = SubSeq(cur, 1, k)[j]
      BY <1>1, <1>6, <2>1, <2>2, <2>3
    <3> QED
      BY <2>2, <2>3, <3>1, SeqEqual
  <2> QED
    BY <1>1, <2>1, <2>4 DEF IInv, TreeInv, ParametersAreNodes
<1> QED
  BY <1>4, <1>10, <1>11, <1>12, <1>13, <1>14 DEF IInv, TreeInv, LookupNeverPanics

\* A child of cur continues it, with no node in between.
LEMMA ChildText ==
  ASSUME TypeOK, cur \in DOMAIN tree, NEW c \in Children(tree, cur)
  PROVE  /\ c \in DOMAIN tree /\ c \in Seq(Token) /\ Len(c) \in Nat
         /\ Len(cur) < Len(c) /\ \A j \in 1..Len(cur) : c[j] = cur[j]
         /\ c[Len(cur) + 1] \in FirstTokens(tree, cur)
         /\ \A m \in DOMAIN tree : IsStrictPrefix(m, c) => Len(m) <= Len(cur)
<1>1. c \in DOMAIN tree /\ IsStrictPrefix(cur, c) /\ c \in Below(tree, cur)
  BY DEF Children, Below
<1>2. c \in Seq(Token) /\ cur \in Seq(Token) /\ Len(c) \in Nat /\ Len(cur) \in Nat
  BY <1>1, LenProperties DEF TypeOK
<1>3. Len(cur) < Len(c) /\ \A j \in 1..Len(cur) : c[j] = cur[j]
  BY <1>1, <1>2, StrictPrefix
<1>4. c[Len(cur) + 1] \in FirstTokens(tree, cur)
  BY <1>1 DEF FirstTokens
<1>5. ASSUME NEW m \in DOMAIN tree, IsStrictPrefix(m, c) PROVE Len(m) <= Len(cur)
  <2>1. m \in Seq(Token) /\ Len(m) \in Nat
    BY LenProperties DEF TypeOK
  <2>2. Len(m) < Len(c) /\ \A j \in 1..Len(m) : m[j] = c[j]
    BY <1>2, <1>5, <2>1, StrictPrefix
  <2> SUFFICES ASSUME Len(m) > Len(cur) PROVE FALSE
    BY <1>2, <2>1
  <2>3. IsStrictPrefix(cur, m)
    BY <1>2, <1>3, <2>1, <2>2, StrictPrefix
  <2>4. m \in Below(tree, cur)
    BY <2>3 DEF Below
  <2> QED
    BY <1>5, <2>4 DEF Children
<1> QED
  BY <1>1, <1>2, <1>3, <1>4, <1>5

\* the descent into a static child (226-231)
LEMMA FollowStaticStep == IInv /\ FollowStatic => IInv'
<1> SUFFICES ASSUME IInv, FollowStatic PROVE IInv'
  OBVIOUS
<1>1. cur \in DOMAIN tree /\ IsTree(tree) /\ index \in Nat
  BY IndexIsNat DEF IInv, TypeOK, FollowStatic, IsTree
<1>2. /\ offset = Len(cur) /\ offset < Len(path) /\ SamePrefix(cur, path, offset)
      /\ path # <<>> /\ path[1] = Slash
  BY DEF IInv, OnTheWay, FollowStatic
<1>3. /\ cur' \in Children(tree, cur) /\ cur'[Len(cur) + 1] = path[offset + 1]
      /\ pc' = "segment"
      /\ UNCHANGED <<inner, asterisk, path, offset, params, wildcard, result>>
  BY DEF FollowStatic, ChildAt, NextToken, captures
<1>4. /\ cur' \in DOMAIN tree /\ cur' \in Seq(Token) /\ Len(cur') \in Nat
      /\ Len(cur) < Len(cur') /\ \A j \in 1..Len(cur) : cur'[j] = cur[j]
      /\ \A m \in DOMAIN tree : IsStrictPrefix(m, cur') => Len(m) <= Len(cur)
  BY <1>1, <1>3, ChildText DEF IInv
<1>5. IsTree(tree') /\ SameLeaves(tree, tree')
  BY <1>1, AddCandidateKeepsLeaves DEF FollowStatic
<1>6. TreeInv'
  BY <1>3, <1>5, QuietStep DEF IInv
<1>7. TypeOK'
  BY <1>3, <1>4, <1>5 DEF IInv, TypeOK, IsTree, SameLeaves
<1>8. OnTheWay'
  <2>1. SamePrefix(cur', path, offset)
    BY <1>2, <1>4 DEF SamePrefix
  <2>2. \A m \in DOMAIN tree' : IsStrictPrefix(m, cur') => Len(m) <= offset
    BY <1>2, <1>4, <1>5 DEF SameLeaves
  <2> QED
    BY <1>2, <1>3, <1>4, <2>1, <2>2 DEF OnTheWay
<1> QED
  BY <1>3, <1>6, <1>7, <1>8 DEF IInv, LookupNeverPanics

\* and into a parameter (200-208).
LEMMA FollowWildcardStep == IInv /\ FollowWildcard => IInv'
<1> SUFFICES ASSUME IInv, FollowWildcard PROVE IInv'
  OBVIOUS
<1>1. cur \in DOMAIN tree /\ IsTree(tree) /\ index \in Nat /\ path \in Seq(Token) /\ Len(path) \in Nat
  BY IndexIsNat, LenProperties DEF IInv, TypeOK, FollowWildcard, IsTree
<1>2. IsTree(tree') /\ SameLeaves(tree, tree')
  BY <1>1, AddCandidateKeepsLeaves DEF FollowWildcard
<1>3. CASE ~WildcardEndOk(path, offset + 1, 0)
  <2>1. Fail
    BY <1>3 DEF FollowWildcard
  <2>2. TreeInv'
    BY <1>2, <2>1, QuietStep DEF IInv, Fail
  <2> QED
    BY <1>2, <2>1, <2>2, EndOfInsert
<1>4. CASE WildcardEndOk(path, offset + 1, 0)
  <2>1. /\ cur' \in Children(tree, cur) /\ offset' = offset + 1
        /\ pc' = IF offset + 1 = Len(path) THEN "leaf" ELSE "descend"
        /\ UNCHANGED <<inner, asterisk, path, params, wildcard, result>>
        /\ FirstTokens(tree, cur) \subseteq Wild /\ path[offset + 1] \in Wild
    BY <1>4 DEF FollowWildcard, NextToken, captures
  <2>2. /\ offset = Len(cur) /\ offset \in Nat /\ offset < Len(path)
        /\ SamePrefix(cur, path, offset) /\ path # <<>> /\ path[1] = Slash
    BY DEF IInv, TypeOK, OnTheWay, FollowWildcard
  <2>3. /\ cur' \in DOMAIN tree /\ cur' \in Seq(Token) /\ Len(cur') \in Nat
        /\ Len(cur) < Len(cur') /\ \A j \in 1..Len(cur) : cur'[j] = cur[j]
        /\ cur'[Len(cur) + 1] \in Wild
        /\ \A m \in DOMAIN tree : IsStrictPrefix(m, cur') => Len(m) <= Len(cur)
    BY <1>1, <2>1, ChildText DEF IInv
  \* The parameter is a node of its own, so the child is no longer than that.
  <2>4. Len(cur') = offset + 1
    <3> DEFINE m == SubSeq(cur', 1, offset + 1)
    <3>1. m \in DOMAIN tree
      BY <2>2, <2>3 DEF IInv, TreeInv, ParametersAreNodes
    <3>2. m \in Seq(Token) /\ Len(m) = offset + 1 /\ \A j \in 1..offset + 1 : m[j] = cur'[j]
      BY <2>2, <2>3, SubSeqProperties
    <3> HIDE DEF m
    <3>3. SUFFICES ASSUME Len(cur') > offset + 1 PROVE FALSE
      BY <2>2, <2>3
    <3>4. IsStrictPrefix(m, cur')
      BY <2>3, <3>2, <3>3, StrictPrefix
    <3> QED
      BY <2>2, <2>3, <3>1, <3>2, <3>4
  <2>5. SamePrefix(cur', path, offset + 1)
    <3>1. \A j \in 1..offset : Shape(cur'[j]) = Shape(path[j])
      BY <2>2, <2>3 DEF SamePrefix
    <3>2. Shape(cur'[offset + 1]) = Shape(path[offset + 1])
      BY <2>1, <2>2, <2>3 DEF Shape
    <3>3. \A j \in 1..offset + 1 : j \in 1..offset \/ j = offset + 1
      BY <2>2
    <3> QED
      BY <1>1, <2>2, <2>4, <3>1, <3>2, <3>3 DEF SamePrefix
  <2>6. TreeInv'
    BY <1>2, <2>1, QuietStep DEF IInv
  <2>7. TypeOK'
    BY <1>2, <2>1, <2>2, <2>3 DEF IInv, TypeOK, IsTree, SameLeaves
  <2>8. OnTheWay'
    <3>1. CASE offset + 1 = Len(path)
      BY <2>1, <2>2, <2>4, <2>5, <3>1 DEF OnTheWay, SameShape
    <3>2. CASE offset + 1 # Len(path)
      BY <1>1, <2>1, <2>2, <2>4, <2>5, <3>2 DEF OnTheWay
    <3> QED
      BY <3>1, <3>2
  <2> QED
    BY <2>1, <2>6, <2>7, <2>8 DEF IInv, LookupNeverPanics
<1> QED
  BY <1>3, <1>4

-----------------------------------------------------------------------------
(* The search. *)

\* The end of a search keeps the invariant, if an index it returns is a leaf.
LEMMA OutcomeStep ==
  ASSUME IInv, NEW status \in {"ok", "partial", "not_matched"}, NEW i, NEW ps, NEW w, NEW cands,
         status = "ok" => cur \in DOMAIN tree /\ i = tree[cur].leaf /\ i # None,
         Outcome(status, i, ps, w, cands)
  PROVE  IInv'
<1>1. UNCHANGED <<inner, tree, asterisk>> /\ Idle /\ result'.status = status /\ result'.index = i
  BY DEF Outcome, registry
<1>2. TreeInv'
  BY <1>1, QuietStep DEF IInv, TypeOK, SameLeaves
<1>3. TypeOK'
  BY <1>1, EmptySeq DEF IInv, TypeOK, Idle
<1>4. OnTheWay'
  BY <1>1 DEF Idle, OnTheWay
<1>5. status = "ok" => i \in 0..Len(inner) - 1
  BY LenProperties DEF IInv, TypeOK, Node, TreeInv, LeafSpellsRoute
<1> QED
  BY <1>1, <1>2, <1>3, <1>4, <1>5 DEF IInv, LookupNeverPanics

\* A search that goes down to a child keeps the invariant.
LEMMA AdvanceStep ==
  ASSUME IInv, pc = "match", NEW o \in Nat, NEW ps \in Seq(Span), Advance(o, ps)
  PROVE  IInv'
<1>1. CASE Fits(o) = {}
  BY <1>1, OutcomeStep DEF Advance, PartiallyMatched
<1>2. CASE Fits(o) # {}
  <2>1. /\ cur' \in DOMAIN tree /\ offset' = o /\ params' = ps
        /\ UNCHANGED <<inner, tree, asterisk, pc, path, wildcard, result>>
    BY <1>2 DEF Advance, Fits, Children, Below, registry
  <2>2. TreeInv'
    BY <2>1, QuietStep DEF IInv, TypeOK, SameLeaves
  <2>3. TypeOK'
    BY <2>1 DEF IInv, TypeOK
  <2> QED
    BY <2>1, <2>2, <2>3 DEF IInv, OnTheWay, LookupNeverPanics
<1> QED
  BY <1>1, <1>2

\* A search that ends at a node, with its leaf or without, keeps the invariant.
LEMMA LeafOrPartialStep ==
  ASSUME IInv, cur \in DOMAIN tree, NEW ps, NEW w, LeafOrPartial(ps, w)
  PROVE  IInv'
BY OutcomeStep DEF LeafOrPartial

\* One turn of a search at static text (334-346) keeps the invariant,
LEMMA MatchStaticStep == IInv /\ MatchStatic => IInv'
<1> SUFFICES ASSUME IInv, MatchStatic PROVE IInv'
  OBVIOUS
<1>1. /\ cur \in DOMAIN tree /\ cur \in Seq(Token) /\ Len(cur) \in Nat /\ offset \in Nat
      /\ path \in Seq(Token) /\ Len(path) \in Nat /\ params \in Seq(Span) /\ pc = "match"
  BY LenProperties DEF IInv, TypeOK, MatchStatic
<1>2. PICK b \in 0..Len(cur) - 1 :
        LET s == SubSeq(cur, b + 1, Len(cur)) IN
        \/ Len(s) < Len(Rest) /\ IsPrefix(s, Rest) /\ Advance(offset + Len(s), params)
        \/ Len(s) > Len(Rest) /\ IsPrefix(Rest, s) /\ Advance(Len(path), params)
        \/ /\ s = Rest /\ tree[cur].leaf # None
           /\ Outcome("ok", tree[cur].leaf, params, wildcard, {})
        \/ s = Rest /\ tree[cur].leaf = None /\ Advance(Len(path), params)
        \/ /\ ~IsPrefix(s, Rest) /\ ~IsPrefix(Rest, s)
           /\ Outcome("not_matched", None, params, wildcard, {})
  BY DEF MatchStatic
<1> DEFINE s == SubSeq(cur, b + 1, Len(cur))
<1>3. Len(s) \in Nat
  <2>1. s \in Seq(Token)
    BY <1>1, SubSeqProperties
  <2> QED
    BY <2>1, LenProperties
<1>4. offset + Len(s) \in Nat
  BY <1>1, <1>3
<1> HIDE DEF s
<1>5. \/ Advance(offset + Len(s), params)
      \/ Advance(Len(path), params)
      \/ tree[cur].leaf # None /\ Outcome("ok", tree[cur].leaf, params, wildcard, {})
      \/ Outcome("not_matched", None, params, wildcard, {})
  BY <1>2 DEF s
<1>6. CASE Advance(offset + Len(s), params)
  BY <1>1, <1>4, <1>6, AdvanceStep
<1>7. CASE Advance(Len(path), params)
  BY <1>1, <1>7, AdvanceStep
<1>8. CASE tree[cur].leaf # None /\ Outcome("ok", tree[cur].leaf, params, wildcard, {})
  BY <1>1, <1>8, OutcomeStep
<1>9. CASE Outcome("not_matched", None, params, wildcard, {})
  BY <1>9, OutcomeStep
<1> QED
  BY <1>5, <1>6, <1>7, <1>8, <1>9

\* one at a parameter (347-363)
LEMMA MatchParamStep == IInv /\ MatchParam => IInv'
<1> SUFFICES ASSUME IInv, MatchParam PROVE IInv'
  OBVIOUS
<1>1. /\ cur \in DOMAIN tree /\ offset \in Nat /\ Len(path) \in Nat
      /\ params \in Seq(Span) /\ pc = "match"
  BY LenProperties DEF IInv, TypeOK, MatchParam
<1>2. PICK end \in offset..Len(path) :
        IF end = Len(path)
        THEN LeafOrPartial(Append(params, <<offset, end>>), wildcard)
        ELSE Advance(end, Append(params, <<offset, end>>))
  BY DEF MatchParam
<1>3. end \in Nat /\ <<offset, end>> \in Span
  BY <1>1 DEF Span
<1>4. Append(params, <<offset, end>>) \in Seq(Span)
  BY <1>1, <1>3, AppendProperties
<1>5. CASE end = Len(path)
  BY <1>1, <1>2, <1>5, LeafOrPartialStep
<1>6. CASE end # Len(path)
  BY <1>1, <1>2, <1>3, <1>4, <1>6, AdvanceStep
<1> QED
  BY <1>5, <1>6

\* and one at a catch-all (364-370).
LEMMA MatchCatchAllStep == IInv /\ MatchCatchAll => IInv'
<1> SUFFICES ASSUME IInv, MatchCatchAll PROVE IInv'
  OBVIOUS
<1>1. cur \in DOMAIN tree
  BY DEF IInv, TypeOK, MatchCatchAll
<1> QED
  BY <1>1, LeafOrPartialStep DEF MatchCatchAll

\* The beginning of a search (94-101, 384-391) keeps the invariant.
LEMMA BeginRecognizeStep ==
  IInv /\ (\E r \in Requests : BeginRecognize(r) \/ RecognizeNothing(r)) => IInv'
<1> SUFFICES ASSUME IInv, NEW r \in Requests, BeginRecognize(r) \/ RecognizeNothing(r) PROVE IInv'
  OBVIOUS
<1>1. UNCHANGED <<inner, tree, asterisk>> /\ result'.status # "ok"
  BY DEF BeginRecognize, RecognizeNothing, registry, NoResult
<1>2. TreeInv'
  BY <1>1, QuietStep DEF IInv, TypeOK, SameLeaves
<1>3. CASE BeginRecognize(r)
  <2>1. /\ cur' \in DOMAIN tree /\ pc' = "match" /\ offset' = 0 /\ path' = r
        /\ UNCHANGED <<params, wildcard>> /\ result'.status = "none"
    BY <1>3 DEF BeginRecognize, Roots, captures, NoResult
  <2>2. path' \in Seq(Token)
    <3>1. r \in Seq(Char) /\ Char \subseteq Token
      BY RequestsAssumption DEF Token
    <3> QED
      BY <2>1, <3>1, SeqMonotonic
  <2>3. TypeOK'
    BY <1>1, <2>1, <2>2 DEF IInv, TypeOK
  <2> QED
    BY <1>1, <1>2, <2>1, <2>3 DEF IInv, OnTheWay, LookupNeverPanics
<1>4. CASE RecognizeNothing(r)
  <2>1. Idle /\ result'.status = "not_matched"
    BY <1>4 DEF RecognizeNothing
  <2>2. TypeOK'
    BY <1>1, <2>1, EmptySeq DEF IInv, TypeOK, Idle
  <2> QED
    BY <1>1, <1>2, <2>1, <2>2 DEF IInv, OnTheWay, LookupNeverPanics, Idle
<1> QED
  BY <1>3, <1>4

\* The request "*" (92-93) keeps the invariant.
LEMMA RecognizeAsteriskStep == IInv /\ RecognizeAsterisk => IInv'
<1> SUFFICES ASSUME IInv, RecognizeAsterisk PROVE IInv'
  OBVIOUS
<1>1. /\ UNCHANGED <<inner, tree, asterisk>> /\ Idle
      /\ result'.status = IF asterisk # None THEN "ok" ELSE "not_matched"
      /\ result'.index = asterisk
  BY DEF RecognizeAsterisk, registry
<1>2. TreeInv'
  BY <1>1, QuietStep DEF IInv, TypeOK, SameLeaves
<1>3. TypeOK'
  BY <1>1, EmptySeq DEF IInv, TypeOK, Idle
<1>4. asterisk # None => asterisk \in 0..Len(inner) - 1
  BY LenProperties DEF IInv, TypeOK, TreeInv, LeafSpellsRoute
<1> QED
  BY <1>1, <1>2, <1>3, <1>4 DEF IInv, OnTheWay, LookupNeverPanics, Idle

-----------------------------------------------------------------------------
(* The theorems. *)

\* The invariant holds at first,
LEMMA InitInv == Init => IInv
<1> SUFFICES ASSUME Init PROVE IInv
  OBVIOUS
<1>1. DOMAIN tree = {} /\ Len(inner) = 0 /\ inner \in Seq(Seq(Token))
  BY EmptySeq DEF Init
<1>2. TypeOK
  BY <1>1, EmptySeq DEF Init, TypeOK, NoResult
<1>3. TreeInv
  BY <1>1 DEF Init, TreeInv, LeafSpellsRoute, OneWayDown, ParametersAreNodes
<1> QED
  BY <1>2, <1>3 DEF Init, IInv, OnTheWay, LookupNeverPanics, NoResult

\* and every step keeps it.
LEMMA NextInv == IInv /\ [Next]_vars => IInv'
<1> SUFFICES ASSUME IInv, [Next]_vars PROVE IInv'
  OBVIOUS
<1>1. CASE Insert
  <2>1. CASE RefuseCatchAll \/ RefuseWildcard \/ RefuseStatic
    BY <2>1, RefuseStep DEF RefuseCatchAll, RefuseWildcard, RefuseStatic
  <2> QED
    BY <1>1, <2>1, InsertAsteriskStep, BeginInsertStep, PlantStep, SegmentStep,
       AddWildcardStep, FollowWildcardStep, FollowStaticStep, AddStaticStep, SetLeafStep
    DEF Insert
<1>2. CASE Recognize
  BY <1>2, RecognizeAsteriskStep, BeginRecognizeStep, MatchStaticStep, MatchParamStep,
     MatchCatchAllStep
  DEF Recognize
<1>3. CASE UNCHANGED vars
  BY <1>3 DEF vars, IInv, TypeOK, TreeInv, LeafSpellsRoute, OneWayDown, ParametersAreNodes,
     OnTheWay, LookupNeverPanics, Below
<1> QED
  BY <1>1, <1>2, <1>3 DEF Next

\* The whole invariant holds for any routes, any requests, any order.
THEOREM Invariance == Spec => []IInv
<1> QED
  BY InitInv, NextInv, PTL DEF Spec

\* The recognizer's state is well typed, and a walk stands on a node.
THEOREM TypeCorrect == Spec => []TypeOK
<1>1. IInv => TypeOK
  BY DEF IInv
<1> QED
  BY Invariance, <1>1, PTL

\* `expect("should be success")` in recognize (101) cannot panic, whatever
\* insertions failed before.
THEOREM NoPanic == Spec => []LookupNeverPanics
<1>1. IInv => LookupNeverPanics
  BY DEF IInv
<1> QED
  BY Invariance, <1>1, PTL

\* Registered routes and leaves are in bijection, each leaf where its route
\* leads: no sequence of insertions loses, shadows or misplaces an index.
THEOREM LeavesAreRoutes == Spec => []LeafSpellsRoute
<1>1. IInv => LeafSpellsRoute
  BY DEF IInv, TreeInv
<1> QED
  BY Invariance, <1>1, PTL

\* No two nodes of the tree differ only in the kind of a parameter.
THEOREM OneWay == Spec => []OneWayDown
<1>1. IInv => OneWayDown
  BY DEF IInv, TreeInv
<1> QED
  BY Invariance, <1>1, PTL
-----------------------------------------------------------------------------
(* What was registered stays. *)

StableLeaves ==
  \A n \in DOMAIN tree : tree[n].leaf # None =>
    n \in DOMAIN tree' /\ tree'[n].leaf = tree[n].leaf

Stable == IsPrefix(inner, inner') /\ StableLeaves

\* Registering a route appends it, or leaves the routes as they are.
LEMMA StableRoutes ==
  ASSUME NEW s \in Seq(Seq(Token)), NEW e \in Seq(Token)
  PROVE  IsPrefix(s, s) /\ IsPrefix(s, Append(s, e))
<1>1. Len(s) \in Nat /\ SubSeq(s, 1, Len(s)) = s
  BY LenProperties, SubSeqFull
<1>2. /\ Append(s, e) \in Seq(Seq(Token)) /\ Len(Append(s, e)) = Len(s) + 1
      /\ \A i \in 1..Len(s) : Append(s, e)[i] = s[i]
  BY AppendProperties
<1>3. /\ SubSeq(Append(s, e), 1, Len(s)) \in Seq(Seq(Token))
      /\ Len(SubSeq(Append(s, e), 1, Len(s))) = Len(s)
      /\ \A i \in 1..Len(s) : SubSeq(Append(s, e), 1, Len(s))[i] = Append(s, e)[i]
  BY <1>1, <1>2, SubSeqProperties
<1>4. SubSeq(Append(s, e), 1, Len(s)) = s
  BY <1>1, <1>2, <1>3, SeqEqual
<1> QED
  BY <1>1, <1>2, <1>4 DEF IsPrefix

\* A split makes its upper half where no node was, and keeps every other node.
LEMMA StableSegment == IInv /\ Segment => StableLeaves
<1> SUFFICES ASSUME IInv, Segment PROVE StableLeaves
  OBVIOUS
<1>1. /\ cur \in Seq(Token) /\ offset \in Nat /\ Len(path) \in Nat /\ Len(cur) \in Nat
      /\ cur \in DOMAIN tree /\ index \in Nat /\ IsTree(tree)
      /\ offset < Len(path) /\ offset < Len(cur) /\ cur[offset + 1] = path[offset + 1]
      /\ \A m \in DOMAIN tree : IsStrictPrefix(m, cur) => Len(m) <= offset
  BY LenProperties, IndexIsNat DEF IInv, TypeOK, OnTheWay, Segment, IsTree
<1>2. PICK i \in 0..Len(path) :
        /\ CommonPrefix(i)
        /\ tree' = IF offset + i = Len(cur)
                   THEN AddCandidate(tree, cur, index)
                   ELSE [m \in DOMAIN tree \cup {SubSeq(cur, 1, offset + i)} |->
                           IF m = SubSeq(cur, 1, offset + i)
                           THEN [cands |-> tree[cur].cands \cup {index}, leaf |-> None]
                           ELSE tree[m]]
  BY DEF Segment
<1>3. CASE offset + i = Len(cur)
  BY <1>1, <1>2, <1>3, AddCandidateKeepsLeaves DEF SameLeaves, StableLeaves
<1>4. CASE offset + i # Len(cur)
  <2> DEFINE upper == SubSeq(cur, 1, offset + i)
  <2>1. i \in 1..Len(path) /\ offset + i < Len(cur)
    <3>1. i # 0
      BY <1>1, <1>2 DEF CommonPrefix
    <3> QED
      BY <1>1, <1>2, <1>4, <3>1 DEF CommonPrefix
  <2>2. /\ upper \in Seq(Token) /\ Len(upper) = offset + i
        /\ \A j \in 1..offset + i : upper[j] = cur[j]
    BY <1>1, <2>1, SubSeqProperties
  <2>3. tree' = [m \in DOMAIN tree \cup {upper} |->
                   IF m = upper THEN [cands |-> tree[cur].cands \cup {index}, leaf |-> None]
                   ELSE tree[m]]
    BY <1>2, <1>4
  <2> HIDE DEF upper
  <2>4. IsStrictPrefix(upper, cur)
    BY <1>1, <2>1, <2>2, StrictPrefix
  <2>5. upper \notin DOMAIN tree
    BY <1>1, <2>1, <2>2, <2>4
  <2> QED
    BY <2>3, <2>5 DEF StableLeaves
<1> QED
  BY <1>3, <1>4

\* insert_child adds nodes below a node, and an index to the candidates of one.
LEMMA StableGrow ==
  ASSUME TypeOK, NEW n, NEW from, GrowsAt(n, from)
  PROVE  /\ tree' = Grow(tree, n, from) => StableLeaves
         /\ n \in DOMAIN tree /\ tree' = AddCandidate(Grow(tree, n, from), n, index) => StableLeaves
<1>1. /\ IsTree(Grow(tree, n, from)) /\ DOMAIN tree \subseteq DOMAIN Grow(tree, n, from)
      /\ \A m \in DOMAIN tree : Grow(tree, n, from)[m] = tree[m]
  BY GrowNodes DEF GrowsAt
<1>2. index \in Nat
  BY IndexIsNat
<1> DEFINE t == Grow(tree, n, from)
<1> HIDE DEF t
<1>3. IsTree(t) /\ DOMAIN tree \subseteq DOMAIN t /\ \A m \in DOMAIN tree : t[m] = tree[m]
  BY <1>1 DEF t
<1>4. n \in DOMAIN tree => SameLeaves(t, AddCandidate(t, n, index))
  BY <1>2, <1>3, AddCandidateKeepsLeaves
<1>5. tree' = t => StableLeaves
  BY <1>3 DEF StableLeaves
<1>6. n \in DOMAIN tree /\ tree' = AddCandidate(t, n, index) => StableLeaves
  BY <1>3, <1>4 DEF StableLeaves, SameLeaves
<1> QED
  BY <1>5, <1>6 DEF t

\* No step moves a route or a leaf.
LEMMA StableNext == IInv /\ [Next]_vars => [Stable]_vars
<1> SUFFICES ASSUME IInv, Next PROVE Stable
  OBVIOUS
<1>1. /\ TypeOK /\ inner \in Seq(Seq(Token)) /\ path \in Seq(Token) /\ IsTree(tree)
      /\ index \in Nat
  BY IndexIsNat DEF IInv, TypeOK, IsTree
<1>2. IsPrefix(inner, inner')
  <2>1. inner' = inner \/ inner' = Append(inner, path) \/ inner' = Append(inner, Asterisk)
    BY DEF Next, Insert, InsertAsterisk, BeginInsert, Plant, Segment, AddWildcard, RefuseCatchAll,
       RefuseWildcard, FollowWildcard, RefuseStatic, FollowStatic, AddStatic, SetLeaf, Register,
       Fail, Recognize, RecognizeAsterisk, BeginRecognize, RecognizeNothing, MatchStatic,
       MatchParam, MatchCatchAll, Outcome, Advance, LeafOrPartial, PartiallyMatched, registry
  <2>2. Asterisk \in Seq(Token)
    BY DEF Asterisk, Token, Wild
  <2> QED
    BY <1>1, <2>1, <2>2, StableRoutes
<1>3. StableLeaves
  <2>1. CASE UNCHANGED tree
    BY <2>1 DEF StableLeaves
  <2>2. CASE Plant
    <3>1. GrowsAt(<<>>, 0)
      BY <2>2, PlantGrows
    <3> QED
      BY <1>1, <2>2, <3>1, StableGrow DEF Plant
  <2>3. CASE Segment
    BY <2>3, StableSegment
  <2>4. CASE AddWildcard
    <3>1. GrowsAt(cur, offset)
      BY <2>4, GrowsAtCur DEF AddWildcard
    <3> QED
      BY <1>1, <2>4, <3>1, StableGrow DEF AddWildcard
  <2>5. CASE FollowWildcard \/ FollowStatic
    <3>1. cur \in DOMAIN tree /\ tree' = AddCandidate(tree, cur, index)
      BY <1>1, <2>5 DEF TypeOK, FollowWildcard, FollowStatic
    <3> QED
      BY <1>1, <3>1, AddCandidateKeepsLeaves DEF SameLeaves, StableLeaves
  <2>6. CASE AddStatic
    <3>1. CASE BadWild(path, offset) = {}
      <4>1. GrowsAt(cur, offset) /\ cur \in DOMAIN tree
        BY <2>6, GrowsAtCur DEF AddStatic
      <4> QED
        BY <1>1, <2>6, <3>1, <4>1, StableGrow DEF AddStatic
    <3>2. CASE BadWild(path, offset) # {}
      BY <2>1, <2>6, <3>2 DEF AddStatic
    <3> QED
      BY <3>1, <3>2
  <2>7. CASE SetLeaf
    <3>1. CASE UNCHANGED tree
      BY <2>1, <3>1
    <3>2. CASE ~UNCHANGED tree
      <4> DEFINE t == [tree EXCEPT ![cur].leaf = index]
      <4>1. /\ cur \in DOMAIN tree /\ tree[cur].leaf = None
            /\ tree' = AddCandidate(t, cur, index)
        BY <1>1, <2>7, <3>2 DEF TypeOK, SetLeaf
      <4>2. /\ IsTree(t) /\ DOMAIN t = DOMAIN tree
            /\ \A m \in DOMAIN tree \ {cur} : t[m] = tree[m]
        BY <1>1, <4>1, SetLeafType
      <4> HIDE DEF t
      <4>3. SameLeaves(t, tree')
        BY <1>1, <4>1, <4>2, AddCandidateKeepsLeaves
      <4> QED
        BY <4>1, <4>2, <4>3 DEF SameLeaves, StableLeaves
    <3> QED
      BY <3>1, <3>2
  <2>8. CASE \/ InsertAsterisk \/ (\E p \in Patterns : BeginInsert(p)) \/ RefuseCatchAll
             \/ RefuseWildcard \/ RefuseStatic
    BY <2>1, <2>8 DEF InsertAsterisk, BeginInsert, RefuseCatchAll, RefuseWildcard, RefuseStatic, registry
  <2>9. CASE Recognize
    BY <2>1, <2>9 DEF Recognize, RecognizeAsterisk, BeginRecognize, RecognizeNothing, MatchStatic,
       MatchParam, MatchCatchAll, Outcome, Advance, LeafOrPartial, PartiallyMatched, registry
  <2> QED
    BY <2>2, <2>3, <2>4, <2>5, <2>6, <2>7, <2>8, <2>9 DEF Next, Insert
<1> QED
  BY <1>2, <1>3 DEF Stable

\* A route stays registered under its index, and its leaf where it is, whatever
\* is inserted later, accepted or refused.
THEOREM RegisteredForGood == Spec => RoutesAreStable
<1>1. IInv /\ [Next]_vars => [/\ IsPrefix(inner, inner')
                             /\ \A n \in DOMAIN tree : tree[n].leaf # None =>
                                  n \in DOMAIN tree' /\ tree'[n].leaf = tree[n].leaf]_vars
  BY StableNext DEF Stable, StableLeaves
<1> QED
  BY Invariance, <1>1, PTL DEF Spec, RoutesAreStable

-----------------------------------------------------------------------------
(* Sequences, and the equations of the reference: what a route matches. *)

\* A set of numbers has a least one.
LEMMA LeastOf ==
  ASSUME NEW T, T \subseteq Nat, T # {}
  PROVE  \E x \in T : \A y \in T : ~(y < x)
<1> DEFINE R == OpToRel(<, Nat)
<1>1. IsWellFoundedOn(R, Nat)
  BY NatLessThanWellFounded
<1>2. \A x, y \in Nat : y < x => <<y, x>> \in R
  BY DEF OpToRel
<1> HIDE DEF R
<1>3. PICK x \in T : \A y \in T : <<y, x>> \notin R
  BY <1>1, WFMin
<1> QED
  BY <1>2, <1>3

\* Step by step from a to b.
LEMMA StepByStep ==
  ASSUME NEW a \in Nat, NEW b \in Nat, NEW S,
         a \in S, \A k \in a..b - 1 : k \in S => k + 1 \in S
  PROVE  a..b \subseteq S
<1> SUFFICES ASSUME NEW c \in a..b, c \notin S PROVE FALSE
  OBVIOUS
<1> DEFINE T == {k \in a..b : k \notin S}
<1>1. T \subseteq Nat /\ T # {}
  OBVIOUS
<1>2. PICK x \in T : \A y \in T : ~(y < x)
  BY <1>1, LeastOf
<1>3. x \in a..b /\ x # a /\ x \notin S
  OBVIOUS
<1>4. x - 1 \in a..b - 1 /\ (x - 1) + 1 = x /\ x - 1 < x
  BY <1>3
<1>5. x - 1 \in S
  BY <1>2, <1>4
<1> QED
  BY <1>3, <1>4, <1>5

\* The equations of Ends, which a recursive function states and a proof has to find.
LEMMA EndsStep ==
  ASSUME NEW p, NEW r, Len(p) \in Nat
  PROVE  /\ Ends(p, r)[0] = {0}
         /\ \A k \in 1..Len(p) : \A e :
              e \in Ends(p, r)[k] <=>
                e \in 0..Len(r) /\ \E d \in Ends(p, r)[k - 1] : Covers(p[k], r, d, e)
<1> DEFINE l == Len(p)
           Reach(i, from) == UNION {{e \in 0..Len(r) : Covers(p[i], r, d, e)} : d \in from}
           E(g, i) == IF i = 0 THEN {0} ELSE Reach(i, g[i - 1])
           P(g) == g = [i \in 0..l |-> E(g, i)]
           f == CHOOSE g : P(g)
           Solves(g, k) == g = [i \in 0..k |-> E(g, i)]
           S == {k \in 0..l : \E g : Solves(g, k)}
<1>1. Ends(p, r) = f
  BY DEF Ends
<1>2. P(f)
  <2>1. 0 \in S
    <3> DEFINE g == [i \in 0..0 |-> {0}]
    <3>1. Solves(g, 0)
      OBVIOUS
    <3>2. 0 \in 0..l
      OBVIOUS
    <3> HIDE DEF Solves, g
    <3> QED
      BY <3>1, <3>2
  <2>2. ASSUME NEW k \in 0..l - 1, k \in S PROVE k + 1 \in S
    <3>1. PICK g : Solves(g, k)
      BY <2>2
    <3> HIDE DEF Reach
    <3> DEFINE h == [i \in 0..k + 1 |-> IF i = k + 1 THEN Reach(k + 1, g[k]) ELSE g[i]]
    <3>2. \A i \in 0..k : g[i] = E(g, i)
      BY <3>1
    <3>3. \A i \in 0..k + 1 : h[i] = E(h, i)
      <4> SUFFICES ASSUME NEW i \in 0..k + 1 PROVE h[i] = E(h, i)
        OBVIOUS
      <4>1. CASE i = k + 1
        <5>1. i # 0 /\ i - 1 = k /\ h[k] = g[k]
          BY <4>1
        <5> QED
          BY <4>1, <5>1
      <4>2. CASE i # k + 1
        <5>1. i \in 0..k /\ h[i] = g[i] /\ (i # 0 => i - 1 \in 0..k + 1 /\ i - 1 # k + 1)
          BY <4>2
        <5>2. i # 0 => h[i - 1] = g[i - 1]
          BY <5>1
        <5> QED
          BY <3>2, <5>1, <5>2
      <4> QED
        BY <4>1, <4>2
    <3>4. h = [i \in 0..k + 1 |-> h[i]]
      OBVIOUS
    <3> HIDE DEF h, E
    <3>5. Solves(h, k + 1)
      BY <3>3, <3>4
    <3> HIDE DEF Solves
    <3>6. k + 1 \in 0..l
      OBVIOUS
    <3> QED
      BY <3>5, <3>6
  <2> HIDE DEF S
  <2>3. l \in S
    <3>1. l \in Nat /\ 0 \in Nat /\ l \in 0..l
      OBVIOUS
    <3> HIDE DEF l
    <3>2. 0..l \subseteq S
      BY <2>1, <2>2, <3>1, StepByStep
    <3> QED
      BY <3>1, <3>2
  <2> HIDE DEF E
  <2>4. \E g : P(g)
    BY <2>3 DEF S
  <2> HIDE DEF P
  <2> QED
    BY <2>4
<1> HIDE DEF f
<1>3. \A i \in 0..l : f[i] = E(f, i)
  <2> HIDE DEF E
  <2> QED BY <1>2
<1>4. f[0] = {0}
  <2>1. 0 \in 0..l
    OBVIOUS
  <2>2. f[0] = E(f, 0)
    BY <1>3, <2>1
  <2> QED
    BY <2>2
<1>5. ASSUME NEW k \in 1..l, NEW e
      PROVE  e \in f[k] <=> e \in 0..Len(r) /\ \E d \in f[k - 1] : Covers(p[k], r, d, e)
  <2>1. f[k] = Reach(k, f[k - 1])
    <3>1. k \in 0..l /\ k # 0
      OBVIOUS
    <3>2. f[k] = E(f, k)
      BY <1>3, <3>1
    <3> HIDE DEF Reach
    <3> QED
      BY <3>1, <3>2
  <2>2. e \in Reach(k, f[k - 1]) <=> \E d \in f[k - 1] : e \in {x \in 0..Len(r) : Covers(p[k], r, d, x)}
    OBVIOUS
  <2> QED
    BY <2>1, <2>2
<1> QED
  BY <1>1, <1>4, <1>5

\* So is FlattenSeq: it adds one sequence after the other.
LEMMA FlattenStep ==
  ASSUME NEW seqs, Len(seqs) \in Nat, Len(seqs) > 0
  PROVE  \E f : /\ FlattenSeq(seqs) = f[Len(seqs)]
                /\ f[1] = seqs[1]
                /\ \A k \in 2..Len(seqs) : f[k] = f[k - 1] \o seqs[k]
<1> DEFINE l == Len(seqs)
           E(g, i) == IF i = 1 THEN seqs[i] ELSE g[i - 1] \o seqs[i]
           P(g) == g = [i \in 1..l |-> E(g, i)]
           f == CHOOSE g : P(g)
           Solves(g, k) == g = [i \in 1..k |-> E(g, i)]
           S == {k \in 1..l : \E g : Solves(g, k)}
<1>1. FlattenSeq(seqs) = f[l]
  BY DEF FlattenSeq
<1>2. P(f)
  <2>1. 1 \in S
    <3> DEFINE g == [i \in 1..1 |-> seqs[1]]
    <3>1. Solves(g, 1)
      OBVIOUS
    <3>2. 1 \in 1..l
      OBVIOUS
    <3> HIDE DEF Solves, g
    <3> QED
      BY <3>1, <3>2
  <2>2. ASSUME NEW k \in 1..l - 1, k \in S PROVE k + 1 \in S
    <3>1. PICK g : Solves(g, k)
      BY <2>2
    <3> DEFINE h == [i \in 1..k + 1 |-> IF i = k + 1 THEN g[k] \o seqs[k + 1] ELSE g[i]]
    <3>2. \A i \in 1..k : g[i] = E(g, i)
      BY <3>1
    <3>3. \A i \in 1..k + 1 : h[i] = E(h, i)
      <4> SUFFICES ASSUME NEW i \in 1..k + 1 PROVE h[i] = E(h, i)
        OBVIOUS
      <4>1. CASE i = k + 1
        <5>1. i # 1 /\ i - 1 = k /\ h[k] = g[k]
          BY <4>1
        <5> QED
          BY <4>1, <5>1
      <4>2. CASE i # k + 1
        <5>1. i \in 1..k /\ h[i] = g[i] /\ (i # 1 => i - 1 \in 1..k + 1 /\ i - 1 # k + 1)
          BY <4>2
        <5>2. i # 1 => h[i - 1] = g[i - 1]
          BY <5>1
        <5> QED
          BY <3>2, <5>1, <5>2
      <4> QED
        BY <4>1, <4>2
    <3>4. h = [i \in 1..k + 1 |-> h[i]]
      OBVIOUS
    <3> HIDE DEF h, E
    <3>5. Solves(h, k + 1)
      BY <3>3, <3>4
    <3> HIDE DEF Solves
    <3>6. k + 1 \in 1..l
      OBVIOUS
    <3> QED
      BY <3>5, <3>6
  <2> HIDE DEF S
  <2>3. l \in S
    <3>1. l \in Nat /\ 1 \in Nat /\ l \in 1..l
      OBVIOUS
    <3> HIDE DEF l
    <3>2. 1..l \subseteq S
      BY <2>1, <2>2, <3>1, StepByStep
    <3> QED
      BY <3>1, <3>2
  <2> HIDE DEF E
  <2>4. \E g : P(g)
    BY <2>3 DEF S
  <2> HIDE DEF P
  <2> QED
    BY <2>4
<1> HIDE DEF f
<1>3. \A i \in 1..l : f[i] = E(f, i)
  <2> HIDE DEF E
  <2> QED
    BY <1>2
<1>4. f[1] = seqs[1]
  <2>1. 1 \in 1..l
    OBVIOUS
  <2>2. f[1] = E(f, 1)
    BY <1>3, <2>1
  <2> QED
    BY <2>2
<1>5. ASSUME NEW k \in 2..l PROVE f[k] = f[k - 1] \o seqs[k]
  <2>1. k \in 1..l /\ k # 1
    OBVIOUS
  <2>2. f[k] = E(f, k)
    BY <1>3, <2>1
  <2> QED
    BY <2>1, <2>2
<1> QED
  BY <1>1, <1>4, <1>5

\* Of two texts the first begins the second, read position by position.
LEMMA PrefixAt ==
  ASSUME NEW C, NEW s \in Seq(C), NEW t \in Seq(C)
  PROVE  IsPrefix(s, t) <=> Len(s) <= Len(t) /\ \A j \in 1..Len(s) : s[j] = t[j]
<1>1. Len(s) \in Nat /\ Len(t) \in Nat /\ SubSeq(s, 1, Len(s)) = s
  BY LenProperties, SubSeqFull
<1>2. CASE Len(s) <= Len(t)
  <2>0. \A j \in 1..Len(s) : t[j] \in C
    BY <1>1, <1>2, ElementOfSeq
  <2>1. /\ SubSeq(t, 1, Len(s)) \in Seq(C) /\ Len(SubSeq(t, 1, Len(s))) = Len(s)
        /\ \A j \in 1..Len(s) : SubSeq(t, 1, Len(s))[j] = t[j]
    BY <1>1, <2>0, SubSeqProperties
  <2>2. (\A j \in 1..Len(s) : s[j] = t[j]) => s = SubSeq(t, 1, Len(s))
    BY <2>1, SeqEqual
  <2> QED
    BY <1>1, <1>2, <2>1, <2>2 DEF IsPrefix
<1> QED
  BY <1>2 DEF IsPrefix

\* A text still begins a longer one.
LEMMA PrefixAdd ==
  ASSUME NEW C, NEW w \in Seq(C), NEW u \in Seq(C), NEW v \in Seq(C), IsPrefix(w, u)
  PROVE  u \o v \in Seq(C) /\ IsPrefix(w, u \o v)
<1>1. Len(w) \in Nat /\ Len(u) \in Nat /\ Len(v) \in Nat
  BY LenProperties
<1>2. /\ u \o v \in Seq(C) /\ Len(u \o v) = Len(u) + Len(v)
      /\ \A j \in 1..Len(u) + Len(v) : (u \o v)[j] = IF j <= Len(u) THEN u[j] ELSE v[j - Len(u)]
  BY ConcatProperties
<1>3. Len(w) <= Len(u) /\ \A j \in 1..Len(w) : w[j] = u[j]
  BY PrefixAt
<1> DEFINE t == u \o v
<1> HIDE DEF t
<1>4. Len(w) <= Len(t) /\ \A j \in 1..Len(w) : w[j] = t[j]
  <2>1. \A j \in 1..Len(u) : t[j] = u[j]
    BY <1>1, <1>2 DEF t
  <2> QED
    BY <1>1, <1>2, <1>3, <2>1 DEF t
<1>5. t \in Seq(C)
  BY <1>2 DEF t
<1>6. IsPrefix(w, t)
  BY <1>4, <1>5, PrefixAt
<1> QED
  BY <1>5, <1>6 DEF t

\* Pieces of r that follow one another spell a beginning of it, and what comes
\* after them only adds to that.
LEMMA Pieces ==
  ASSUME NEW C, NEW r \in Seq(C), NEW seqs \in Seq(Seq(C)), NEW m \in 0..Len(seqs), Len(seqs) > 0,
         NEW pos \in [0..m -> 0..Len(r)], pos[0] = 0,
         \A k \in 1..m : /\ pos[k - 1] <= pos[k]
                         /\ seqs[k] = SubSeq(r, pos[k - 1] + 1, pos[k])
  PROVE  /\ FlattenSeq(seqs) \in Seq(C)
         /\ IsPrefix(SubSeq(r, 1, pos[m]), FlattenSeq(seqs))
         /\ m = Len(seqs) => FlattenSeq(seqs) = SubSeq(r, 1, pos[m])
<1> DEFINE l == Len(seqs)
           text(k) == SubSeq(r, 1, pos[k])
<1>1. l \in Nat /\ l > 0 /\ m \in Nat /\ m <= l /\ Len(r) \in Nat /\ \A k \in 1..l : seqs[k] \in Seq(C)
  BY LenProperties, ElementOfSeq
<1>2. PICK f : /\ FlattenSeq(seqs) = f[l] /\ f[1] = seqs[1]
               /\ \A k \in 2..l : f[k] = f[k - 1] \o seqs[k]
  BY <1>1, FlattenStep
<1> HIDE DEF l
<1>3. \A k \in 0..m : text(k) \in Seq(C) /\ Len(text(k)) = pos[k]
  <2> SUFFICES ASSUME NEW k \in 0..m PROVE text(k) \in Seq(C) /\ Len(text(k)) = pos[k]
    OBVIOUS
  <2>1. pos[k] \in 0..Len(r)
    OBVIOUS
  <2>2. \A j \in 1..pos[k] : r[j] \in C
    BY <1>1, <2>1, ElementOfSeq
  <2> QED
    BY <1>1, <2>1, <2>2, SubSeqProperties
<1>4. \A k \in 1..m : f[k] = text(k)
  <2> DEFINE S == {k \in 1..m : f[k] = text(k)}
  <2>1. m > 0 => 1 \in S
    <3>0. SUFFICES ASSUME m > 0 PROVE 1 \in S
      OBVIOUS
    <3>1. 1 \in 1..m /\ 1 - 1 = 0 /\ 0 + 1 = 1
      BY <1>1, <3>0
    <3>2. seqs[1] = SubSeq(r, pos[1 - 1] + 1, pos[1])
      BY <3>1
    <3>3. f[1] = text(1)
      BY <1>2, <3>1, <3>2
    <3> QED
      BY <3>1, <3>3
  <2>2. ASSUME NEW k \in 1..m - 1, k \in S PROVE k + 1 \in S
    <3>1. k \in 0..m /\ k + 1 \in 1..m /\ k + 1 \in 2..l /\ (k + 1) - 1 = k /\ k + 1 \in 0..m
      BY <1>1
    <3>2. f[k + 1] = text(k) \o SubSeq(r, pos[k] + 1, pos[k + 1])
      BY <1>2, <2>2, <3>1
    <3>3. pos[k] \in 0..Len(r) /\ pos[k + 1] \in pos[k]..Len(r)
      <4>1. pos[k] \in 0..Len(r) /\ pos[k + 1] \in 0..Len(r)
        BY <3>1
      <4>2. pos[(k + 1) - 1] <= pos[k + 1]
        BY <3>1
      <4> QED
        BY <1>1, <3>1, <4>1, <4>2
    <3>4. 1 \in 1..Len(r) + 1 /\ pos[k] \in 1 - 1..Len(r)
      BY <1>1, <3>3
    <3>5. text(k) \o SubSeq(r, pos[k] + 1, pos[k + 1]) = SubSeq(r, 1, pos[k + 1])
      BY <3>3, <3>4, ConcatAdjacentSubSeq
    <3> QED
      BY <3>1, <3>2, <3>5
  <2>3. m > 0 => 1..m \subseteq S
    <3> HIDE DEF S
    <3>1. 1 \in Nat
      OBVIOUS
    <3> QED
      BY <1>1, <2>1, <2>2, <3>1, StepByStep
  <2>4. m = 0 => 1..m = {}
    BY <1>1
  <2>5. 1..m \subseteq S
    <3> HIDE DEF S
    <3> QED
      BY <1>1, <2>3, <2>4
  <2> HIDE DEF text
  <2> QED
    BY <2>5
<1> HIDE DEF text
<1>5. ASSUME NEW a \in 1..l, f[a] \in Seq(C)
      PROVE  \A k \in a..l : f[k] \in Seq(C) /\ IsPrefix(f[a], f[k])
  <2> DEFINE S == {k \in a..l : f[k] \in Seq(C) /\ IsPrefix(f[a], f[k])}
  <2>1. a \in S
    BY <1>1, <1>5, PrefixAt, LenProperties
  <2>2. ASSUME NEW k \in a..l - 1, k \in S PROVE k + 1 \in S
    <3>1. k + 1 \in 2..l /\ (k + 1) - 1 = k /\ k + 1 \in 1..l /\ k + 1 \in a..l
      BY <1>1
    <3>2. f[k + 1] = f[k] \o seqs[k + 1] /\ seqs[k + 1] \in Seq(C) /\ f[k] \in Seq(C)
      BY <1>1, <1>2, <2>2, <3>1
    <3>3. PICK u, v : u = f[k] /\ v = seqs[k + 1]
      OBVIOUS
    <3>4. PICK w : w = f[a]
      OBVIOUS
    <3>5. u \in Seq(C) /\ v \in Seq(C) /\ w \in Seq(C) /\ f[k + 1] = u \o v /\ IsPrefix(w, u)
      BY <1>5, <2>2, <3>2, <3>3, <3>4
    <3>6. u \o v \in Seq(C) /\ IsPrefix(w, u \o v)
      BY <3>5, PrefixAdd
    <3> QED
      BY <3>1, <3>4, <3>5, <3>6
  <2>3. a..l \subseteq S
    <3> HIDE DEF S
    <3>1. a \in Nat
      BY <1>1
    <3> QED
      BY <1>1, <2>1, <2>2, <3>1, StepByStep
  <2> QED
    BY <2>3
<1>6. CASE m > 0
  <2>1. m \in 1..l /\ m \in 1..m /\ m \in 0..m /\ l \in m..l
    BY <1>1, <1>6
  <2>3. f[m] = text(m) /\ f[m] \in Seq(C)
    BY <1>3, <1>4, <2>1
  <2>2. f[l] \in Seq(C) /\ IsPrefix(f[m], f[l]) /\ f[m] = text(m)
    BY <1>5, <2>1, <2>3
  <2> QED
    BY <1>2, <2>2 DEF text, l
<1>7. CASE m = 0
  <2>1. 1 \in 1..l /\ l \in 1..l /\ f[1] \in Seq(C)
    BY <1>1, <1>2
  <2>2. f[l] \in Seq(C)
    BY <1>5, <2>1
  <2>3. text(m) \in Seq(C) /\ Len(text(m)) = 0
    BY <1>3, <1>7
  <2>4. IsPrefix(text(m), f[l])
    <3>1. PICK s, t : s = text(m) /\ t = f[l]
      OBVIOUS
    <3>2. s \in Seq(C) /\ t \in Seq(C) /\ Len(s) = 0 /\ Len(t) \in Nat
      BY <2>2, <2>3, <3>1, LenProperties
    <3>4. Len(s) <= Len(t) /\ \A j \in 1..Len(s) : s[j] = t[j]
      BY <3>2
    <3>3. IsPrefix(s, t)
      BY <3>2, <3>4, PrefixAt
    <3> QED
      BY <3>1, <3>3
  <2> QED
    BY <1>1, <1>2, <1>7, <2>2, <2>4 DEF text, l
<1> QED
  BY <1>1, <1>6, <1>7

-----------------------------------------------------------------------------
(* Counting parameters. *)

\* Count, token by token.
LEMMA CountStep ==
  ASSUME NEW p, NEW tok
  PROVE  /\ Count(p, 0, tok) = 0
         /\ \A k \in Nat : Count(p, k, tok) \in Nat
         /\ \A k \in Nat \ {0} :
              Count(p, k, tok) = Count(p, k - 1, tok) + IF p[k] = tok THEN 1 ELSE 0
         /\ \A k \in Nat : \A i \in 0..k : Count(p, i, tok) <= Count(p, k, tok)
<1> DEFINE at(k) == {j \in 1..k : p[j] = tok}
<1>1. \A k \in Nat : IsFiniteSet(at(k)) /\ Cardinality(at(k)) \in Nat
  <2> SUFFICES ASSUME NEW k \in Nat PROVE IsFiniteSet(at(k)) /\ Cardinality(at(k)) \in Nat
    OBVIOUS
  <2>1. IsFiniteSet(1..k) /\ at(k) \in SUBSET (1..k)
    BY FS_Interval
  <2>2. IsFiniteSet(at(k))
    BY <2>1, FS_Subset
  <2> QED
    BY <2>2, FS_CardinalityType
<1>2. at(0) = {}
  OBVIOUS
<1>3. ASSUME NEW k \in Nat \ {0}
      PROVE  Cardinality(at(k)) = Cardinality(at(k - 1)) + IF p[k] = tok THEN 1 ELSE 0
  <2>1. k - 1 \in Nat /\ k \notin at(k - 1)
    OBVIOUS
  <2>2. at(k) = IF p[k] = tok THEN at(k - 1) \cup {k} ELSE at(k - 1)
    OBVIOUS
  <2> HIDE DEF at
  <2>3. Cardinality(at(k - 1) \cup {k}) = Cardinality(at(k - 1)) + 1
    BY <1>1, <2>1, FS_AddElement
  <2> QED
    BY <1>1, <2>1, <2>2, <2>3
<1>4. ASSUME NEW k \in Nat, NEW i \in 0..k PROVE Cardinality(at(i)) <= Cardinality(at(k))
  <2>1. at(i) \in SUBSET at(k)
    OBVIOUS
  <2> HIDE DEF at
  <2> QED
    BY <1>1, <2>1, FS_Subset
<1>5. \A k : Count(p, k, tok) = Cardinality(at(k))
  BY DEF Count
<1> HIDE DEF at
<1> QED
  BY <1>1, <1>2, <1>3, <1>4, <1>5, FS_EmptySet

\* p and q are the same up to k.
Same(p, q, k) == \A j \in 1..k : p[j] = q[j]

\* Texts that are the same count the same.
LEMMA CountSame ==
  ASSUME NEW p, NEW q, NEW m \in Nat, Same(p, q, m), NEW tok
  PROVE  \A k \in 0..m : Count(p, k, tok) = Count(q, k, tok)
BY DEF Same, Count

-----------------------------------------------------------------------------
(* The way through a request that the search takes. *)

\* A slash follows every parameter.
Spaced(p) == \A k \in 1..Len(p) - 1 : p[k] \in Wild => p[k + 1] = Slash

\* The search reads r with the first m tokens of p: the k-th ends at pos[k], a
\* parameter before the next slash, and its span is the next of ps.
Laid(p, m, r, ps, pos) ==
  /\ pos \in [0..m -> 0..Len(r)] /\ pos[0] = 0
  /\ \A k \in 1..m :
       /\ p[k] # "*"
       /\ p[k] = ":" => /\ pos[k - 1] <= pos[k] /\ SlashFree(r, pos[k - 1] + 1, pos[k])
                        /\ pos[k] < Len(r) => r[pos[k] + 1] = Slash
                        /\ ps[Count(p, k, ":")] = <<pos[k - 1], pos[k]>>
       /\ p[k] \notin Wild => pos[k] = pos[k - 1] + 1 /\ r[pos[k]] = p[k]

\* The offsets never go back.
LEMMA LaidOrder ==
  ASSUME NEW p, NEW r, NEW m \in Nat, NEW ps, NEW pos, Len(r) \in Nat, Laid(p, m, r, ps, pos)
  PROVE  /\ \A k \in 1..m : pos[k - 1] <= pos[k]
         /\ \A k \in 0..m : pos[k] \in 0..Len(r) /\ pos[k] <= pos[m]
<1>1. ASSUME NEW k \in 1..m PROVE pos[k - 1] <= pos[k] /\ pos[k] \in 0..Len(r) /\ pos[k - 1] \in 0..Len(r)
  BY DEF Laid, Wild
<1>2. ASSUME NEW k \in 0..m PROVE pos[k] <= pos[m]
  <2> DEFINE S == {j \in k..m : pos[k] <= pos[j]}
  <2>1. k \in S
    BY DEF Laid
  <2>2. ASSUME NEW j \in k..m - 1, j \in S PROVE j + 1 \in S
    <3>1. j + 1 \in 1..m /\ (j + 1) - 1 = j /\ j + 1 \in k..m
      OBVIOUS
    <3>2. pos[j] <= pos[j + 1] /\ pos[j + 1] \in 0..Len(r) /\ pos[j] \in 0..Len(r) /\ pos[k] \in 0..Len(r)
      BY <1>1, <3>1 DEF Laid
    <3> QED
      BY <2>2, <3>1, <3>2
  <2> HIDE DEF S
  <2>0. k \in Nat
    OBVIOUS
  <2>3. k..m \subseteq S
    BY <2>0, <2>1, <2>2, StepByStep
  <2>4. m \in S
    BY <2>3
  <2> QED
    BY <2>4 DEF S
<1> QED
  BY <1>1, <1>2 DEF Laid

\* Nothing reaches further than the search did, and what falls short of it did
\* so in a parameter that a slash follows: it cannot go on.
LEMMA LaidIsFurthest ==
  ASSUME NEW p, NEW r, NEW m \in Nat, NEW ps, NEW pos, Len(p) \in Nat, Len(r) \in Nat, m <= Len(p),
         Spaced(p), Laid(p, m, r, ps, pos)
  PROVE  \A k \in 0..m : \A e \in Ends(p, r)[k] :
           e = pos[k] \/ (k > 0 /\ p[k] = ":" /\ e \in 0..pos[k] - 1 /\ r[e + 1] # Slash)
<1> DEFINE At(k, e) == e = pos[k] \/ (k > 0 /\ p[k] = ":" /\ e \in 0..pos[k] - 1 /\ r[e + 1] # Slash)
           S == {k \in 0..m : \A e \in Ends(p, r)[k] : At(k, e)}
<1>0. \A k \in 0..m : pos[k] \in 0..Len(r)
  BY LaidOrder
<1>1. 0 \in S
  <2>1. \A e \in Ends(p, r)[0] : e = pos[0]
    BY EndsStep DEF Laid
  <2>2. 0 \in 0..m
    OBVIOUS
  <2> QED
    BY <2>1, <2>2
<1>2. ASSUME NEW k \in 0..m - 1, k \in S PROVE k + 1 \in S
  <2>1. k + 1 \in 1..m /\ (k + 1) - 1 = k /\ k + 1 \in 1..Len(p) /\ k + 1 \in 0..m
    OBVIOUS
  <2>2. ASSUME NEW e \in Ends(p, r)[k + 1] PROVE At(k + 1, e)
    <3>1. PICK d \in Ends(p, r)[k] : e \in 0..Len(r) /\ Covers(p[k + 1], r, d, e)
      BY <2>1, <2>2, EndsStep
    <3>2. At(k, d)
      BY <1>2
    <3>3. pos[k] \in 0..Len(r) /\ pos[k + 1] \in 0..Len(r)
      BY <1>0, <2>1
    <3>4. /\ p[k + 1] # "*"
          /\ p[k + 1] = ":" => /\ pos[k] <= pos[k + 1] /\ SlashFree(r, pos[k] + 1, pos[k + 1])
                               /\ pos[k + 1] < Len(r) => r[pos[k + 1] + 1] = Slash
          /\ p[k + 1] \notin Wild => pos[k + 1] = pos[k] + 1 /\ r[pos[k + 1]] = p[k + 1]
      BY <2>1 DEF Laid
    \* Short of the search: only before a slash, which is not there.
    <3>5. CASE d # pos[k]
      <4>1. k > 0 /\ p[k] = ":" /\ d \in Nat /\ r[d + 1] # Slash
        BY <3>2, <3>3, <3>5
      <4>2. k \in 1..Len(p) - 1
        BY <4>1
      <4>3. p[k + 1] = Slash
        BY <4>1, <4>2 DEF Spaced, Wild
      <4>4. e = d + 1 /\ r[e] = Slash
        BY <3>1, <4>3 DEF Covers, Slash
      <4> QED
        BY <4>1, <4>4
    <3>6. CASE d = pos[k] /\ p[k + 1] = ":"
      <4>1. d <= e /\ SlashFree(r, d + 1, e)
        BY <3>1, <3>6 DEF Covers, Wild
      <4>2. ~(pos[k + 1] < e)
        <5> SUFFICES ASSUME pos[k + 1] < e PROVE FALSE
          OBVIOUS
        <5>1. r[pos[k + 1] + 1] = Slash /\ pos[k + 1] + 1 \in d + 1..e
          BY <3>1, <3>3, <3>4, <3>6
        <5> QED
          BY <4>1, <5>1 DEF SlashFree
      <4>3. e < pos[k + 1] => r[e + 1] # Slash
        <5> SUFFICES ASSUME e < pos[k + 1] PROVE r[e + 1] # Slash
          OBVIOUS
        <5>1. e + 1 \in pos[k] + 1..pos[k + 1]
          BY <3>1, <3>3, <3>6, <4>1
        <5> QED
          BY <3>4, <3>6, <5>1 DEF SlashFree
      <4>4. e = pos[k + 1] \/ e \in 0..pos[k + 1] - 1
        BY <3>1, <3>3, <4>2
      <4>5. e \in 0..pos[k + 1] - 1 => e < pos[k + 1]
        BY <3>3
      <4>6. CASE e = pos[k + 1]
        BY <4>6
      <4>7. CASE e \in 0..pos[k + 1] - 1
        <5>1. k + 1 > 0 /\ r[e + 1] # Slash
          BY <4>3, <4>5, <4>7
        <5> QED
          BY <3>6, <4>7, <5>1
      <4> QED
        BY <4>4, <4>6, <4>7
    <3>7. CASE d = pos[k] /\ p[k + 1] # ":"
      <4>1. p[k + 1] \notin Wild
        BY <3>4, <3>7 DEF Wild
      <4>2. e = d + 1
        BY <3>1, <4>1 DEF Covers, Wild
      <4>3. e = pos[k + 1]
        BY <3>4, <3>7, <4>1, <4>2
      <4> QED
        BY <4>3
    <3> QED
      BY <3>5, <3>6, <3>7
  <2> HIDE DEF At
  <2> QED
    BY <2>1, <2>2
<1>3. 0..m \subseteq S
  <2> HIDE DEF S
  <2>1. 0 \in Nat
    OBVIOUS
  <2> QED
    BY <1>1, <1>2, <2>1, StepByStep
<1> QED
  BY <1>3

\* Where no end is left none comes back.
LEMMA EndsStayEmpty ==
  ASSUME NEW p, NEW r, Len(p) \in Nat, NEW m \in 0..Len(p), Ends(p, r)[m] = {}
  PROVE  \A k \in m..Len(p) : Ends(p, r)[k] = {}
<1> DEFINE S == {k \in m..Len(p) : Ends(p, r)[k] = {}}
<1>1. m \in S
  OBVIOUS
<1>2. ASSUME NEW k \in m..Len(p) - 1, k \in S PROVE k + 1 \in S
  <2>1. k + 1 \in 1..Len(p) /\ (k + 1) - 1 = k /\ k + 1 \in m..Len(p) /\ Ends(p, r)[k] = {}
    BY <1>2
  <2>2. \A e : e \notin Ends(p, r)[k + 1]
    BY <2>1, EndsStep
  <2> QED
    BY <2>1, <2>2
<1>3. m..Len(p) \subseteq S
  <2> HIDE DEF S
  <2>1. m \in Nat
    OBVIOUS
  <2> QED
    BY <1>1, <1>2, <2>1, StepByStep
<1> QED
  BY <1>3

\* A search that stands before a token which is not what the request goes on
\* with is on the way to no match of that route, nor, with text left, of a
\* continuation.
LEMMA Stuck ==
  ASSUME NEW p, NEW r, NEW m \in Nat, NEW ps, NEW pos, Len(p) \in Nat, Len(r) \in Nat, m < Len(p),
         Spaced(p), Laid(p, m, r, ps, pos), p[m + 1] \notin Wild,
         ~(pos[m] < Len(r) /\ r[pos[m] + 1] = p[m + 1])
  PROVE  ~Matches(p, r) /\ (pos[m] < Len(r) => ~Extendable(p, r))
<1>1. \A k \in 0..m : pos[k] \in 0..Len(r) /\ pos[k] <= pos[m]
  BY LaidOrder
<1>2. \A k \in 0..m : \A e \in Ends(p, r)[k] :
        e = pos[k] \/ (k > 0 /\ p[k] = ":" /\ e \in 0..pos[k] - 1 /\ r[e + 1] # Slash)
  <2>1. m <= Len(p)
    OBVIOUS
  <2> QED
    BY <2>1, LaidIsFurthest
<1>3. Ends(p, r)[m + 1] = {}
  <2> SUFFICES ASSUME NEW e, e \in Ends(p, r)[m + 1] PROVE FALSE
    OBVIOUS
  <2>1. m + 1 \in 1..Len(p) /\ (m + 1) - 1 = m
    OBVIOUS
  <2>2. PICK d \in Ends(p, r)[m] : e \in 0..Len(r) /\ Covers(p[m + 1], r, d, e)
    BY <2>1, EndsStep
  <2>3. e = d + 1 /\ r[e] = p[m + 1]
    BY <2>2 DEF Covers, Wild
  <2>4. CASE d = pos[m]
    BY <1>1, <2>2, <2>3, <2>4
  <2>5. CASE d # pos[m]
    <3>1. m > 0 /\ p[m] = ":" /\ r[d + 1] # Slash
      BY <1>2, <2>2, <2>5
    <3>2. p[m + 1] = Slash
      BY <3>1 DEF Spaced, Wild
    <3> QED
      BY <2>3, <3>1, <3>2
  <2> QED
    BY <2>4, <2>5
<1>4. \A k \in m + 1..Len(p) : Ends(p, r)[k] = {}
  BY <1>3, EndsStayEmpty
<1>5. ~Matches(p, r)
  BY <1>4 DEF Matches
<1>6. ASSUME pos[m] < Len(r), NEW k \in 0..Len(p) PROVE Len(r) \notin Ends(p, r)[k]
  <2>1. CASE k <= m
    <3>1. pos[k] \in 0..Len(r) /\ pos[k] < Len(r) /\ k \in 0..m
      BY <1>1, <1>6, <2>1
    <3> QED
      BY <1>2, <3>1
  <2>2. CASE k > m
    BY <1>4, <2>2
  <2> QED
    BY <2>1, <2>2
<1> QED
  BY <1>5, <1>6 DEF Extendable

\* A request that goes on after the end of a route is no match of it.
LEMMA TooLong ==
  ASSUME NEW p, NEW r, NEW ps, NEW pos, Len(p) \in Nat, Len(r) \in Nat,
         Spaced(p), Laid(p, Len(p), r, ps, pos), pos[Len(p)] < Len(r)
  PROVE  ~Matches(p, r) /\ ~Extendable(p, r)
<1>0. PICK l \in Nat : l = Len(p)
  OBVIOUS
<1>1. \A k \in 0..l : pos[k] \in 0..Len(r) /\ pos[k] <= pos[l]
  BY <1>0, LaidOrder
<1>2. \A k \in 0..l : \A e \in Ends(p, r)[k] :
        e = pos[k] \/ (k > 0 /\ p[k] = ":" /\ e \in 0..pos[k] - 1 /\ r[e + 1] # Slash)
  <2>1. l <= Len(p) /\ Laid(p, l, r, ps, pos)
    BY <1>0
  <2> QED
    BY <1>0, <2>1, LaidIsFurthest
<1>3. ASSUME NEW k \in 0..l PROVE Len(r) \notin Ends(p, r)[k]
  <2>1. pos[k] \in 0..Len(r) /\ pos[k] < Len(r)
    BY <1>0, <1>1
  <2> QED
    BY <1>2, <2>1
<1> QED
  BY <1>0, <1>3 DEF Matches, Extendable

\* The first m tokens of p read r up to o, with the parameters in ps.
Reaches(p, m, r, ps, o) ==
  /\ \E pos : Laid(p, m, r, ps, pos) /\ pos[m] = o
  /\ Len(ps) = Count(p, m, ":")

\* Before the first token nothing has been read.
LEMMA ReachNothing ==
  ASSUME NEW p, NEW r, Len(r) \in Nat
  PROVE  Reaches(p, 0, r, <<>>, 0)
<1> DEFINE pos == [k \in 0..0 |-> 0]
<1>1. pos \in [0..0 -> 0..Len(r)] /\ pos[0] = 0
  OBVIOUS
<1> HIDE DEF pos
<1>2. Laid(p, 0, r, <<>>, pos)
  BY <1>1 DEF Laid
<1>3. Len(<<>>) = 0
  OBVIOUS
<1> QED
  BY <1>1, <1>2, <1>3, CountStep DEF Reaches

\* A route that begins the same way reads the same.
LEMMA ReachSame ==
  ASSUME NEW p, NEW q, NEW r, NEW m \in Nat, NEW ps, NEW o, Same(p, q, m), Reaches(p, m, r, ps, o)
  PROVE  Reaches(q, m, r, ps, o)
<1>1. PICK pos : Laid(p, m, r, ps, pos) /\ pos[m] = o
  BY DEF Reaches
<1>2. \A k \in 0..m : Count(p, k, ":") = Count(q, k, ":")
  BY CountSame
<1>3. Laid(q, m, r, ps, pos)
  <2>1. \A k \in 1..m : p[k] = q[k] /\ Count(p, k, ":") = Count(q, k, ":")
    BY <1>2 DEF Same
  <2> QED
    BY <1>1, <2>1 DEF Laid
<1> QED
  BY <1>1, <1>2, <1>3 DEF Reaches

\* Static tokens count as no parameter.
LEMMA CountStatic ==
  ASSUME NEW p, NEW tok, NEW m \in Nat, NEW n \in Nat, m <= n,
         \A k \in m + 1..n : p[k] # tok
  PROVE  Count(p, n, tok) = Count(p, m, tok)
<1>1. {j \in 1..n : p[j] = tok} = {j \in 1..m : p[j] = tok}
  OBVIOUS
<1> QED
  BY <1>1 DEF Count

\* One more capture does not touch those there are.
LEMMA LaidAppend ==
  ASSUME NEW p, NEW r, NEW m \in Nat, NEW ps \in Seq(Span), NEW x \in Span, NEW pos,
         Laid(p, m, r, ps, pos), Len(ps) = Count(p, m, ":")
  PROVE  Laid(p, m, r, Append(ps, x), pos)
<1> DEFINE qs == Append(ps, x)
<1>1. /\ Len(ps) \in Nat /\ \A i \in 1..Len(ps) : qs[i] = ps[i]
  BY AppendProperties, LenProperties
<1> HIDE DEF qs
<1>2. ASSUME NEW k \in 1..m, p[k] = ":" PROVE Count(p, k, ":") \in 1..Len(ps)
  <2>1. k \in Nat \ {0} /\ k - 1 \in Nat /\ k \in 0..m
    OBVIOUS
  <2>2. /\ Count(p, k, ":") = Count(p, k - 1, ":") + 1 /\ Count(p, k - 1, ":") \in Nat
        /\ Count(p, k, ":") <= Count(p, m, ":")
    BY <1>2, <2>1, CountStep
  <2> QED
    BY <1>1, <2>2
<1>3. \A k \in 1..m : p[k] = ":" => qs[Count(p, k, ":")] = ps[Count(p, k, ":")]
  BY <1>1, <1>2
<1>4. Laid(p, m, r, qs, pos)
  BY <1>3 DEF Laid
<1> QED
  BY <1>4 DEF qs

\* The search captures a parameter up to the next slash.
LEMMA ReachParam ==
  ASSUME NEW p, NEW r, NEW m \in Nat, NEW ps \in Seq(Span), NEW o \in Nat, NEW e \in o..Len(r),
         Len(r) \in Nat, Reaches(p, m, r, ps, o), p[m + 1] = ":",
         SlashFree(r, o + 1, e), e < Len(r) => r[e + 1] = Slash
  PROVE  Reaches(p, m + 1, r, Append(ps, <<o, e>>), e)
<1> DEFINE qs == Append(ps, <<o, e>>)
<1>1. PICK pos : Laid(p, m, r, ps, pos) /\ pos[m] = o
  BY DEF Reaches
<1>2. <<o, e>> \in Span
  BY DEF Span
<1>3. Len(ps) = Count(p, m, ":")
  BY DEF Reaches
<1>4. /\ Count(p, m + 1, ":") = Len(ps) + 1 /\ Len(qs) = Len(ps) + 1 /\ qs[Len(ps) + 1] = <<o, e>>
  <2>1. m + 1 \in Nat \ {0} /\ (m + 1) - 1 = m
    OBVIOUS
  <2>2. Count(p, m + 1, ":") = Count(p, m, ":") + 1
    <3>1. Count(p, m + 1, ":") = Count(p, (m + 1) - 1, ":") + IF p[m + 1] = ":" THEN 1 ELSE 0
      BY <2>1, CountStep
    <3> QED
      BY <2>1, <3>1
  <2>3. Len(qs) = Len(ps) + 1 /\ qs[Len(ps) + 1] = <<o, e>>
    BY <1>2, AppendProperties
  <2> HIDE DEF qs
  <2> QED
    BY <1>3, <2>2, <2>3
<1>5. Laid(p, m, r, qs, pos)
  BY <1>1, <1>2, <1>3, LaidAppend
<1> HIDE DEF qs
<1> DEFINE end == [k \in 0..m + 1 |-> IF k = m + 1 THEN e ELSE pos[k]]
<1>6. /\ end \in [0..m + 1 -> 0..Len(r)] /\ end[m + 1] = e
      /\ \A k \in 0..m : end[k] = pos[k]
  BY <1>1 DEF Laid
<1> HIDE DEF end
<1>7. Laid(p, m + 1, r, qs, end)
  <2>1. end[0] = 0
    BY <1>1, <1>6 DEF Laid
  <2>2. ASSUME NEW k \in 1..m + 1
        PROVE /\ p[k] # "*"
              /\ p[k] = ":" => /\ end[k - 1] <= end[k] /\ SlashFree(r, end[k - 1] + 1, end[k])
                               /\ end[k] < Len(r) => r[end[k] + 1] = Slash
                               /\ qs[Count(p, k, ":")] = <<end[k - 1], end[k]>>
              /\ p[k] \notin Wild => end[k] = end[k - 1] + 1 /\ r[end[k]] = p[k]
    <3>1. CASE k = m + 1
      <4>1. end[k - 1] = o /\ end[k] = e /\ p[k] = ":"
        BY <1>1, <1>6, <3>1
      <4> QED
        BY <1>4, <3>1, <4>1 DEF Wild
    <3>2. CASE k # m + 1
      <4>1. k \in 1..m /\ end[k - 1] = pos[k - 1] /\ end[k] = pos[k]
        BY <1>6, <3>2
      <4> QED
        BY <1>5, <4>1 DEF Laid
    <3> QED
      BY <3>1, <3>2
  <2> QED
    BY <1>6, <2>1, <2>2 DEF Laid
<1> QED
  BY <1>4, <1>6, <1>7 DEF Reaches, qs

\* It reads static text that is there.
LEMMA ReachStatic ==
  ASSUME NEW p, NEW r, NEW m \in Nat, NEW n \in Nat, m <= n, NEW ps, NEW o \in Nat,
         Len(r) \in Nat, o + (n - m) <= Len(r), Reaches(p, m, r, ps, o),
         \A k \in m + 1..n : p[k] \notin Wild /\ r[o + (k - m)] = p[k]
  PROVE  Reaches(p, n, r, ps, o + (n - m))
<1>1. PICK pos : Laid(p, m, r, ps, pos) /\ pos[m] = o
  BY DEF Reaches
<1>2. Count(p, n, ":") = Count(p, m, ":")
  <2>1. \A k \in m + 1..n : p[k] # ":"
    BY DEF Wild
  <2> QED
    BY <2>1, CountStatic
<1> DEFINE end == [k \in 0..n |-> IF k <= m THEN pos[k] ELSE o + (k - m)]
<1>3. /\ end \in [0..n -> 0..Len(r)] /\ end[n] = o + (n - m)
      /\ \A k \in 0..m : end[k] = pos[k]
      /\ \A k \in m + 1..n : end[k] = o + (k - m) /\ end[k - 1] = o + (k - m) - 1
  <2>1. \A k \in 0..m : pos[k] \in 0..Len(r)
    BY <1>1 DEF Laid
  <2>2. ASSUME NEW k \in 0..n PROVE (IF k <= m THEN pos[k] ELSE o + (k - m)) \in 0..Len(r)
    BY <2>1
  <2>3. end[n] = o + (n - m)
    BY <1>1
  <2>4. ASSUME NEW k \in m + 1..n PROVE end[k] = o + (k - m) /\ end[k - 1] = o + (k - m) - 1
    BY <1>1
  <2>5. end \in [0..n -> 0..Len(r)]
    BY <2>2
  <2>6. \A k \in 0..m : end[k] = pos[k]
    OBVIOUS
  <2> HIDE DEF end
  <2> QED
    BY <2>3, <2>4, <2>5, <2>6
<1> HIDE DEF end
<1>4. Laid(p, n, r, ps, end)
  <2>1. end[0] = 0
    BY <1>1, <1>3 DEF Laid
  <2>2. ASSUME NEW k \in 1..n
        PROVE /\ p[k] # "*"
              /\ p[k] = ":" => /\ end[k - 1] <= end[k] /\ SlashFree(r, end[k - 1] + 1, end[k])
                               /\ end[k] < Len(r) => r[end[k] + 1] = Slash
                               /\ ps[Count(p, k, ":")] = <<end[k - 1], end[k]>>
              /\ p[k] \notin Wild => end[k] = end[k - 1] + 1 /\ r[end[k]] = p[k]
    <3>1. CASE k > m
      <4>1. k \in m + 1..n
        BY <3>1
      <4>2. p[k] \notin Wild /\ end[k] = end[k - 1] + 1 /\ r[end[k]] = p[k]
        BY <1>3, <4>1
      <4> QED
        BY <4>2 DEF Wild
    <3>2. CASE k <= m
      <4>0. k \in 1..m /\ k \in 0..m /\ k - 1 \in 0..m
        BY <3>2
      <4>1. end[k - 1] = pos[k - 1] /\ end[k] = pos[k]
        BY <1>3, <4>0
      <4> QED
        BY <1>1, <4>0, <4>1 DEF Laid
    <3> QED
      BY <3>1, <3>2
  <2> QED
    BY <1>3, <2>1, <2>2 DEF Laid
<1> QED
  BY <1>2, <1>3, <1>4 DEF Reaches

-----------------------------------------------------------------------------
(* What a route spells. *)

\* What the i-th token of the route p stands for.
Piece(p, r, ps, w, i) ==
  CASE p[i] = ":" -> SubSeq(r, ps[Count(p, i, ":")][1] + 1, ps[Count(p, i, ":")][2])
    [] p[i] = "*" -> SubSeq(r, w[1] + 1, w[2])
    [] OTHER      -> <<p[i]>>

\* The text a route spells is its pieces, one after the other.
LEMMA FillPieces ==
  ASSUME NEW p, NEW r, NEW ps, NEW w
  PROVE  Fill(p, r, ps, w) = FlattenSeq([i \in 1..Len(p) |-> Piece(p, r, ps, w, i)])
BY DEF Fill, Piece

\* The route spells the request up to o.
SpellsUpTo(p, r, ps, w, o) == Fill(p, r, ps, w) = SubSeq(r, 1, o)

\* Pieces that follow one another in the request spell a beginning of it.
LEMMA FillBegins ==
  ASSUME NEW p \in Seq(Token), NEW r \in Seq(Token), NEW ps, NEW w, Len(p) > 0, NEW m \in 0..Len(p),
         NEW pos \in [0..m -> 0..Len(r)], pos[0] = 0,
         \A k \in 1..m : /\ pos[k - 1] <= pos[k]
                         /\ Piece(p, r, ps, w, k) = SubSeq(r, pos[k - 1] + 1, pos[k]),
         \A k \in m + 1..Len(p) : Piece(p, r, ps, w, k) \in Seq(Token)
  PROVE  /\ Fill(p, r, ps, w) \in Seq(Token)
         /\ IsPrefix(SubSeq(r, 1, pos[m]), Fill(p, r, ps, w))
         /\ m = Len(p) => SpellsUpTo(p, r, ps, w, pos[m])
<1>0. PICK l \in Nat : l = Len(p) /\ l > 0
  BY LenProperties
<1> DEFINE s == [i \in 1..l |-> Piece(p, r, ps, w, i)]
<1>1. \A k \in 1..l : s[k] = Piece(p, r, ps, w, k)
  OBVIOUS
<1>2. Fill(p, r, ps, w) = FlattenSeq(s)
  BY <1>0, FillPieces
<1>3. Len(r) \in Nat
  BY LenProperties
<1>4. \A k \in 1..l : Piece(p, r, ps, w, k) \in Seq(Token)
  <2> SUFFICES ASSUME NEW k \in 1..l PROVE Piece(p, r, ps, w, k) \in Seq(Token)
    OBVIOUS
  <2>1. CASE k \in 1..m
    <3>1. pos[k - 1] \in 0..Len(r) /\ pos[k] \in 0..Len(r)
      BY <2>1
    <3>2. \A j \in pos[k - 1] + 1..pos[k] : r[j] \in Token
      <4>1. \A j \in pos[k - 1] + 1..pos[k] : j \in 1..Len(r)
        BY <1>3, <3>1
      <4> QED
        BY <4>1, ElementOfSeq
    <3>3. SubSeq(r, pos[k - 1] + 1, pos[k]) \in Seq(Token)
      BY <3>1, <3>2, SubSeqProperties
    <3> QED
      BY <2>1, <3>3
  <2>2. CASE k \notin 1..m
    <3>1. k \in m + 1..Len(p)
      BY <1>0, <2>2
    <3> QED
      BY <3>1
  <2> QED
    BY <2>1, <2>2
<1>5. s \in Seq(Seq(Token)) /\ Len(s) = l
  <2>1. \A k \in 1..l : s[k] \in Seq(Token)
    BY <1>1, <1>4
  <2>2. s = [i \in 1..l |-> s[i]] /\ DOMAIN s = 1..l
    OBVIOUS
  <2> HIDE DEF s
  <2> QED
    BY <1>0, <2>1, <2>2
<1> HIDE DEF s
<1>6. \A k \in 1..m : pos[k - 1] <= pos[k] /\ s[k] = SubSeq(r, pos[k - 1] + 1, pos[k])
  <2>1. \A k \in 1..m : k \in 1..l
    BY <1>0
  <2> QED
    BY <1>1, <2>1
<1>7. m \in 0..Len(s) /\ Len(s) > 0
  BY <1>0, <1>5
<1>8. /\ FlattenSeq(s) \in Seq(Token)
      /\ IsPrefix(SubSeq(r, 1, pos[m]), FlattenSeq(s))
      /\ m = Len(s) => FlattenSeq(s) = SubSeq(r, 1, pos[m])
  BY <1>5, <1>6, <1>7, Pieces
<1> QED
  BY <1>0, <1>2, <1>5, <1>8 DEF SpellsUpTo

\* What the search read is what these tokens stand for.
LEMMA LaidPieces ==
  ASSUME NEW p \in Seq(Token), NEW r \in Seq(Token), NEW m \in 0..Len(p), NEW ps, NEW w, NEW pos,
         Laid(p, m, r, ps, pos)
  PROVE  \A k \in 1..m : /\ pos[k - 1] <= pos[k]
                         /\ Piece(p, r, ps, w, k) = SubSeq(r, pos[k - 1] + 1, pos[k])
<1>0. Len(r) \in Nat /\ m \in Nat /\ Len(p) \in Nat
  BY LenProperties
<1>1. \A k \in 1..m : pos[k - 1] <= pos[k]
  BY <1>0, LaidOrder
<1> SUFFICES ASSUME NEW k \in 1..m
             PROVE  Piece(p, r, ps, w, k) = SubSeq(r, pos[k - 1] + 1, pos[k])
  BY <1>1
<1>2. pos[k - 1] \in 0..Len(r) /\ pos[k] \in 0..Len(r) /\ p[k] # "*"
  BY DEF Laid
<1>3. CASE p[k] = ":"
  <2>1. ps[Count(p, k, ":")] = <<pos[k - 1], pos[k]>>
    BY <1>3 DEF Laid
  <2>2. Piece(p, r, ps, w, k) = SubSeq(r, ps[Count(p, k, ":")][1] + 1, ps[Count(p, k, ":")][2])
    BY <1>3 DEF Piece
  <2>3. PICK x : x = ps[Count(p, k, ":")]
    OBVIOUS
  <2>4. x[1] = pos[k - 1] /\ x[2] = pos[k]
    BY <2>1, <2>3
  <2> QED
    BY <2>2, <2>3, <2>4
<1>4. CASE p[k] # ":"
  <2>1. p[k] \notin Wild /\ p[k] \in Token
    BY <1>0, <1>2, <1>4, ElementOfSeq DEF Wild
  <2>2. pos[k] = pos[k - 1] + 1 /\ r[pos[k]] = p[k]
    BY <2>1 DEF Laid
  <2>3. PICK s : s = SubSeq(r, pos[k - 1] + 1, pos[k])
    OBVIOUS
  <2>4. s \in Seq(Token) /\ Len(s) = 1 /\ s[1] = p[k]
    <3>1. \A j \in pos[k]..pos[k] : r[j] \in Token
      BY <1>2, <2>1, <2>2
    <3>2. /\ SubSeq(r, pos[k], pos[k]) \in Seq(Token) /\ Len(SubSeq(r, pos[k], pos[k])) = 1
          /\ SubSeq(r, pos[k], pos[k])[1] = r[pos[k]]
      BY <1>2, <3>1, SubSeqProperties
    <3> QED
      BY <2>2, <2>3, <3>2
  <2>5. s = <<p[k]>>
    <3>1. <<p[k]>> \in Seq(Token) /\ Len(<<p[k]>>) = 1 /\ <<p[k]>>[1] = p[k]
      BY <2>1
    <3> QED
      BY <2>4, <3>1, SeqEqual
  <2>6. Piece(p, r, ps, w, k) = <<p[k]>>
    BY <1>2, <1>4 DEF Piece
  <2> QED
    BY <2>3, <2>5, <2>6
<1> QED
  BY <1>3, <1>4

\* The route that was read to its end spells what was read.
LEMMA SpellsAll ==
  ASSUME NEW p \in Seq(Token), NEW r \in Seq(Token), Len(p) > 0, NEW ps, NEW w, NEW o,
         Reaches(p, Len(p), r, ps, o)
  PROVE  Fill(p, r, ps, w) = SubSeq(r, 1, o)
<1>0. Len(p) \in Nat /\ Len(p) \in 0..Len(p)
  BY LenProperties
<1>1. PICK pos : Laid(p, Len(p), r, ps, pos) /\ pos[Len(p)] = o
  BY DEF Reaches
<1>2. \A k \in 1..Len(p) : /\ pos[k - 1] <= pos[k]
                           /\ Piece(p, r, ps, w, k) = SubSeq(r, pos[k - 1] + 1, pos[k])
  <2>1. PICK m : m = Len(p)
    OBVIOUS
  <2>2. m \in 0..Len(p) /\ Laid(p, m, r, ps, pos)
    BY <1>0, <1>1, <2>1
  <2>3. \A k \in 1..m : /\ pos[k - 1] <= pos[k]
                        /\ Piece(p, r, ps, w, k) = SubSeq(r, pos[k - 1] + 1, pos[k])
    BY <2>2, LaidPieces
  <2> QED
    BY <2>1, <2>3
<1>3. pos \in [0..Len(p) -> 0..Len(r)] /\ pos[0] = 0
  BY <1>1 DEF Laid
<1>4. \A k \in Len(p) + 1..Len(p) : Piece(p, r, ps, w, k) \in Seq(Token)
  BY <1>0
<1>5. SpellsUpTo(p, r, ps, w, pos[Len(p)])
  BY <1>0, <1>2, <1>3, <1>4, FillBegins
<1> QED
  BY <1>1, <1>5 DEF SpellsUpTo

\* The request ran out before static text and a last parameter: the route then
\* spells more than was asked for.
LEMMA SpellsMore ==
  ASSUME NEW p \in Seq(Token), NEW r \in Seq(Token), NEW m \in 0..Len(p) - 1, NEW ps \in Seq(Span),
         NEW w, Reaches(p, m, r, ps, Len(r)), \A k \in m + 1..Len(p) - 1 : p[k] \notin Wild,
         p[Len(p)] = ":"
  PROVE  IsPrefix(r, Fill(p, r, Append(ps, <<Len(r), Len(r)>>), w))
<1>0. PICK l \in Nat : l = Len(p)
  BY LenProperties
<1>1. PICK pos : Laid(p, m, r, ps, pos) /\ pos[m] = Len(r)
  BY DEF Reaches
<1> DEFINE qs == Append(ps, <<Len(r), Len(r)>>)
<1>2. Len(r) \in Nat /\ <<Len(r), Len(r)>> \in Span /\ Len(ps) \in Nat
  BY LenProperties DEF Span
<1>3. Len(ps) = Count(p, m, ":")
  BY DEF Reaches
<1>4. Laid(p, m, r, qs, pos)
  BY <1>0, <1>1, <1>2, <1>3, LaidAppend
<1>5. qs[Count(p, l, ":")] = <<Len(r), Len(r)>>
  <2>1. l \in Nat \ {0} /\ l - 1 \in Nat /\ m <= l - 1 /\ m \in Nat
    BY <1>0
  <2>2. Count(p, l, ":") = Count(p, l - 1, ":") + 1
    BY <1>0, <2>1, CountStep
  <2>3. \A k \in m + 1..l - 1 : p[k] # ":"
    BY <1>0 DEF Wild
  <2>4. Count(p, l - 1, ":") = Count(p, m, ":")
    BY <2>1, <2>3, CountStatic
  <2>5. qs[Len(ps) + 1] = <<Len(r), Len(r)>>
    BY <1>2, AppendProperties
  <2> HIDE DEF qs
  <2> QED
    BY <1>3, <2>2, <2>4, <2>5
<1> HIDE DEF qs
<1>6. \A k \in 1..m : /\ pos[k - 1] <= pos[k]
                      /\ Piece(p, r, qs, w, k) = SubSeq(r, pos[k - 1] + 1, pos[k])
  <2>1. m \in 0..Len(p)
    BY <1>0
  <2> QED
    BY <1>4, <2>1, LaidPieces
<1>7. ASSUME NEW k \in m + 1..Len(p) PROVE Piece(p, r, qs, w, k) \in Seq(Token)
  <2>1. CASE k = l
    <3>1. Piece(p, r, qs, w, k) = SubSeq(r, Len(r) + 1, Len(r))
      BY <1>0, <1>5, <2>1 DEF Piece
    <3>2. SubSeq(r, Len(r) + 1, Len(r)) = <<>>
      BY <1>2, SubSeqEmpty
    <3> QED
      BY <3>1, <3>2
  <2>2. CASE k # l
    <3>1. p[k] \notin Wild /\ p[k] \in Token
      <4>1. k \in m + 1..Len(p) - 1 /\ k \in 1..Len(p)
        BY <1>0, <2>2
      <4> QED
        BY <4>1, ElementOfSeq
    <3>2. Piece(p, r, qs, w, k) = <<p[k]>>
      BY <3>1 DEF Piece, Wild
    <3> QED
      BY <3>1, <3>2
  <2> QED
    BY <2>1, <2>2
<1>8. pos \in [0..m -> 0..Len(r)] /\ pos[0] = 0 /\ m \in 0..Len(p) /\ Len(p) > 0
  BY <1>0, <1>1 DEF Laid
<1>9. IsPrefix(SubSeq(r, 1, pos[m]), Fill(p, r, qs, w))
  BY <1>6, <1>7, <1>8, FillBegins
<1>10. SubSeq(r, 1, pos[m]) = r
  BY <1>1, SubSeqFull
<1> QED
  BY <1>9, <1>10 DEF qs

\* A catch-all takes the rest, and nothing is left.
LEMMA SpellsRest ==
  ASSUME NEW p \in Seq(Token), NEW r \in Seq(Token), NEW m \in 0..Len(p) - 1, NEW ps,
         NEW o, Reaches(p, m, r, ps, o), \A k \in m + 1..Len(p) - 1 : p[k] \notin Wild,
         p[Len(p)] = "*", m = Len(p) - 1 \/ o = Len(r)
  PROVE  IsPrefix(r, Fill(p, r, ps, <<o, Len(r)>>))
<1>0. PICK l \in Nat : l = Len(p) /\ l > 0
  BY LenProperties
<1>1. PICK pos : Laid(p, m, r, ps, pos) /\ pos[m] = o
  BY DEF Reaches
<1> DEFINE w == <<o, Len(r)>>
<1>2. Len(r) \in Nat /\ w[1] = o /\ w[2] = Len(r) /\ o \in 0..Len(r)
  BY <1>1, LenProperties DEF Laid
<1> HIDE DEF w
<1>6. \A k \in 1..m : /\ pos[k - 1] <= pos[k]
                      /\ Piece(p, r, ps, w, k) = SubSeq(r, pos[k - 1] + 1, pos[k])
  <2>1. m \in 0..Len(p)
    BY <1>0
  <2> QED
    BY <1>1, <2>1, LaidPieces
<1>7. Piece(p, r, ps, w, l) = SubSeq(r, o + 1, Len(r))
  BY <1>0, <1>2 DEF Piece
<1>8. pos \in [0..m -> 0..Len(r)] /\ pos[0] = 0 /\ m \in 0..Len(p) /\ Len(p) > 0
  BY <1>0, <1>1 DEF Laid
<1>9. CASE o = Len(r)
  <2>1. ASSUME NEW k \in m + 1..Len(p) PROVE Piece(p, r, ps, w, k) \in Seq(Token)
    <3>1. CASE k = l
      <4>1. SubSeq(r, Len(r) + 1, Len(r)) = <<>>
        BY <1>2, SubSeqEmpty
      <4> QED
        BY <1>7, <1>9, <3>1, <4>1
    <3>2. CASE k # l
      <4>1. k \in m + 1..Len(p) - 1 /\ k \in 1..Len(p)
        BY <1>0, <3>2
      <4>2. p[k] \notin Wild /\ p[k] \in Token
        BY <4>1, ElementOfSeq
      <4>3. Piece(p, r, ps, w, k) = <<p[k]>>
        BY <4>2 DEF Piece, Wild
      <4> QED
        BY <4>2, <4>3
    <3> QED
      BY <3>1, <3>2
  <2>2. IsPrefix(SubSeq(r, 1, pos[m]), Fill(p, r, ps, w))
    BY <1>6, <1>8, <2>1, FillBegins
  <2>3. SubSeq(r, 1, pos[m]) = r
    BY <1>1, <1>9, SubSeqFull
  <2> QED
    BY <2>2, <2>3 DEF w
<1>10. CASE m = Len(p) - 1
  <2> DEFINE end == [k \in 0..l |-> IF k = l THEN Len(r) ELSE pos[k]]
  <2>1. end \in [0..l -> 0..Len(r)] /\ end[l] = Len(r) /\ \A k \in 0..m : end[k] = pos[k]
    <3>1. m = l - 1 /\ \A k \in 0..l : k # l => k \in 0..m
      BY <1>0, <1>10
    <3> QED
      BY <1>0, <1>2, <1>8, <3>1
  <2> HIDE DEF end
  <2>2. ASSUME NEW k \in 1..l
        PROVE  end[k - 1] <= end[k] /\ Piece(p, r, ps, w, k) = SubSeq(r, end[k - 1] + 1, end[k])
    <3>1. CASE k = l
      <4>1. end[k - 1] = o /\ end[k] = Len(r)
        BY <1>0, <1>1, <1>10, <2>1, <3>1
      <4> QED
        BY <1>2, <1>7, <3>1, <4>1
    <3>2. CASE k # l
      <4>1. k \in 1..m /\ k \in 0..m /\ k - 1 \in 0..m
        BY <1>0, <1>10, <3>2
      <4>2. end[k - 1] = pos[k - 1] /\ end[k] = pos[k]
        BY <2>1, <4>1
      <4> QED
        BY <1>6, <4>1, <4>2
    <3> QED
      BY <3>1, <3>2
  <2>3. l \in 0..Len(p) /\ end[0] = 0 /\ \A k \in l + 1..Len(p) : Piece(p, r, ps, w, k) \in Seq(Token)
    BY <1>0, <1>8, <2>1
  <2>4. IsPrefix(SubSeq(r, 1, end[l]), Fill(p, r, ps, w))
    BY <1>8, <2>1, <2>2, <2>3, FillBegins
  <2>5. SubSeq(r, 1, end[l]) = r
    BY <2>1, SubSeqFull
  <2> QED
    BY <2>4, <2>5 DEF w
<1> QED
  BY <1>9, <1>10

-----------------------------------------------------------------------------
(* The radix tree: what a search relies on that an insertion keeps. *)

\* A node insert_child makes has the new route as its only candidate.
LEMMA GrowCandidates ==
  ASSUME NEW n, NEW from
  PROVE  \A m \in DOMAIN Grow(tree, n, from) \ DOMAIN tree : Grow(tree, n, from)[m].cands = {index}
<1> DEFINE new == {n \o SubSeq(path, from + 1, k) : k \in Cuts(path, from)}
           end == n \o SubSeq(path, from + 1, Len(path))
           t == Grow(tree, n, from)
<1>1. t = [m \in DOMAIN tree \cup new |->
             IF m \notin new THEN tree[m]
             ELSE IF m = end THEN [NewNode(index) EXCEPT !.leaf = index]
             ELSE NewNode(index)]
  BY DEF Grow
<1>2. [NewNode(index) EXCEPT !.leaf = index].cands = {index} /\ NewNode(index).cands = {index}
  BY DEF NewNode
<1> HIDE DEF t, new, end
<1>3. ASSUME NEW m \in DOMAIN t \ DOMAIN tree PROVE t[m].cands = {index}
  <2>1. m \in new /\ t[m] = IF m = end THEN [NewNode(index) EXCEPT !.leaf = index] ELSE NewNode(index)
    BY <1>1
  <2> QED
    BY <1>2, <2>1
<1> QED
  BY <1>3 DEF t

\* Where two texts part, a node ends, and the tokens that follow are static.
Branching ==
  \A m, n \in DOMAIN tree : \A k \in 0..Len(m) - 1 :
    k < Len(n) /\ Same(m, n, k) /\ m[k + 1] # n[k + 1] =>
      m[k + 1] \notin Wild /\ SubSeq(m, 1, k) \in DOMAIN tree

\* A node ends in front of every parameter, and a slash follows it.
ParametersStandAlone ==
  \A n \in DOMAIN tree :
    /\ Spaced(n)
    /\ \A k \in 1..Len(n) - 1 : n[k + 1] \in Wild => SubSeq(n, 1, k) \in DOMAIN tree

\* A catch-all has a leaf, whatever was refused.
CatchAllsEnd == \A n \in DOMAIN tree : n[Len(n)] = "*" => tree[n].leaf # None

\* n lies at c or below.
Under(n, c) == Len(c) <= Len(n) /\ Same(c, n, Len(c))

\* The candidates of a node are all routes whose leaf lies there or below.
Candidates ==
  \A n, m \in DOMAIN tree : tree[m].leaf # None /\ Under(m, n) => tree[m].leaf \in tree[n].cands

Radix == Branching /\ ParametersStandAlone /\ CatchAllsEnd /\ Candidates

\* What a walk has passed: an insertion has left its index there, and stands
\* where it may go on.
Marked ==
  /\ pc \in {"segment", "descend", "leaf"} =>
       \A n \in DOMAIN tree : IsStrictPrefix(n, cur) => index \in tree[n].cands
  /\ pc \in {"descend", "leaf"} /\ IsStatic(cur) => index \in tree[cur].cands
  /\ pc \in {"plant", "segment", "descend", "leaf"} => WellNamed(path)
  /\ pc = "segment" => NextToken \notin Wild
  /\ pc = "descend" /\ ~IsStatic(cur) => NextToken = Slash
  /\ pc # "match" => params = <<>> /\ wildcard = <<>>

\* Of two texts that agree past every node above one of them the other lies
\* below it.
LEMMA OneChild ==
  ASSUME TypeOK, Branching, NEW c \in DOMAIN tree, NEW n \in DOMAIN tree, NEW a \in Nat,
         a < Len(c), a < Len(n), Same(n, c, a + 1),
         \A m \in DOMAIN tree : IsStrictPrefix(m, c) => Len(m) <= a
  PROVE  Under(n, c)
<1>1. c \in Seq(Token) /\ n \in Seq(Token) /\ Len(c) \in Nat /\ Len(n) \in Nat
  BY LenProperties DEF TypeOK
<1> DEFINE T == {k \in Nat : k < Len(c) /\ k < Len(n) /\ n[k + 1] # c[k + 1]}
<1>2. CASE T # {}
  <2>1. T \subseteq Nat
    OBVIOUS
  <2>2. PICK k \in T : \A y \in T : ~(y < k)
    BY <1>2, <2>1, LeastOf
  <2>3. k \in Nat /\ k < Len(c) /\ k < Len(n) /\ n[k + 1] # c[k + 1]
    OBVIOUS
  <2>4. \A j \in 1..k : n[j] = c[j]
    <3> SUFFICES ASSUME NEW j \in 1..k, n[j] # c[j] PROVE FALSE
      OBVIOUS
    <3>1. j - 1 \in Nat /\ j - 1 < k /\ j - 1 < Len(c) /\ j - 1 < Len(n) /\ (j - 1) + 1 = j
      BY <1>1, <2>3
    <3>2. j - 1 \in T
      BY <3>1
    <3> QED
      BY <2>2, <3>1, <3>2
  <2> HIDE DEF T
  <2>5. k > a
    <3> SUFFICES ASSUME k <= a PROVE FALSE
      BY <2>3
    <3>1. k + 1 \in 1..a + 1
      BY <2>3
    <3> QED
      BY <2>3, <3>1 DEF Same
  <2>6. SubSeq(c, 1, k) \in DOMAIN tree
    <3>1. Same(c, n, k) /\ k \in 0..Len(c) - 1 /\ c[k + 1] # n[k + 1]
      BY <1>1, <2>3, <2>4 DEF Same
    <3> QED
      BY <2>3, <3>1 DEF Branching
  <2>7. /\ SubSeq(c, 1, k) \in Seq(Token) /\ Len(SubSeq(c, 1, k)) = k
        /\ \A j \in 1..k : SubSeq(c, 1, k)[j] = c[j]
    <3>1. \A j \in 1..k : c[j] \in Token
      BY <1>1, <2>3, ElementOfSeq
    <3> QED
      BY <1>1, <2>3, <3>1, SubSeqProperties
  <2>8. PICK u : u = SubSeq(c, 1, k)
    OBVIOUS
  <2>9. u \in DOMAIN tree /\ u \in Seq(Token) /\ Len(u) = k /\ \A j \in 1..k : u[j] = c[j]
    BY <2>6, <2>7, <2>8
  <2>10. IsStrictPrefix(u, c)
    BY <1>1, <2>3, <2>9, StrictPrefix
  <2> QED
    BY <2>3, <2>5, <2>9, <2>10
<1>3. CASE T = {}
  <2>1. ASSUME NEW j \in Nat, j > 0, j <= Len(c), j <= Len(n) PROVE n[j] = c[j]
    <3>1. j - 1 \in Nat /\ j - 1 < Len(c) /\ j - 1 < Len(n) /\ (j - 1) + 1 = j
      BY <1>1, <2>1
    <3> QED
      BY <1>3, <3>1
  <2>2. Len(c) <= Len(n)
    <3> SUFFICES ASSUME Len(n) < Len(c) PROVE FALSE
      BY <1>1
    <3>1. \A j \in 1..Len(n) : n[j] = c[j]
      BY <1>1, <2>1
    <3>2. IsStrictPrefix(n, c)
      BY <1>1, <3>1, StrictPrefix
    <3> QED
      BY <1>1, <3>2
  <2>3. \A j \in 1..Len(c) : c[j] = n[j]
    BY <1>1, <2>1, <2>2
  <2> QED
    BY <2>2, <2>3 DEF Under, Same
<1> QED
  BY <1>2, <1>3

\* Below a node there is a child of it on the way.
LEMMA ChildAbove ==
  ASSUME TypeOK, NEW n \in DOMAIN tree, NEW m \in Below(tree, n)
  PROVE  \E c \in Children(tree, n) : Under(m, c) /\ c[Len(n) + 1] = m[Len(n) + 1]
<1>1. \A d \in DOMAIN tree : d \in Seq(Token) /\ Len(d) \in Nat
  BY LenProperties DEF TypeOK
<1>2. m \in DOMAIN tree /\ IsStrictPrefix(n, m)
  BY DEF Below
<1> DEFINE B == {d \in Below(tree, n) : Under(m, d)}
           T == {Len(d) : d \in B}
<1>3. B \subseteq DOMAIN tree
  BY DEF Below
<1>4. m \in B
  BY <1>1, <1>2 DEF Under, Same
<1>5. PICK x \in T : \A y \in T : ~(y < x)
  <2>1. T \subseteq Nat /\ T # {}
    BY <1>1, <1>3, <1>4
  <2> QED
    BY <2>1, LeastOf
<1>6. PICK c \in B : Len(c) = x
  OBVIOUS
<1>7. \A d \in B : ~(Len(d) < Len(c))
  BY <1>5, <1>6
<1>8. c \in Below(tree, n) /\ c \in DOMAIN tree /\ Under(m, c) /\ IsStrictPrefix(n, c)
  BY DEF Below
<1>9. c \in Children(tree, n)
  <2> SUFFICES ASSUME NEW d \in Below(tree, n), IsStrictPrefix(d, c) PROVE FALSE
    BY <1>8 DEF Children
  <2>1. d \in DOMAIN tree
    BY DEF Below
  <2>2. Len(d) < Len(c) /\ \A j \in 1..Len(d) : d[j] = c[j]
    BY <1>1, <1>8, <2>1, StrictPrefix
  <2>3. Under(m, d)
    BY <1>1, <1>8, <2>1, <2>2 DEF Under, Same
  <2> QED
    BY <1>7, <2>2, <2>3
<1>10. c[Len(n) + 1] = m[Len(n) + 1]
  <2>1. Len(n) < Len(c)
    BY <1>1, <1>8, StrictPrefix
  <2>2. Len(n) + 1 \in 1..Len(c)
    BY <1>1, <1>8, <2>1
  <2> QED
    BY <1>8, <2>2 DEF Under, Same
<1> QED
  BY <1>8, <1>9, <1>10

\* A step that adds no node, moves no leaf and takes no candidate away.
LEMMA QuietRadix ==
  ASSUME Radix, SameLeaves(tree, tree'), \A n \in DOMAIN tree : tree[n].cands \subseteq tree'[n].cands
  PROVE  Radix'
<1> USE DEF SameLeaves
<1>1. Branching' /\ ParametersStandAlone'
  BY DEF Radix, Branching, ParametersStandAlone
<1>2. CatchAllsEnd' /\ Candidates'
  BY DEF Radix, CatchAllsEnd, Candidates
<1> QED
  BY <1>1, <1>2 DEF Radix

\* What insert_child may rely on where it is called: n has no child to follow
\* and stands before no parameter beside others, and the nodes above n have the
\* new route among their candidates.
GrowsFrom(n, from) ==
  /\ n \in DOMAIN tree \/ (DOMAIN tree = {} /\ from = 0)
  /\ Below(tree, n) = {} \/ (path[from + 1] \notin Wild /\ FirstTokens(tree, n) \cap Wild = {})
  /\ from > 0 /\ n[from] \in Wild => path[from + 1] = Slash
  /\ WellNamed(path)
  /\ \A d \in DOMAIN tree : IsStrictPrefix(d, n) => index \in tree[d].cands
  /\ n \in DOMAIN tree => index \in tree'[n].cands
  /\ \A m \in DOMAIN tree : tree[m].cands \subseteq tree'[m].cands
  /\ \A m \in DOMAIN tree' \ DOMAIN tree : tree'[m].cands = {index}

\* An old text that goes on along n past it leaves the path at once.
LEMMA GrowParts ==
  ASSUME TypeOK, NEW n, NEW from, GrowsAt(n, from), NEW d \in DOMAIN tree, Len(d) > from, Same(d, n, from)
  PROVE  d[from + 1] # path[from + 1]
<1>1. d \in Seq(Token) /\ Len(d) \in Nat /\ n \in Seq(Token) /\ Len(n) = from /\ from \in Nat
  BY LenProperties DEF TypeOK, GrowsAt
<1>2. SamePrefix(d, n, from)
  BY <1>1 DEF SamePrefix, Same
<1> QED
  BY <1>1, <1>2 DEF GrowsAt, OpenEnd, Shape

\* The nodes insert_child adds part from the others where a node ends.
LEMMA GrowBranching ==
  ASSUME TypeOK, Branching, NEW n, NEW from, GrowsAt(n, from), GrowsTo(n, from), GrowsFrom(n, from)
  PROVE  Branching'
<1>1. /\ Len(path) \in Nat /\ Cuts(path, from) \subseteq from + 1..Len(path)
      /\ from \in Nat /\ n \in Seq(Token) /\ Len(n) = from
  BY LenProperties DEF Cuts, TypeOK, GrowsAt
<1>2. DOMAIN tree \subseteq DOMAIN tree'
  BY GrowNodes DEF GrowsAt, GrowsTo
<1>3. \A m \in DOMAIN tree' \ DOMAIN tree :
        \E k \in from + 1..Len(path) : Continues(m, n, from, k)
  BY <1>1, GrowNodes DEF GrowsAt, GrowsTo
<1>4. \A d \in DOMAIN tree : d \in Seq(Token) /\ Len(d) \in Nat
  BY LenProperties DEF TypeOK
\* One old text and one new.
<1>5. ASSUME NEW d \in DOMAIN tree, NEW y \in DOMAIN tree' \ DOMAIN tree, NEW k \in Nat,
             k < Len(d), k < Len(y), Same(d, y, k), d[k + 1] # y[k + 1]
      PROVE  /\ d[k + 1] \notin Wild /\ y[k + 1] \notin Wild
             /\ SubSeq(d, 1, k) \in DOMAIN tree /\ SubSeq(y, 1, k) \in DOMAIN tree
  <2>1. PICK b \in from + 1..Len(path) : Continues(y, n, from, b)
    BY <1>3
  <2>2. /\ y \in Seq(Token) /\ Len(y) = b /\ b \in Nat
        /\ \A j \in 1..from : y[j] = n[j]
        /\ \A j \in from + 1..b : y[j] = path[j]
    BY <2>1 DEF Continues
  <2>3. SubSeq(d, 1, k) = SubSeq(y, 1, k)
    <3>1. (\A j \in 1..k : d[j] \in Token) /\ (\A j \in 1..k : y[j] \in Token)
      BY <1>4, <1>5, <2>2, ElementOfSeq
    <3>2. PICK u, v : u = SubSeq(d, 1, k) /\ v = SubSeq(y, 1, k)
      OBVIOUS
    <3>3. u \in Seq(Token) /\ Len(u) = k /\ \A j \in 1..k : u[j] = d[j]
      BY <3>1, <3>2, SubSeqProperties
    <3>4. v \in Seq(Token) /\ Len(v) = k /\ \A j \in 1..k : v[j] = y[j]
      BY <3>1, <3>2, SubSeqProperties
    <3>5. u = v
      BY <1>5, <3>3, <3>4, SeqEqual DEF Same
    <3> QED
      BY <3>2, <3>5
  <2>4. CASE k < from
    <3>1. n \in DOMAIN tree /\ k < Len(n) /\ y[k + 1] = n[k + 1]
      BY <1>1, <2>2, <2>4 DEF GrowsFrom
    <3>2. Same(d, n, k) /\ Same(n, d, k)
      BY <1>1, <1>5, <2>2, <2>4 DEF Same
    <3>3. k \in 0..Len(d) - 1 /\ k \in 0..Len(n) - 1
      BY <1>1, <1>4, <1>5, <3>1
    <3>4. d[k + 1] \notin Wild /\ SubSeq(d, 1, k) \in DOMAIN tree
      BY <1>5, <3>1, <3>2, <3>3 DEF Branching
    <3>5. n[k + 1] \notin Wild
      BY <1>5, <3>1, <3>2, <3>3 DEF Branching
    <3> QED
      BY <2>3, <3>1, <3>4, <3>5
  <2>5. CASE k >= from
    <3>1. Same(d, n, from) /\ Len(d) > from
      BY <1>1, <1>4, <1>5, <2>2, <2>5 DEF Same
    <3>2. d[from + 1] # path[from + 1] /\ y[from + 1] = path[from + 1]
      <4>1. from + 1 \in from + 1..b
        BY <1>1
      <4>2. y[from + 1] = path[from + 1]
        BY <2>2, <4>1
      <4> QED
        BY <3>1, <4>2, GrowParts
    <3>3. k = from
      <4> SUFFICES ASSUME k > from PROVE FALSE
        BY <1>1, <2>5
      <4>1. from + 1 \in 1..k
        BY <1>1
      <4> QED
        BY <1>5, <3>2, <4>1 DEF Same
    <3>4. n \in DOMAIN tree
      BY DEF GrowsFrom
    <3>5. IsStrictPrefix(n, d)
      BY <1>1, <1>4, <3>1, StrictPrefix DEF Same
    <3>6. d \in Below(tree, n) /\ d[from + 1] \in FirstTokens(tree, n)
      BY <1>1, <3>5 DEF Below, FirstTokens
    <3>7. path[from + 1] \notin Wild /\ d[from + 1] \notin Wild
      BY <3>6 DEF GrowsFrom
    <3>8. SubSeq(y, 1, k) = n
      <4>1. PICK v : v = SubSeq(y, 1, k)
        OBVIOUS
      <4>2. \A j \in 1..k : y[j] \in Token
        BY <1>5, <2>2, ElementOfSeq
      <4>3. v \in Seq(Token) /\ Len(v) = k /\ \A j \in 1..k : v[j] = y[j]
        BY <4>1, <4>2, SubSeqProperties
      <4>4. v = n
        BY <1>1, <2>2, <3>3, <4>3, SeqEqual
      <4> QED
        BY <4>1, <4>4
    <3> QED
      BY <2>3, <3>2, <3>3, <3>4, <3>7, <3>8
  <2> QED
    BY <1>1, <2>4, <2>5
<1> SUFFICES ASSUME NEW m \in DOMAIN tree', NEW q \in DOMAIN tree', NEW k \in 0..Len(m) - 1,
                    k < Len(q), Same(m, q, k), m[k + 1] # q[k + 1]
             PROVE  m[k + 1] \notin Wild /\ SubSeq(m, 1, k) \in DOMAIN tree'
  BY DEF Branching
<1>6. CASE m \in DOMAIN tree /\ q \in DOMAIN tree
  BY <1>2, <1>6 DEF Branching
<1>7. CASE m \in DOMAIN tree /\ q \notin DOMAIN tree
  <2>1. k \in Nat /\ k < Len(m)
    BY <1>4, <1>7
  <2> QED
    BY <1>2, <1>5, <1>7, <2>1
<1>8. CASE m \notin DOMAIN tree /\ q \in DOMAIN tree
  <2>1. Len(m) \in Nat
    BY <1>3, <1>8 DEF Continues
  <2>2. k \in Nat /\ k < Len(m) /\ Same(q, m, k) /\ q[k + 1] # m[k + 1]
    BY <2>1 DEF Same
  <2> QED
    BY <1>2, <1>5, <1>8, <2>2
<1>9. CASE m \notin DOMAIN tree /\ q \notin DOMAIN tree
  <2>1. PICK a \in from + 1..Len(path) : Continues(m, n, from, a)
    BY <1>3, <1>9
  <2>2. PICK b \in from + 1..Len(path) : Continues(q, n, from, b)
    BY <1>3, <1>9
  <2>3. k + 1 \in 1..a /\ k + 1 \in 1..b
    BY <1>1, <2>1, <2>2 DEF Continues
  <2>4. CASE k + 1 <= from
    BY <1>1, <2>1, <2>2, <2>3, <2>4 DEF Continues
  <2>5. CASE k + 1 > from
    BY <1>1, <2>1, <2>2, <2>3, <2>5 DEF Continues
  <2> QED
    BY <1>1, <2>3, <2>4, <2>5
<1> QED
  BY <1>6, <1>7, <1>8, <1>9

\* insert_child ends a node in front of every parameter it adds, and accepts
\* none that no slash follows.
LEMMA GrowStandsAlone ==
  ASSUME TypeOK, ParametersStandAlone, NEW n, NEW from, GrowsAt(n, from), GrowsTo(n, from),
         GrowsFrom(n, from)
  PROVE  ParametersStandAlone'
<1>1. /\ Len(path) \in Nat /\ Cuts(path, from) \subseteq from + 1..Len(path)
      /\ from \in Nat /\ n \in Seq(Token) /\ Len(n) = from /\ path \in Seq(Token)
  BY LenProperties DEF Cuts, TypeOK, GrowsAt
<1>2. DOMAIN tree \subseteq DOMAIN tree'
  BY GrowNodes DEF GrowsAt, GrowsTo
<1> SUFFICES ASSUME NEW y \in DOMAIN tree'
             PROVE  /\ Spaced(y)
                    /\ \A k \in 1..Len(y) - 1 : y[k + 1] \in Wild => SubSeq(y, 1, k) \in DOMAIN tree'
  BY DEF ParametersStandAlone
<1>3. CASE y \in DOMAIN tree
  BY <1>2, <1>3 DEF ParametersStandAlone
<1>4. CASE y \notin DOMAIN tree
  <2>1. PICK b \in Cuts(path, from) : Continues(y, n, from, b)
    BY <1>4, GrowNodes DEF GrowsAt, GrowsTo
  <2>2. /\ y \in Seq(Token) /\ Len(y) = b /\ b \in from + 1..Len(path) /\ b \in Nat
        /\ \A j \in 1..from : y[j] = n[j]
        /\ \A j \in from + 1..b : y[j] = path[j]
    BY <1>1, <2>1 DEF Continues
  <2>3. \A w \in BadWild(path, from) : w \in Nat /\ b < w
    BY <1>1, <2>1 DEF Cuts, BadWild
  <2>4. Spaced(y)
    <3> SUFFICES ASSUME NEW k \in 1..Len(y) - 1, y[k] \in Wild PROVE y[k + 1] = Slash
      BY DEF Spaced
    <3>1. k \in Nat /\ k >= 1 /\ k < b
      BY <2>2
    <3>2. CASE k < from
      <4>1. n \in DOMAIN tree
        BY <1>1, <3>1, <3>2 DEF GrowsFrom
      <4>2. k \in 1..from /\ k + 1 \in 1..from /\ k \in 1..Len(n) - 1
        BY <1>1, <3>1, <3>2
      <4>3. n[k] \in Wild /\ y[k + 1] = n[k + 1]
        BY <2>2, <4>2
      <4> QED
        BY <4>1, <4>2, <4>3 DEF ParametersStandAlone, Spaced
    <3>3. CASE k = from
      <4>1. n[from] \in Wild /\ y[k + 1] = path[from + 1] /\ from > 0
        BY <1>1, <2>2, <3>1, <3>3
      <4> QED
        BY <4>1 DEF GrowsFrom
    <3>4. CASE k > from
      <4>1. path[k] \in Wild /\ y[k + 1] = path[k + 1] /\ k \in from + 1..Len(path) /\ k < Len(path)
        BY <1>1, <2>2, <3>1, <3>4
      <4>2. k \notin BadWild(path, from)
        <5> SUFFICES ASSUME k \in BadWild(path, from) PROVE FALSE
          OBVIOUS
        <5>1. b < k
          BY <2>3
        <5> QED
          BY <2>2, <3>1, <5>1
      <4>3. path[k + 1] \notin Wild
        BY <4>1, <4>2 DEF BadWild, WildcardEndOk
      <4>4. path[k + 1] \notin Letters
        BY <1>1, <3>1, <4>1 DEF GrowsFrom, WellNamed
      <4>5. path[k + 1] \in Token
        BY <1>1, <3>1, <4>1, ElementOfSeq
      <4> QED
        BY <4>1, <4>3, <4>4, <4>5 DEF Token, Char
    <3> QED
      BY <1>1, <3>1, <3>2, <3>3, <3>4
  <2>5. ASSUME NEW k \in 1..Len(y) - 1, y[k + 1] \in Wild PROVE SubSeq(y, 1, k) \in DOMAIN tree'
    <3>1. k \in Nat /\ k >= 1 /\ k < b
      BY <2>2
    <3>2. PICK v : v = SubSeq(y, 1, k)
      OBVIOUS
    <3>3. v \in Seq(Token) /\ Len(v) = k /\ \A j \in 1..k : v[j] = y[j]
      <4>1. \A j \in 1..k : y[j] \in Token
        BY <2>2, <3>1, ElementOfSeq
      <4> QED
        BY <3>1, <3>2, <4>1, SubSeqProperties
    <3>4. CASE k < from
      <4>1. n \in DOMAIN tree /\ n[k + 1] \in Wild /\ k \in 1..Len(n) - 1
        BY <1>1, <2>2, <2>5, <3>1, <3>4 DEF GrowsFrom
      <4>2. PICK u : u = SubSeq(n, 1, k)
        OBVIOUS
      <4>3. u \in DOMAIN tree
        BY <4>1, <4>2 DEF ParametersStandAlone
      <4>4. u \in Seq(Token) /\ Len(u) = k /\ \A j \in 1..k : u[j] = n[j]
        <5>1. \A j \in 1..k : n[j] \in Token
          BY <1>1, <3>1, <3>4, ElementOfSeq
        <5> QED
          BY <3>1, <4>2, <5>1, SubSeqProperties
      <4>5. \A j \in 1..k : u[j] = v[j]
        <5>1. ASSUME NEW j \in 1..k PROVE u[j] = v[j]
          <6>1. j \in 1..from
            BY <1>1, <3>1, <3>4
          <6>2. y[j] = n[j]
            BY <2>2, <6>1
          <6> QED
            BY <3>3, <4>4, <6>2
        <5> QED
          BY <5>1
      <4>6. u = v
        BY <3>3, <4>4, <4>5, SeqEqual
      <4> QED
        BY <1>2, <3>2, <4>3, <4>6
    <3>5. CASE k = from
      <4>1. n \in DOMAIN tree
        BY <3>1, <3>5 DEF GrowsFrom
      <4>2. \A j \in 1..k : v[j] = n[j]
        BY <1>1, <2>2, <3>3, <3>5
      <4>3. v = n
        BY <1>1, <3>3, <3>5, <4>2, SeqEqual
      <4> QED
        BY <1>2, <3>2, <4>1, <4>3
    <3>6. CASE k > from
      <4>1. path[k + 1] \in Wild /\ k \in from + 1..Len(path) /\ k \in from + 1..b
        BY <1>1, <2>2, <2>5, <3>1, <3>6
      <4>2. \A w \in BadWild(path, from) : k < w
        BY <2>2, <2>3, <3>1
      <4>3. k \in Cuts(path, from)
        BY <4>1, <4>2 DEF Cuts
      <4>4. PICK g : g = n \o SubSeq(path, from + 1, k)
        OBVIOUS
      <4>5. g \in DOMAIN tree' /\ Continues(g, n, from, k)
        BY <4>3, <4>4, GrowNodes DEF GrowsAt, GrowsTo
      <4>6. g = SubSeq(y, 1, k)
        <5>1. Continues(y, n, from, b) /\ k \in 1..b /\ k > from /\ b \in Nat /\ from \in Nat
          BY <1>1, <2>1, <3>1, <3>6, <2>2
        <5>2. Continues(g, n, from, k)
          BY <4>5
        <5> HIDE <1>1, <1>2, <2>1, <2>2, <2>3, <2>4, <3>1, <3>2, <3>3, <4>1, <4>2, <4>3, <4>4, <4>5
        <5> QED
          BY <5>1, <5>2, ContinuesPart
      <4> QED
        BY <4>5, <4>6
    <3> QED
      BY <1>1, <3>1, <3>4, <3>5, <3>6
  <2> QED
    BY <2>4, <2>5
<1> QED
  BY <1>3, <1>4

\* A catch-all it accepts ends the path, and has the leaf.
LEMMA GrowCatchAlls ==
  ASSUME TypeOK, CatchAllsEnd, NEW n, NEW from, GrowsAt(n, from), GrowsTo(n, from),
         GrowsFrom(n, from)
  PROVE  CatchAllsEnd'
<1>1. /\ Len(path) \in Nat /\ Cuts(path, from) \subseteq from + 1..Len(path)
      /\ from \in Nat /\ index \in Nat
  BY LenProperties, IndexIsNat DEF Cuts, TypeOK, GrowsAt
<1> SUFFICES ASSUME NEW y \in DOMAIN tree', y[Len(y)] = "*" PROVE tree'[y].leaf # None
  BY DEF CatchAllsEnd
<1>2. CASE y \in DOMAIN tree
  BY <1>2, GrowNodes DEF CatchAllsEnd, GrowsAt, GrowsTo
<1>3. CASE y \notin DOMAIN tree
  <2>1. PICK b \in Cuts(path, from) : Continues(y, n, from, b)
    BY <1>3, GrowNodes DEF GrowsAt, GrowsTo
  <2>2. Len(y) = b /\ b \in from + 1..Len(path) /\ b \in Nat
    BY <1>1, <2>1 DEF Continues
  <2>3. path[b] = "*"
    BY <2>1, <2>2 DEF Continues
  <2>4. b \notin BadWild(path, from)
    BY <1>1, <2>1, <2>2 DEF Cuts
  <2>5. b = Len(path)
    BY <2>2, <2>3, <2>4 DEF BadWild, WildcardEndOk, Wild
  <2>6. tree'[y].leaf = index
    BY <1>3, <2>2, <2>5, GrowNodes DEF GrowsAt, GrowsTo
  <2> QED
    BY <1>1, <2>6 DEF None
<1> QED
  BY <1>2, <1>3

\* The new leaf is a candidate all the way up, and no old leaf lies below a new
\* node.
LEMMA GrowMarks ==
  ASSUME TypeOK, Candidates, NEW n, NEW from, GrowsAt(n, from), GrowsTo(n, from),
         GrowsFrom(n, from)
  PROVE  Candidates'
<1>1. /\ Len(path) \in Nat /\ Cuts(path, from) \subseteq from + 1..Len(path)
      /\ from \in Nat /\ n \in Seq(Token) /\ Len(n) = from /\ index \in Nat
  BY LenProperties, IndexIsNat DEF Cuts, TypeOK, GrowsAt
<1>2. DOMAIN tree \subseteq DOMAIN tree' /\ \A m \in DOMAIN tree : tree'[m].leaf = tree[m].leaf
  BY GrowNodes DEF GrowsAt, GrowsTo
<1>3. \A m \in DOMAIN tree' \ DOMAIN tree :
        /\ \E k \in from + 1..Len(path) : Continues(m, n, from, k)
        /\ tree'[m].leaf \in {index, None}
  BY <1>1, GrowNodes DEF GrowsAt, GrowsTo
<1>4. \A d \in DOMAIN tree : d \in Seq(Token) /\ Len(d) \in Nat
  BY LenProperties DEF TypeOK
<1> SUFFICES ASSUME NEW d \in DOMAIN tree', NEW m \in DOMAIN tree', tree'[m].leaf # None, Under(m, d)
             PROVE  tree'[m].leaf \in tree'[d].cands
  BY DEF Candidates
<1>5. CASE m \in DOMAIN tree /\ d \in DOMAIN tree
  BY <1>2, <1>5 DEF Candidates, GrowsFrom
<1>6. CASE m \in DOMAIN tree /\ d \notin DOMAIN tree
  <2>1. PICK b \in from + 1..Len(path) : Continues(d, n, from, b)
    BY <1>3, <1>6
  <2>2. Len(d) = b /\ b \in Nat /\ from + 1 \in from + 1..b /\ from + 1 \in 1..b
    BY <1>1, <2>1 DEF Continues
  <2>3. d[from + 1] = path[from + 1] /\ \A j \in 1..from : d[j] = n[j]
    BY <2>1, <2>2 DEF Continues
  <2>4. \A j \in 1..b : d[j] = m[j]
    BY <2>2 DEF Under, Same
  <2>5. Len(m) > from /\ Same(m, n, from) /\ m[from + 1] = path[from + 1]
    <3>1. Len(m) \in Nat /\ b <= Len(m)
      BY <1>4, <1>6, <2>2 DEF Under
    <3>2. \A j \in 1..from : j \in 1..b
      BY <1>1, <2>2
    <3> QED
      BY <1>1, <2>2, <2>3, <2>4, <3>1, <3>2 DEF Same
  <2> QED
    BY <1>6, <2>5, GrowParts
<1>7. CASE m \notin DOMAIN tree /\ d \notin DOMAIN tree
  BY <1>3, <1>7 DEF GrowsFrom
<1>8. CASE m \notin DOMAIN tree /\ d \in DOMAIN tree
  <2>1. PICK b \in from + 1..Len(path) : Continues(m, n, from, b)
    BY <1>3, <1>8
  <2>2. Len(m) = b /\ b \in Nat /\ \A j \in 1..from : m[j] = n[j]
    BY <1>1, <2>1 DEF Continues
  <2>3. \A j \in 1..Len(d) : d[j] = m[j]
    BY DEF Under, Same
  <2>4. Len(d) <= from
    <3> SUFFICES ASSUME Len(d) > from PROVE FALSE
      BY <1>1, <1>4, <1>8
    <3>1. from + 1 \in 1..Len(d) /\ from + 1 \in from + 1..b
      BY <1>1, <1>4, <1>8, <2>2
    <3>2. d[from + 1] = path[from + 1]
      BY <2>1, <2>3, <3>1 DEF Continues
    <3>3. Same(d, n, from)
      BY <1>1, <1>4, <1>8, <2>2, <2>3 DEF Same
    <3> QED
      BY <1>8, <3>2, <3>3, GrowParts
  <2>5. \A j \in 1..Len(d) : d[j] = n[j]
    BY <1>1, <1>4, <1>8, <2>2, <2>3, <2>4
  <2>6. index \in tree'[d].cands
    <3>1. CASE Len(d) = from
      <4>1. d = n
        BY <1>1, <1>4, <1>8, <2>5, <3>1, SeqEqual
      <4> QED
        BY <1>8, <4>1 DEF GrowsFrom
    <3>2. CASE Len(d) < from
      <4>1. IsStrictPrefix(d, n)
        BY <1>1, <1>4, <1>8, <2>5, <3>2, StrictPrefix
      <4> QED
        BY <1>8, <4>1 DEF GrowsFrom
    <3> QED
      BY <1>1, <1>4, <1>8, <2>4, <3>1, <3>2
  <2> QED
    BY <1>3, <1>8, <2>6
<1> QED
  BY <1>5, <1>6, <1>7, <1>8

\* Together.
LEMMA GrowRadix ==
  ASSUME TypeOK, Radix, NEW n, NEW from, GrowsAt(n, from), GrowsTo(n, from), GrowsFrom(n, from)
  PROVE  Radix'
BY GrowBranching, GrowStandsAlone, GrowCatchAlls, GrowMarks DEF Radix

\* An operation is over, and left the tree alone or only marked nodes.
LEMMA QuietEnd ==
  ASSUME Radix, SameLeaves(tree, tree'), \A n \in DOMAIN tree : tree[n].cands \subseteq tree'[n].cands,
         Idle
  PROVE  Radix' /\ Marked'
<1>1. Radix'
  BY QuietRadix
<1>2. Marked'
  BY DEF Idle, Marked
<1> QED
  BY <1>1, <1>2

\* A node gets a candidate more.
LEMMA AddCandidateAdds ==
  ASSUME NEW t, IsTree(t), NEW n \in DOMAIN t, NEW i \in Nat
  PROVE  /\ \A m \in DOMAIN t : t[m].cands \subseteq AddCandidate(t, n, i)[m].cands
         /\ i \in AddCandidate(t, n, i)[n].cands
BY DEF AddCandidate, IsTree, Node

\* insert_child is called where GrowsFrom asks for.
LEMMA PlantRadix == IInv /\ Radix /\ Marked /\ Plant => Radix' /\ Marked'
<1> SUFFICES ASSUME IInv, Radix, Marked, Plant PROVE Radix' /\ Marked'
  OBVIOUS
<1>1. GrowsAt(<<>>, 0) /\ DOMAIN tree = {} /\ tree' = Grow(tree, <<>>, 0)
  BY PlantGrows DEF IInv, OnTheWay, Plant
<1>2. GrowsTo(<<>>, 0)
  BY <1>1 DEF GrowsTo
<1>3. GrowsFrom(<<>>, 0)
  <2>1. \A m \in DOMAIN tree' \ DOMAIN tree : tree'[m].cands = {index}
    BY <1>1, GrowCandidates
  <2>2. WellNamed(path) /\ Below(tree, <<>>) = {}
    BY <1>1 DEF Marked, Plant, Below
  <2> QED
    BY <1>1, <2>1, <2>2 DEF GrowsFrom
<1>4. Radix'
  BY <1>1, <1>2, <1>3, GrowRadix DEF IInv
<1>5. Marked'
  BY DEF Plant, Register, Fail, Idle, Marked
<1> QED
  BY <1>4, <1>5

\* What the two other callers have in common.
LEMMA BranchRadix ==
  ASSUME IInv, Radix, Marked, pc = "descend",
         \/ Below(tree, cur) = {}
         \/ NextToken \notin Wild /\ FirstTokens(tree, cur) \cap (Wild \cup {NextToken}) = {},
         \A m \in DOMAIN tree' \ DOMAIN tree : tree'[m].cands = Grow(tree, cur, offset)[m].cands,
         \A m \in DOMAIN tree : tree[m].cands \subseteq tree'[m].cands,
         index \in tree'[cur].cands, GrowsTo(cur, offset)
  PROVE  Radix'
<1>1. GrowsAt(cur, offset) /\ cur \in DOMAIN tree
  BY GrowsAtCur
<1>2. offset = Len(cur) /\ (offset > 0 /\ cur[offset] \in Wild => path[offset + 1] = Slash)
  BY DEF IInv, OnTheWay, Marked, IsStatic, NextToken
<1>3. \A m \in DOMAIN tree' \ DOMAIN tree : tree'[m].cands = {index}
  BY GrowCandidates DEF GrowsTo
<1>4. WellNamed(path) /\ \A d \in DOMAIN tree : IsStrictPrefix(d, cur) => index \in tree[d].cands
  BY DEF Marked
<1>5. GrowsFrom(cur, offset)
  BY <1>1, <1>2, <1>3, <1>4 DEF GrowsFrom, NextToken
<1> QED
  BY <1>1, <1>5, GrowRadix DEF IInv

\* A parameter below a childless node: static text is before it,
LEMMA AddWildcardRadix == IInv /\ Radix /\ Marked /\ AddWildcard => Radix' /\ Marked'
<1> SUFFICES ASSUME IInv, Radix, Marked, AddWildcard PROVE Radix' /\ Marked'
  OBVIOUS
<1>1. /\ pc = "descend" /\ Below(tree, cur) = {} /\ tree' = Grow(tree, cur, offset)
      /\ NextToken = ":" /\ Idle
  BY DEF AddWildcard, Register, Fail
<1>2. IsStatic(cur)
  BY <1>1 DEF Marked, Slash
<1>3. index \in tree[cur].cands /\ cur \in DOMAIN tree
  BY <1>1, <1>2 DEF Marked, IInv, TypeOK
<1>4. GrowsAt(cur, offset)
  BY <1>1, GrowsAtCur
<1>5. DOMAIN tree \subseteq DOMAIN tree' /\ \A m \in DOMAIN tree : tree'[m] = tree[m]
  BY <1>1, <1>4, GrowNodes DEF GrowsAt, IInv
<1>6. GrowsTo(cur, offset)
  BY <1>1 DEF GrowsTo
<1>7. Radix'
  BY <1>1, <1>3, <1>5, <1>6, BranchRadix
<1>8. Marked'
  BY <1>1 DEF Idle, Marked
<1> QED
  BY <1>7, <1>8

\* and static text beside static text.
LEMMA AddStaticRadix == IInv /\ Radix /\ Marked /\ AddStatic => Radix' /\ Marked'
<1> SUFFICES ASSUME IInv, Radix, Marked, AddStatic PROVE Radix' /\ Marked'
  OBVIOUS
<1>1. /\ pc = "descend" /\ NextToken \notin Wild
      /\ FirstTokens(tree, cur) \cap (Wild \cup {NextToken}) = {} /\ Idle
  BY DEF AddStatic, Register, Fail
<1>2. Marked'
  BY <1>1 DEF Idle, Marked
<1>3. CASE BadWild(path, offset) # {}
  BY <1>1, <1>2, <1>3, QuietRadix DEF AddStatic, SameLeaves
<1>4. CASE BadWild(path, offset) = {}
  <2> DEFINE g == Grow(tree, cur, offset)
  <2>1. GrowsAt(cur, offset) /\ cur \in DOMAIN tree /\ index \in Nat
    BY <1>1, GrowsAtCur, IndexIsNat DEF IInv
  <2>2. IsTree(g) /\ DOMAIN tree \subseteq DOMAIN g /\ \A m \in DOMAIN tree : g[m] = tree[m]
    BY <2>1, GrowNodes DEF GrowsAt, IInv
  <2> HIDE DEF g
  <2>3. tree' = AddCandidate(g, cur, index)
    BY <1>4 DEF AddStatic, g
  <2>4. SameLeaves(g, tree')
    BY <2>1, <2>2, <2>3, AddCandidateKeepsLeaves
  <2>5. /\ \A m \in DOMAIN g : g[m].cands \subseteq tree'[m].cands
        /\ index \in tree'[cur].cands
    BY <2>1, <2>2, <2>3, AddCandidateAdds
  <2>6. \A m \in DOMAIN tree' \ DOMAIN tree : tree'[m].cands = g[m].cands
    BY <2>1, <2>3 DEF AddCandidate
  <2>7. GrowsTo(cur, offset)
    BY <2>4 DEF GrowsTo, g, SameLeaves
  <2>8. \A m \in DOMAIN tree : tree[m].cands \subseteq tree'[m].cands
    BY <2>2, <2>5
  <2>9. \A m \in DOMAIN tree' \ DOMAIN tree : tree'[m].cands = Grow(tree, cur, offset)[m].cands
    BY <2>6 DEF g
  <2> QED
    BY <1>1, <1>2, <2>5, <2>7, <2>8, <2>9, BranchRadix
<1> QED
  BY <1>3, <1>4

\* The leaf is a candidate of the nodes above it.
LEMMA SetLeafRadix == IInv /\ Radix /\ Marked /\ SetLeaf => Radix' /\ Marked'
<1> SUFFICES ASSUME IInv, Radix, Marked, SetLeaf PROVE Radix' /\ Marked'
  OBVIOUS
<1>1. cur \in DOMAIN tree /\ index \in Nat /\ IsTree(tree) /\ Idle /\ cur \in Seq(Token)
  BY IndexIsNat DEF IInv, TypeOK, SetLeaf, IsTree, Register, Fail
<1>2. CASE "*" \in FirstTokens(tree, cur) \/ tree[cur].leaf # None
  BY <1>1, <1>2, QuietEnd DEF SetLeaf, SameLeaves
<1>3. CASE ~("*" \in FirstTokens(tree, cur) \/ tree[cur].leaf # None)
  <2> DEFINE u == [tree EXCEPT ![cur].leaf = index]
  <2>1. /\ IsTree(u) /\ DOMAIN u = DOMAIN tree /\ u[cur].leaf = index
        /\ \A m \in DOMAIN tree \ {cur} : u[m] = tree[m]
    BY <1>1, SetLeafType
  <2>2. \A m \in DOMAIN tree : u[m].cands = tree[m].cands
    BY <1>1 DEF IsTree, Node
  <2>3. tree' = AddCandidate(u, cur, index)
    BY <1>3 DEF SetLeaf
  <2> HIDE DEF u
  <2>4. SameLeaves(u, tree')
    BY <1>1, <2>1, <2>3, AddCandidateKeepsLeaves
  <2>5. (\A m \in DOMAIN u : u[m].cands \subseteq tree'[m].cands) /\ index \in tree'[cur].cands
    BY <1>1, <2>1, <2>3, AddCandidateAdds
  <2>6. /\ DOMAIN tree' = DOMAIN tree /\ tree'[cur].leaf = index
        /\ \A m \in DOMAIN tree \ {cur} : tree'[m].leaf = tree[m].leaf
        /\ \A m \in DOMAIN tree : tree[m].cands \subseteq tree'[m].cands
    BY <1>1, <2>1, <2>2, <2>4, <2>5 DEF SameLeaves
  <2>7. Branching' /\ ParametersStandAlone'
    BY <2>6 DEF Radix, Branching, ParametersStandAlone
  <2>8. CatchAllsEnd'
    BY <1>1, <2>6 DEF Radix, CatchAllsEnd, None
  <2>9. Candidates'
    <3> SUFFICES ASSUME NEW n \in DOMAIN tree, NEW m \in DOMAIN tree, tree'[m].leaf # None, Under(m, n)
                 PROVE  tree'[m].leaf \in tree'[n].cands
      BY <2>6 DEF Candidates
    <3>1. CASE m # cur
      BY <2>6, <3>1 DEF Radix, Candidates
    <3>2. CASE m = cur /\ n = cur
      BY <2>5, <2>6, <3>2
    <3>3. CASE m = cur /\ n # cur
      <4>1. n \in Seq(Token) /\ Len(n) \in Nat /\ Len(cur) \in Nat
        BY <1>1, LenProperties DEF IsTree
      <4>2. \A j \in 1..Len(n) : n[j] = cur[j]
        BY <3>3 DEF Under, Same
      <4>3. Len(n) # Len(cur)
        BY <1>1, <3>3, <4>1, <4>2, SeqEqual
      <4>4. IsStrictPrefix(n, cur)
        BY <1>1, <3>3, <4>1, <4>2, <4>3, StrictPrefix DEF Under
      <4>5. index \in tree[n].cands
        BY <4>4 DEF Marked, SetLeaf
      <4> QED
        BY <2>6, <3>3, <4>5
    <3> QED
      BY <3>1, <3>2, <3>3
  <2>10. Marked'
    BY <1>1 DEF Idle, Marked
  <2> QED
    BY <2>7, <2>8, <2>9, <2>10 DEF Radix
<1> QED
  BY <1>2, <1>3

\* A walk begins at the root, before the first slash.
LEMMA BeginInsertRadix ==
  ASSUME IInv, Radix, Marked, NEW p, p[1] = Slash, WellNamed(p), BeginInsert(p)
  PROVE  Radix' /\ Marked'
<1>1. path' = p /\ offset' = 0 /\ UNCHANGED <<tree, inner, params, wildcard>> /\ pc = "idle"
  BY DEF BeginInsert, registry, captures
<1>2. Radix'
  BY <1>1, QuietRadix DEF SameLeaves
<1>3. params' = <<>> /\ wildcard' = <<>>
  BY <1>1 DEF Marked
<1>4. CASE pc' = "plant"
  BY <1>1, <1>2, <1>3, <1>4 DEF Marked
<1>5. CASE cur' \in Roots(tree) /\ pc' = "segment"
  <2>1. \A n \in DOMAIN tree' : ~IsStrictPrefix(n, cur')
    BY <1>1, <1>5 DEF Roots
  <2>2. NextToken' \notin Wild
    BY <1>1 DEF NextToken, Slash, Wild
  <2> QED
    BY <1>1, <1>2, <1>3, <1>5, <2>1, <2>2 DEF Marked
<1> QED
  BY <1>4, <1>5 DEF BeginInsert

\* One turn down the tree marks the node it leaves.
LEMMA FollowRadix ==
  ASSUME IInv, Radix, Marked, pc = "descend", tree' = AddCandidate(tree, cur, index)
  PROVE  /\ Radix' /\ SameLeaves(tree, tree')
         /\ UNCHANGED index /\ cur' \in Children(tree, cur) =>
              \A n \in DOMAIN tree' : IsStrictPrefix(n, cur') => index' \in tree'[n].cands
<1>1. cur \in DOMAIN tree /\ IsTree(tree) /\ index \in Nat
  BY IndexIsNat DEF IInv, TypeOK, IsTree
<1>2. SameLeaves(tree, tree')
  BY <1>1, AddCandidateKeepsLeaves
<1>3. (\A m \in DOMAIN tree : tree[m].cands \subseteq tree'[m].cands) /\ index \in tree'[cur].cands
  BY <1>1, AddCandidateAdds
<1>4. Radix'
  BY <1>2, <1>3, QuietRadix
<1>5. ASSUME UNCHANGED index, cur' \in Children(tree, cur), NEW n \in DOMAIN tree', IsStrictPrefix(n, cur')
      PROVE  index' \in tree'[n].cands
  <2>1. /\ cur' \in Seq(Token) /\ Len(cur') \in Nat /\ Len(cur) < Len(cur')
        /\ \A j \in 1..Len(cur) : cur'[j] = cur[j]
        /\ n \in DOMAIN tree /\ Len(n) <= Len(cur)
    BY <1>1, <1>2, <1>5, ChildText DEF IInv, SameLeaves
  <2>2. n \in Seq(Token) /\ Len(n) \in Nat /\ cur \in Seq(Token) /\ Len(cur) \in Nat
    BY <1>1, <2>1, LenProperties DEF IsTree
  <2>3. \A j \in 1..Len(n) : n[j] = cur'[j]
    BY <1>5, <2>1, <2>2, StrictPrefix
  <2>4. \A j \in 1..Len(n) : n[j] = cur[j]
    BY <2>1, <2>2, <2>3
  <2>5. CASE Len(n) = Len(cur)
    <3>1. n = cur
      BY <2>2, <2>4, <2>5, SeqEqual
    <3> QED
      BY <1>3, <1>5, <3>1
  <2>6. CASE Len(n) < Len(cur)
    <3>1. IsStrictPrefix(n, cur)
      BY <2>2, <2>4, <2>6, StrictPrefix
    <3> QED
      BY <1>3, <1>5, <2>1, <3>1 DEF Marked
  <2> QED
    BY <2>1, <2>2, <2>5, <2>6
<1> QED
  BY <1>2, <1>4, <1>5

\* Down to static text,
LEMMA FollowStaticRadix == IInv /\ Radix /\ Marked /\ FollowStatic => Radix' /\ Marked'
<1> SUFFICES ASSUME IInv, Radix, Marked, FollowStatic PROVE Radix' /\ Marked'
  OBVIOUS
<1>1. /\ pc = "descend" /\ tree' = AddCandidate(tree, cur, index) /\ NextToken \notin Wild
      /\ cur' \in Children(tree, cur) /\ pc' = "segment"
      /\ UNCHANGED <<inner, path, offset, params, wildcard>>
  BY DEF FollowStatic, ChildAt, captures
<1>2. UNCHANGED index
  BY <1>1 DEF index
<1>3. Radix' /\ \A n \in DOMAIN tree' : IsStrictPrefix(n, cur') => index' \in tree'[n].cands
  BY <1>1, <1>2, FollowRadix
<1>4. NextToken' \notin Wild /\ WellNamed(path') /\ params' = <<>> /\ wildcard' = <<>>
  BY <1>1 DEF Marked, NextToken
<1>5. Marked'
  BY <1>1, <1>3, <1>4 DEF Marked
<1> QED
  BY <1>3, <1>5

\* or to a parameter, which only a slash may follow.
LEMMA FollowWildcardRadix == IInv /\ Radix /\ Marked /\ FollowWildcard => Radix' /\ Marked'
<1> SUFFICES ASSUME IInv, Radix, Marked, FollowWildcard PROVE Radix' /\ Marked'
  OBVIOUS
<1>1. pc = "descend" /\ tree' = AddCandidate(tree, cur, index) /\ path[offset + 1] \in Wild
  BY DEF FollowWildcard, NextToken
<1>2. Radix'
  BY <1>1, FollowRadix
<1>3. CASE ~WildcardEndOk(path, offset + 1, 0)
  <2>1. Idle
    BY <1>3 DEF FollowWildcard, Fail
  <2> QED
    BY <1>2, <2>1 DEF Idle, Marked
<1>4. CASE WildcardEndOk(path, offset + 1, 0)
  <2>1. /\ cur' \in Children(tree, cur) /\ offset' = offset + 1
        /\ pc' = IF offset + 1 = Len(path) THEN "leaf" ELSE "descend"
        /\ UNCHANGED <<inner, path, params, wildcard>>
        /\ FirstTokens(tree, cur) \subseteq Wild
    BY <1>4 DEF FollowWildcard, captures
  <2>2. UNCHANGED index
    BY <2>1 DEF index
  <2>3. \A n \in DOMAIN tree' : IsStrictPrefix(n, cur') => index' \in tree'[n].cands
    BY <1>1, <2>1, <2>2, FollowRadix
  <2>4. IInv'
    BY FollowWildcardStep
  <2>5. /\ path \in Seq(Token) /\ offset \in Nat /\ Len(path) \in Nat /\ offset < Len(path)
        /\ offset = Len(cur) /\ cur \in DOMAIN tree
    BY <1>1, LenProperties DEF IInv, TypeOK, OnTheWay
  <2>6. ~IsStatic(cur')
    <3>1. cur'[Len(cur) + 1] \in Wild
      BY <1>1, <2>1, <2>5, ChildText DEF IInv
    <3>2. Len(cur') = offset + 1
      <4>1. CASE pc' = "leaf"
        BY <2>1, <2>4, <2>5, <4>1 DEF IInv, OnTheWay, SameShape
      <4>2. CASE pc' = "descend"
        BY <2>1, <2>4, <4>2 DEF IInv, OnTheWay
      <4> QED
        BY <2>1, <4>1, <4>2
    <3> QED
      BY <2>5, <3>1, <3>2 DEF IsStatic
  <2>7. pc' = "descend" => NextToken' = Slash
    <3> SUFFICES ASSUME pc' = "descend" PROVE NextToken' = Slash
      OBVIOUS
    <3>1. offset + 1 < Len(path) /\ offset + 1 \in 1..Len(path) - 1
      BY <2>1, <2>5
    <3>2. path[(offset + 1) + 1] \notin Wild
      BY <1>4, <3>1 DEF WildcardEndOk
    <3>3. path[(offset + 1) + 1] \notin Letters
      BY <1>1, <3>1 DEF Marked, WellNamed
    <3>4. path[(offset + 1) + 1] \in Token
      <4>1. (offset + 1) + 1 \in 1..Len(path)
        BY <2>5, <3>1
      <4> QED
        BY <2>5, <4>1, ElementOfSeq
    <3> QED
      BY <2>1, <3>2, <3>3, <3>4 DEF NextToken, Token, Char
  <2>8. WellNamed(path') /\ params' = <<>> /\ wildcard' = <<>>
    BY <1>1, <2>1 DEF Marked
  <2>9. Marked'
    BY <2>1, <2>3, <2>6, <2>7, <2>8 DEF Marked
  <2> QED
    BY <1>2, <2>9
<1> QED
  BY <1>3, <1>4

\* The label of a node that begins with static text holds no parameter.
LEMMA LabelIsStatic ==
  ASSUME TypeOK, ParametersStandAlone, NEW c \in DOMAIN tree, NEW a \in Nat, a < Len(c),
         \A m \in DOMAIN tree : IsStrictPrefix(m, c) => Len(m) <= a, c[a + 1] \notin Wild
  PROVE  \A k \in a + 1..Len(c) : c[k] \notin Wild
<1> SUFFICES ASSUME NEW k \in a + 1..Len(c), c[k] \in Wild PROVE FALSE
  OBVIOUS
<1>1. c \in Seq(Token) /\ Len(c) \in Nat
  BY LenProperties DEF TypeOK
<1>2. k > a + 1 /\ k \in Nat /\ k <= Len(c)
  BY <1>1
<1>3. PICK j : j = k - 1
  OBVIOUS
<1>4. j \in 1..Len(c) - 1 /\ j + 1 = k /\ j \in Nat /\ j > a
  BY <1>1, <1>2, <1>3
<1>5. PICK u : u = SubSeq(c, 1, j)
  OBVIOUS
<1>6. u \in DOMAIN tree
  BY <1>4, <1>5 DEF ParametersStandAlone
<1>7. u \in Seq(Token) /\ Len(u) = j /\ \A x \in 1..j : u[x] = c[x]
  <2>1. \A x \in 1..j : c[x] \in Token
    BY <1>1, <1>4, ElementOfSeq
  <2> QED
    BY <1>4, <1>5, <2>1, SubSeqProperties
<1>8. IsStrictPrefix(u, c)
  <2>1. Len(u) < Len(c) /\ \A x \in 1..Len(u) : u[x] = c[x]
    BY <1>1, <1>4, <1>7
  <2>2. u \in Seq(Token) /\ c \in Seq(Token)
    BY <1>1, <1>7
  <2> HIDE <1>1, <1>3, <1>4, <1>5, <1>6, <1>7
  <2> QED
    BY <2>1, <2>2, StrictPrefix
<1> QED
  BY <1>4, <1>6, <1>7, <1>8

\* The beginning of a beginning is a beginning.
LEMMA SubSeqOfPrefix ==
  ASSUME NEW m \in Seq(Token), NEW n \in Seq(Token), NEW k \in Nat, k <= Len(m), k <= Len(n), Same(m, n, k)
  PROVE  SubSeq(m, 1, k) = SubSeq(n, 1, k)
<1>1. (\A j \in 1..k : m[j] \in Token) /\ (\A j \in 1..k : n[j] \in Token)
  <2>1. Len(m) \in Nat /\ Len(n) \in Nat
    BY LenProperties
  <2> QED
    BY <2>1, ElementOfSeq
<1>2. PICK u, v : u = SubSeq(m, 1, k) /\ v = SubSeq(n, 1, k)
  OBVIOUS
<1>3. u \in Seq(Token) /\ Len(u) = k /\ \A j \in 1..k : u[j] = m[j]
  BY <1>1, <1>2, SubSeqProperties
<1>4. v \in Seq(Token) /\ Len(v) = k /\ \A j \in 1..k : v[j] = n[j]
  BY <1>1, <1>2, SubSeqProperties
<1>5. u = v
  BY <1>3, <1>4, SeqEqual DEF Same
<1> QED
  BY <1>2, <1>5

\* A split puts a node on the way that was there before: the shorter text
\* begins the longer one, and everything under it lies under that.
LEMMA SplitRadix ==
  ASSUME TypeOK, Radix, cur \in DOMAIN tree, NEW a \in Nat, NEW k \in a + 1..Len(cur), k < Len(cur),
         \A m \in DOMAIN tree : IsStrictPrefix(m, cur) => Len(m) <= a,
         cur[a + 1] \notin Wild, NEW upper \in Seq(Token), Len(upper) = k, Same(upper, cur, k),
         DOMAIN tree' = DOMAIN tree \cup {upper}, \A m \in DOMAIN tree : tree'[m] = tree[m],
         tree'[upper].leaf = None, tree[cur].cands \subseteq tree'[upper].cands
  PROVE  Radix'
<1>1. /\ cur \in Seq(Token) /\ Len(cur) \in Nat /\ k \in Nat /\ k > a
      /\ \A n \in DOMAIN tree : n \in Seq(Token) /\ Len(n) \in Nat
  BY LenProperties DEF TypeOK
<1> DEFINE old(x) == IF x = upper THEN cur ELSE x
<1>2. \A x \in DOMAIN tree' : old(x) \in DOMAIN tree
  OBVIOUS
<1>3. \A x \in DOMAIN tree' :
        /\ x \in Seq(Token) /\ Len(x) \in Nat /\ Len(x) <= Len(old(x)) /\ Same(x, old(x), Len(x))
  BY <1>1 DEF Same
<1> HIDE DEF old
<1>4. ASSUME NEW m \in DOMAIN tree', NEW j \in Nat, j <= Len(m), SubSeq(old(m), 1, j) \in DOMAIN tree
      PROVE  SubSeq(m, 1, j) \in DOMAIN tree'
  <2>1. old(m) \in Seq(Token) /\ Len(old(m)) \in Nat
    BY <1>1, <1>2
  <2>2. Same(m, old(m), j) /\ j <= Len(old(m))
    BY <1>3, <1>4, <2>1 DEF Same
  <2>3. SubSeq(m, 1, j) = SubSeq(old(m), 1, j)
    BY <1>3, <1>4, <2>1, <2>2, SubSeqOfPrefix
  <2> QED
    BY <1>4, <2>3
<1>5. Branching'
  <2> SUFFICES ASSUME NEW m \in DOMAIN tree', NEW n \in DOMAIN tree', NEW j \in 0..Len(m) - 1,
                      j < Len(n), Same(m, n, j), m[j + 1] # n[j + 1]
               PROVE  m[j + 1] \notin Wild /\ SubSeq(m, 1, j) \in DOMAIN tree'
    BY DEF Branching
  <2>1. j \in Nat /\ j < Len(m) /\ Len(m) \in Nat /\ Len(n) \in Nat
    BY <1>3
  <2>2. Len(old(m)) \in Nat /\ Len(old(n)) \in Nat
    BY <1>1, <1>2
  <2>3. j \in 0..Len(old(m)) - 1 /\ j < Len(old(n))
    BY <1>3, <2>1, <2>2
  <2>4. old(m)[j + 1] = m[j + 1] /\ old(n)[j + 1] = n[j + 1]
    <3>1. j + 1 \in 1..Len(m) /\ j + 1 \in 1..Len(n)
      BY <2>1
    <3> QED
      BY <1>3, <3>1 DEF Same
  <2>5. Same(old(m), old(n), j)
    <3> SUFFICES ASSUME NEW x \in 1..j PROVE old(m)[x] = old(n)[x]
      BY DEF Same
    <3>1. x \in 1..Len(m) /\ x \in 1..Len(n)
      BY <2>1
    <3> QED
      BY <1>3, <3>1 DEF Same
  <2>6. old(m)[j + 1] \notin Wild /\ SubSeq(old(m), 1, j) \in DOMAIN tree
    BY <1>2, <2>3, <2>4, <2>5 DEF Radix, Branching
  <2> QED
    BY <1>4, <2>1, <2>4, <2>6
<1>6. ParametersStandAlone'
  <2> SUFFICES ASSUME NEW n \in DOMAIN tree', NEW j \in 1..Len(n) - 1
               PROVE  /\ n[j] \in Wild => n[j + 1] = Slash
                      /\ n[j + 1] \in Wild => SubSeq(n, 1, j) \in DOMAIN tree'
    BY DEF ParametersStandAlone, Spaced
  <2>0. Len(n) \in Nat /\ Len(old(n)) \in Nat
    BY <1>1, <1>2, <1>3
  <2>1. j \in Nat /\ j < Len(n) /\ Len(n) \in Nat /\ Len(old(n)) \in Nat
    BY <2>0
  <2>2. j \in 1..Len(old(n)) - 1 /\ j \in 1..Len(n) /\ j + 1 \in 1..Len(n)
    BY <1>3, <2>1
  <2>3. old(n)[j] = n[j] /\ old(n)[j + 1] = n[j + 1]
    BY <1>3, <2>2 DEF Same
  <2>4. /\ old(n)[j] \in Wild => old(n)[j + 1] = Slash
        /\ old(n)[j + 1] \in Wild => SubSeq(old(n), 1, j) \in DOMAIN tree
    BY <1>2, <2>2 DEF Radix, ParametersStandAlone, Spaced
  <2> QED
    BY <1>4, <2>1, <2>3, <2>4
<1>7. CatchAllsEnd'
  <2>1. \A j \in a + 1..Len(cur) : cur[j] \notin Wild
    BY <1>1, LabelIsStatic DEF Radix
  <2>2. upper[k] \notin Wild
    <3>1. k \in 1..k
      BY <1>1
    <3> QED
      BY <2>1, <3>1 DEF Same
  <2> QED
    BY <2>2 DEF Radix, CatchAllsEnd, Wild
<1>8. Candidates'
  <2> SUFFICES ASSUME NEW n \in DOMAIN tree', NEW m \in DOMAIN tree', tree'[m].leaf # None, Under(m, n)
               PROVE  tree'[m].leaf \in tree'[n].cands
    BY DEF Candidates
  <2>1. CASE n \in DOMAIN tree /\ m \in DOMAIN tree
    BY <2>1 DEF Radix, Candidates
  <2>2. CASE n = upper /\ m \in DOMAIN tree
    <3>1. Len(m) \in Nat /\ k <= Len(m) /\ \A j \in 1..k : m[j] = cur[j]
      BY <1>1, <2>2 DEF Under, Same
    <3>2. a < Len(m) /\ a < Len(cur) /\ \A j \in 1..a + 1 : j \in 1..k
      BY <1>1, <3>1
    <3>3. Same(m, cur, a + 1)
      BY <3>1, <3>2 DEF Same
    <3>4. Under(m, cur)
      BY <2>2, <3>2, <3>3, OneChild DEF Radix
    <3>5. tree[m].leaf \in tree[cur].cands
      BY <2>2, <3>4 DEF Radix, Candidates
    <3> QED
      BY <2>2, <3>5
  <2> QED
    BY <2>1, <2>2
<1> QED
  BY <1>5, <1>6, <1>7, <1>8 DEF Radix

\* The comparison of a label with the path.
LEMMA SegmentRadix == IInv /\ Radix /\ Marked /\ Segment => Radix' /\ Marked'
<1> SUFFICES ASSUME IInv, Radix, Marked, Segment PROVE Radix' /\ Marked'
  OBVIOUS
<1>1. /\ cur \in Seq(Token) /\ cur \in DOMAIN tree /\ offset \in Nat
      /\ Len(path) \in Nat /\ Len(cur) \in Nat /\ index \in Nat /\ IsTree(tree)
  BY LenProperties, IndexIsNat DEF IInv, TypeOK, Segment, IsTree
<1>2. /\ offset < Len(path) /\ offset < Len(cur) /\ cur[offset + 1] = path[offset + 1]
      /\ \A m \in DOMAIN tree : IsStrictPrefix(m, cur) => Len(m) <= offset
  BY DEF IInv, OnTheWay, Segment
<1>3. PICK i \in 0..Len(path) :
        /\ CommonPrefix(i)
        /\ tree' = IF offset + i = Len(cur)
                   THEN AddCandidate(tree, cur, index)
                   ELSE [m \in DOMAIN tree \cup {SubSeq(cur, 1, offset + i)} |->
                           IF m = SubSeq(cur, 1, offset + i)
                           THEN [cands |-> tree[cur].cands \cup {index}, leaf |-> None]
                           ELSE tree[m]]
        /\ cur' = SubSeq(cur, 1, offset + i)
        /\ offset' = offset + i
        /\ pc' = IF offset + i = Len(path) THEN "leaf" ELSE "descend"
  BY DEF Segment
<1>4. UNCHANGED <<inner, path, params, wildcard>> /\ UNCHANGED index
  BY DEF Segment, captures, index
<1>5. PICK k, upper : k = offset + i /\ upper = SubSeq(cur, 1, k)
  OBVIOUS
<1>6. k \in offset + 1..Len(cur) /\ k \in Nat /\ k >= 1 /\ k <= Len(cur)
  <2>1. i # 0
    BY <1>1, <1>2, <1>3 DEF CommonPrefix
  <2> QED
    BY <1>1, <1>3, <1>5, <2>1 DEF CommonPrefix
<1>7. upper \in Seq(Token) /\ Len(upper) = k /\ Same(upper, cur, k)
  <2>1. \A j \in 1..k : cur[j] \in Token
    BY <1>1, <1>6, ElementOfSeq
  <2> QED
    BY <1>5, <1>6, <2>1, SubSeqProperties DEF Same
<1>8. /\ tree' = IF k = Len(cur)
                 THEN AddCandidate(tree, cur, index)
                 ELSE [m \in DOMAIN tree \cup {upper} |->
                         IF m = upper
                         THEN [cands |-> tree[cur].cands \cup {index}, leaf |-> None]
                         ELSE tree[m]]
      /\ cur' = upper /\ offset' = k /\ pc' \in {"leaf", "descend"}
  BY <1>3, <1>5
<1>9. cur[offset + 1] \notin Wild
  BY <1>2 DEF Marked, Segment, NextToken
<1>10. IsStatic(cur')
  <2>1. \A j \in offset + 1..Len(cur) : cur[j] \notin Wild
    BY <1>1, <1>2, <1>9, LabelIsStatic DEF IInv, Radix
  <2>2. upper[k] = cur[k]
    BY <1>6, <1>7 DEF Same
  <2> QED
    BY <1>6, <1>7, <1>8, <2>1, <2>2 DEF IsStatic
<1>11. CASE k = Len(cur)
  <2>1. upper = cur
    BY <1>1, <1>7, <1>11, SeqEqual DEF Same
  <2>2. tree' = AddCandidate(tree, cur, index)
    BY <1>8, <1>11
  <2>3. SameLeaves(tree, tree')
    BY <1>1, <2>2, AddCandidateKeepsLeaves
  <2>4. (\A m \in DOMAIN tree : tree[m].cands \subseteq tree'[m].cands) /\ index \in tree'[cur].cands
    BY <1>1, <2>2, AddCandidateAdds
  <2>5. Radix'
    BY <2>3, <2>4, QuietRadix
  <2>6. \A n \in DOMAIN tree' : IsStrictPrefix(n, cur') => index \in tree'[n].cands
    BY <1>8, <2>1, <2>3, <2>4 DEF Marked, Segment, SameLeaves
  <2>7. Marked'
    BY <1>4, <1>8, <1>10, <2>1, <2>4, <2>6 DEF Marked, Segment
  <2> QED
    BY <2>5, <2>7
<1>12. CASE k # Len(cur)
  <2>1. upper \notin DOMAIN tree
    <3>1. IsStrictPrefix(upper, cur)
      BY <1>1, <1>6, <1>7, <1>12, StrictPrefix DEF Same
    <3> QED
      BY <1>1, <1>2, <1>6, <1>7, <3>1
  <2>2. tree' = [m \in DOMAIN tree \cup {upper} |->
                   IF m = upper
                   THEN [cands |-> tree[cur].cands \cup {index}, leaf |-> None]
                   ELSE tree[m]]
    BY <1>8, <1>12
  <2>3. /\ DOMAIN tree' = DOMAIN tree \cup {upper} /\ \A m \in DOMAIN tree : tree'[m] = tree[m]
        /\ tree'[upper].leaf = None /\ tree'[upper].cands = tree[cur].cands \cup {index}
    BY <2>1, <2>2
  <2>4. Radix'
    <3>1. k < Len(cur) /\ TypeOK
      BY <1>1, <1>6, <1>12 DEF IInv
    <3>2. tree[cur].cands \subseteq tree'[upper].cands
      BY <2>3
    <3>3. /\ DOMAIN tree' = DOMAIN tree \cup {upper} /\ \A m \in DOMAIN tree : tree'[m] = tree[m]
          /\ tree'[upper].leaf = None
      BY <2>3
    <3>4. PICK a : a = offset
      OBVIOUS
    <3>5. /\ a \in Nat /\ k \in a + 1..Len(cur) /\ cur[a + 1] \notin Wild /\ cur \in DOMAIN tree
          /\ \A m \in DOMAIN tree : IsStrictPrefix(m, cur) => Len(m) <= a
      BY <1>1, <1>2, <1>6, <1>9, <3>4
    <3> HIDE <1>1, <1>2, <1>6, <1>9, <2>2, <2>3, <3>4
    <3> QED
      BY <1>7, <3>1, <3>2, <3>3, <3>5, SplitRadix
  <2>5. \A n \in DOMAIN tree' : IsStrictPrefix(n, upper) => index \in tree'[n].cands
    <3> SUFFICES ASSUME NEW n \in DOMAIN tree, IsStrictPrefix(n, upper) PROVE index \in tree'[n].cands
      BY <2>3 
    <3>1. n \in Seq(Token) /\ Len(n) \in Nat
      BY <1>1, LenProperties DEF IsTree
    <3>2. Len(n) < k /\ \A j \in 1..Len(n) : n[j] = upper[j]
      BY <1>7, <3>1, StrictPrefix
    <3>3. IsStrictPrefix(n, cur)
      <4>1. Len(n) < Len(cur) /\ \A j \in 1..Len(n) : j \in 1..k
        BY <1>1, <1>6, <3>1, <3>2
      <4> QED
        BY <1>1, <1>7, <3>1, <3>2, <4>1, StrictPrefix DEF Same
    <3> QED
      BY <2>3, <3>3 DEF Marked, Segment
  <2>6. Marked'
    BY <1>4, <1>8, <1>10, <2>3, <2>5 DEF Marked, Segment
  <2> QED
    BY <2>4, <2>6
<1> QED
  BY <1>11, <1>12

\* An insertion keeps the tree a radix tree whose nodes know their routes.
LEMMA InsertRadix == IInv /\ Radix /\ Marked /\ Insert => Radix' /\ Marked'
<1> SUFFICES ASSUME IInv, Radix, Marked, Insert PROVE Radix' /\ Marked'
  OBVIOUS
<1>1. CASE InsertAsterisk \/ RefuseCatchAll \/ RefuseWildcard \/ RefuseStatic
  <2>1. Idle /\ UNCHANGED tree
    BY <1>1 DEF InsertAsterisk, RefuseCatchAll, RefuseWildcard, RefuseStatic, Fail
  <2> QED
    BY <2>1, QuietEnd DEF SameLeaves
<1>2. CASE \E p \in Patterns : BeginInsert(p)
  BY <1>2, PatternsAssumption, BeginInsertRadix
<1> QED
  BY <1>1, <1>2, PlantRadix, SegmentRadix, AddWildcardRadix, FollowWildcardRadix, FollowStaticRadix,
     AddStaticRadix, SetLeafRadix DEF Insert

\* A search changes neither.
LEMMA SearchRadix == IInv /\ Radix /\ Marked /\ Recognize => Radix' /\ Marked' /\ UNCHANGED <<tree, inner>>
<1> SUFFICES ASSUME IInv, Radix, Marked, Recognize PROVE Radix' /\ Marked' /\ UNCHANGED <<tree, inner>>
  OBVIOUS
<1>1. UNCHANGED <<tree, inner>> /\ (Idle \/ pc' = "match")
  <2>1. CASE RecognizeAsterisk \/ \E r \in Requests : BeginRecognize(r) \/ RecognizeNothing(r)
    BY <2>1 DEF RecognizeAsterisk, BeginRecognize, RecognizeNothing, registry
  <2>2. CASE MatchStatic
    BY <2>2 DEF MatchStatic, Outcome, Advance, PartiallyMatched, registry
  <2>3. CASE MatchParam
    BY <2>3 DEF MatchParam, LeafOrPartial, Outcome, Advance, PartiallyMatched, registry
  <2>4. CASE MatchCatchAll
    BY <2>4 DEF MatchCatchAll, LeafOrPartial, Outcome, registry
  <2> QED
    BY <2>1, <2>2, <2>3, <2>4 DEF Recognize
<1>2. Radix'
  BY <1>1, QuietRadix DEF SameLeaves
<1>3. Marked'
  <2>1. CASE Idle
    BY <2>1 DEF Idle, Marked
  <2>2. CASE pc' = "match"
    BY <2>2 DEF Marked
  <2> QED
    BY <1>1, <2>1, <2>2
<1> QED
  BY <1>1, <1>2, <1>3

-----------------------------------------------------------------------------
(* The search. *)

\* What the walk of a search knows of the routes it has left: where b is the
\* length of the text above its node, it has read the first m tokens, and what
\* it has not read is static text for which the request is too short.
Elsewhere(b, m) ==
  \A n \in DOMAIN tree : tree[n].leaf # None /\ ~Under(n, cur) =>
    /\ ~Matches(n, path)
    /\ m = b => ~Extendable(n, path)

\* The walk at its node.
Walk(b, m) ==
  /\ LabelStart(tree, cur, b)
  /\ Reaches(cur, m, path, params, offset)
  /\ m < b => /\ offset = Len(path) /\ Len(cur) = b + 1 /\ cur[b + 1] \in Wild
              /\ \A k \in m + 1..b : cur[k] \notin Wild
  /\ Elsewhere(b, m)

Searching ==
  pc = "match" =>
    /\ wildcard = <<>> /\ path \in Seq(Char)
    /\ \A k \in 1..Len(params) : SlashFree(path, params[k][1] + 1, params[k][2])
    /\ \E b \in 0..Len(cur) - 1 : \E m \in 0..b : Walk(b, m)

\* The answer, in terms of the tree: what was found is at a leaf, and a request
\* that was not found is no instance of a leaf.
FoundRight ==
  Found => \E n \in DOMAIN tree :
    /\ tree[n].leaf = result.index /\ result.request \in Seq(Char)
    /\ CapturesFit(n)
    /\ IsPrefix(result.request, Spelled(n))
    /\ n[Len(n)] \in Wild \/ Spelled(n) = result.request

MissedRight ==
  result.status \in {"partial", "not_matched"} =>
    \A n \in DOMAIN tree : tree[n].leaf # None =>
      /\ ~Matches(n, result.request)
      /\ Extendable(n, result.request) /\ ~RanOut => tree[n].leaf \in result.cands

Answered == (pc # "idle" => result = NoResult) /\ FoundRight /\ MissedRight

SearchInv == IInv /\ Radix /\ Marked /\ Searching /\ Answered

\* A search that stands before a token the request does not go on with.
LEMMA ReachStuck ==
  ASSUME NEW p \in Seq(Token), NEW r \in Seq(Token), NEW m \in Nat, NEW ps, NEW o, m < Len(p), Spaced(p),
         Reaches(p, m, r, ps, o), p[m + 1] \notin Wild, ~(o < Len(r) /\ r[o + 1] = p[m + 1])
  PROVE  ~Matches(p, r) /\ (o < Len(r) => ~Extendable(p, r))
<1>1. Len(p) \in Nat /\ Len(r) \in Nat
  BY LenProperties
<1>2. PICK pos : Laid(p, m, r, ps, pos) /\ pos[m] = o
  BY DEF Reaches
<1> QED
  BY <1>1, <1>2, Stuck

\* The same for every route under a node the search reads.
LEMMA UnderStuck ==
  ASSUME TypeOK, ParametersStandAlone, NEW c \in Seq(Token), NEW n \in DOMAIN tree, Under(n, c), NEW m \in Nat,
         m < Len(c), NEW o, Reaches(c, m, path, params, o), c[m + 1] \notin Wild,
         ~(o < Len(path) /\ path[o + 1] = c[m + 1])
  PROVE  ~Matches(n, path) /\ (o < Len(path) => ~Extendable(n, path))
<1>1. /\ n \in Seq(Token) /\ path \in Seq(Token) /\ Len(n) \in Nat /\ Len(c) \in Nat
      /\ Spaced(n)
  BY LenProperties DEF TypeOK, ParametersStandAlone
<1>2. m < Len(n) /\ m + 1 \in 1..Len(c) /\ \A j \in 1..m : j \in 1..Len(c)
  BY <1>1 DEF Under
<1>3. n[m + 1] = c[m + 1] /\ Same(c, n, m)
  BY <1>2 DEF Under, Same
<1>4. Reaches(n, m, path, params, o)
  BY <1>3, ReachSame
<1> QED
  BY <1>1, <1>2, <1>3, <1>4, ReachStuck

\* The text after the first a tokens.
LEMMA TextAfter ==
  ASSUME NEW x \in Seq(Token), NEW a \in 0..Len(x)
  PROVE  LET u == SubSeq(x, a + 1, Len(x)) IN
         /\ u \in Seq(Token) /\ Len(u) = Len(x) - a
         /\ \A j \in 1..Len(x) - a : u[j] = x[a + j]
<1>1. Len(x) \in Nat /\ a \in Nat /\ a <= Len(x)
  BY LenProperties
<1>2. \A j \in a + 1..Len(x) : x[j] \in Token
  <2>1. \A j \in a + 1..Len(x) : j \in 1..Len(x)
    BY <1>1
  <2> QED
    BY <2>1, ElementOfSeq
<1>3. PICK u : u = SubSeq(x, a + 1, Len(x))
  OBVIOUS
<1>4. /\ u \in Seq(Token)
      /\ Len(u) = IF a + 1 <= Len(x) THEN Len(x) - (a + 1) + 1 ELSE 0
      /\ \A j \in 1..Len(x) - (a + 1) + 1 : u[j] = x[(a + 1) + j - 1]
  BY <1>1, <1>2, <1>3, SubSeqProperties
<1>5. Len(u) = Len(x) - a
  BY <1>1, <1>4
<1>6. ASSUME NEW j \in 1..Len(x) - a PROVE u[j] = x[a + j]
  <2>1. j \in 1..Len(x) - (a + 1) + 1 /\ (a + 1) + j - 1 = a + j
    BY <1>1
  <2> QED
    BY <1>4, <2>1
<1> QED
  BY <1>3, <1>4, <1>5, <1>6

\* A node has one parent.
LEMMA OneLabel ==
  ASSUME TypeOK, NEW c \in DOMAIN tree, NEW a \in 0..Len(c) - 1, NEW b \in 0..Len(c) - 1,
         LabelStart(tree, c, a), LabelStart(tree, c, b)
  PROVE  a = b
<1>1. c \in Seq(Token) /\ Len(c) \in Nat
  BY LenProperties DEF TypeOK
<1>2. ASSUME NEW x \in 0..Len(c) - 1, NEW y \in 0..Len(c) - 1, LabelStart(tree, c, x),
             LabelStart(tree, c, y), x < y
      PROVE  FALSE
  <2>1. y \in Nat /\ y > 0 /\ y < Len(c)
    BY <1>1, <1>2
  <2>2. PICK u : u = SubSeq(c, 1, y)
    OBVIOUS
  <2>3. u \in DOMAIN tree
    BY <1>2, <2>1, <2>2 DEF LabelStart
  <2>4. u \in Seq(Token) /\ Len(u) = y /\ \A j \in 1..y : u[j] = c[j]
    <3>1. \A j \in 1..y : c[j] \in Token
      BY <1>1, <2>1, ElementOfSeq
    <3> QED
      BY <2>1, <2>2, <3>1, SubSeqProperties
  <2>5. IsStrictPrefix(u, c)
    BY <1>1, <2>1, <2>4, StrictPrefix
  <2>6. Len(u) <= x
    BY <1>2, <2>3, <2>5 DEF LabelStart
  <2> QED
    BY <1>1, <1>2, <2>4, <2>6
<1>3. ~(a < b) /\ ~(b < a)
  BY <1>2
<1> QED
  BY <1>1, <1>3

\* The label of a parameter is the parameter alone.
LEMMA WildLabel ==
  ASSUME TypeOK, ParametersStandAlone, ParametersAreNodes, NEW c \in DOMAIN tree, NEW b \in 0..Len(c) - 1,
         \A m \in DOMAIN tree : IsStrictPrefix(m, c) => Len(m) <= b
  PROVE  c[b + 1] \in Wild \/ c[Len(c)] \in Wild => Len(c) = b + 1
<1>1. c \in Seq(Token) /\ Len(c) \in Nat /\ b \in Nat /\ b < Len(c)
  BY LenProperties DEF TypeOK
<1> SUFFICES ASSUME c[b + 1] \in Wild \/ c[Len(c)] \in Wild, Len(c) # b + 1 PROVE FALSE
  OBVIOUS
<1>2. \A k \in b + 1..Len(c) - 1 : SubSeq(c, 1, k) \notin DOMAIN tree
  <2> SUFFICES ASSUME NEW k \in b + 1..Len(c) - 1, SubSeq(c, 1, k) \in DOMAIN tree PROVE FALSE
    OBVIOUS
  <2>1. k \in Nat /\ k > b /\ k < Len(c)
    BY <1>1
  <2>2. PICK u : u = SubSeq(c, 1, k)
    OBVIOUS
  <2>3. u \in Seq(Token) /\ Len(u) = k /\ \A j \in 1..k : u[j] = c[j]
    <3>1. \A j \in 1..k : c[j] \in Token
      BY <1>1, <2>1, ElementOfSeq
    <3> QED
      BY <2>1, <2>2, <3>1, SubSeqProperties
  <2>4. IsStrictPrefix(u, c)
    BY <1>1, <2>1, <2>3, StrictPrefix
  <2>5. u \in DOMAIN tree
    BY <2>2
  <2>6. Len(u) <= b
    BY <2>4, <2>5
  <2> QED
    BY <1>1, <2>1, <2>3, <2>6
<1>3. CASE c[b + 1] \in Wild
  <2>1. b + 1 \in 1..Len(c) /\ b + 1 \in b + 1..Len(c) - 1
    BY <1>1
  <2>2. SubSeq(c, 1, b + 1) \in DOMAIN tree
    BY <1>3, <2>1 DEF ParametersAreNodes
  <2> QED
    BY <1>2, <2>1, <2>2
<1>4. CASE c[Len(c)] \in Wild
  <2>1. PICK k : k = Len(c) - 1
    OBVIOUS
  <2>2. k \in 1..Len(c) - 1 /\ k + 1 = Len(c) /\ k \in b + 1..Len(c) - 1
    BY <1>1, <2>1
  <2>3. SubSeq(c, 1, k) \in DOMAIN tree
    BY <1>4, <2>2 DEF ParametersStandAlone
  <2> QED
    BY <1>2, <2>2, <2>3
<1> QED
  BY <1>3, <1>4

\* The foot of the loop: what lies below the node but not on the way that is
\* taken does not match; nor do the request's continuations, if text is left.
LEMMA FootStuck ==
  ASSUME TypeOK, Radix, cur \in DOMAIN tree, NEW o \in Nat, NEW ps,
         Reaches(cur, Len(cur), path, ps, o), Fits(o) = {},
         NEW n \in DOMAIN tree, tree[n].leaf # None, Under(n, cur), o < Len(path) \/ n # cur
  PROVE  ~Matches(n, path) /\ (o < Len(path) => ~Extendable(n, path))
<1>1. /\ cur \in Seq(Token) /\ n \in Seq(Token) /\ path \in Seq(Token) /\ Len(cur) \in Nat /\ Len(n) \in Nat
      /\ Len(path) \in Nat /\ ParametersStandAlone /\ Spaced(n)
  BY LenProperties DEF TypeOK, Radix, ParametersStandAlone
<1>2. Same(cur, n, Len(cur)) /\ Len(cur) <= Len(n)
  BY DEF Under
<1>3. Reaches(n, Len(cur), path, ps, o)
  BY <1>1, <1>2, ReachSame
<1>4. CASE Len(n) = Len(cur)
  <2>1. n = cur
    BY <1>1, <1>2, <1>4, SeqEqual DEF Same
  <2>2. PICK pos : Laid(n, Len(n), path, ps, pos) /\ pos[Len(n)] = o
    BY <1>3, <1>4 DEF Reaches
  <2> QED
    BY <1>1, <2>1, <2>2, TooLong
<1>5. CASE Len(n) > Len(cur)
  <2>1. IsStrictPrefix(cur, n)
    BY <1>1, <1>2, <1>5, StrictPrefix DEF Same
  <2>2. n \in Below(tree, cur)
    BY <2>1 DEF Below
  <2>3. PICK c \in Children(tree, cur) : c[Len(cur) + 1] = n[Len(cur) + 1]
    BY <2>2, ChildAbove
  <2>4. n[Len(cur) + 1] \notin Wild /\ ~(o < Len(path) /\ path[o + 1] = n[Len(cur) + 1])
    BY <2>3 DEF Fits
  <2> QED
    BY <1>1, <1>3, <1>5, <2>4, ReachStuck
<1> QED
  BY <1>1, <1>2, <1>4, <1>5

\* Where a child is taken, the rest of the node's routes is left for good.
LEMMA FootOther ==
  ASSUME TypeOK, Radix, cur \in DOMAIN tree, NEW o \in Nat, NEW ps,
         Reaches(cur, Len(cur), path, ps, o), NEW c \in Fits(o),
         NEW n \in DOMAIN tree, tree[n].leaf # None, Under(n, cur), ~Under(n, c), o < Len(path) \/ n # cur
  PROVE  ~Matches(n, path) /\ ~Extendable(n, path)
<1>1. /\ cur \in Seq(Token) /\ n \in Seq(Token) /\ path \in Seq(Token) /\ Len(cur) \in Nat /\ Len(n) \in Nat
      /\ Len(path) \in Nat /\ Spaced(n)
  BY LenProperties DEF TypeOK, Radix, ParametersStandAlone
<1>2. Same(cur, n, Len(cur)) /\ Len(cur) <= Len(n)
  BY DEF Under
<1>3. Reaches(n, Len(cur), path, ps, o)
  BY <1>1, <1>2, ReachSame
<1>4. CASE Len(n) = Len(cur)
  <2>1. n = cur
    BY <1>1, <1>2, <1>4, SeqEqual DEF Same
  <2>2. PICK pos : Laid(n, Len(n), path, ps, pos) /\ pos[Len(n)] = o
    BY <1>3, <1>4 DEF Reaches
  <2> QED
    BY <1>1, <2>1, <2>2, TooLong
<1>5. CASE Len(n) > Len(cur)
  <2>1. c \in Children(tree, cur) /\ (c[Len(cur) + 1] \in Wild \/ (o < Len(path) /\ c[Len(cur) + 1] = path[o + 1]))
    BY DEF Fits
  <2>2. /\ c \in DOMAIN tree /\ c \in Seq(Token) /\ Len(c) \in Nat
        /\ Len(cur) < Len(c) /\ \A j \in 1..Len(cur) : c[j] = cur[j]
        /\ \A m \in DOMAIN tree : IsStrictPrefix(m, c) => Len(m) <= Len(cur)
    BY <2>1, ChildText
  <2>3. Same(n, c, Len(cur)) /\ Same(c, n, Len(cur))
    BY <1>2, <2>2 DEF Same
  <2>4. n[Len(cur) + 1] # c[Len(cur) + 1]
    <3> SUFFICES ASSUME n[Len(cur) + 1] = c[Len(cur) + 1] PROVE FALSE
      OBVIOUS
    <3>1. Same(n, c, Len(cur) + 1)
      <4>1. \A j \in 1..Len(cur) + 1 : j \in 1..Len(cur) \/ j = Len(cur) + 1
        BY <1>1
      <4> QED
        BY <2>3, <4>1 DEF Same
    <3>2. Under(n, c)
      BY <1>1, <1>5, <2>2, <3>1, OneChild DEF Radix
    <3> QED
      BY <3>2
  <2>5. n[Len(cur) + 1] \notin Wild /\ c[Len(cur) + 1] \notin Wild
    <3>1. Len(cur) \in 0..Len(n) - 1 /\ Len(cur) \in 0..Len(c) - 1 /\ Len(cur) < Len(n) /\ Len(cur) < Len(c)
      BY <1>1, <1>5, <2>2
    <3>2. n[Len(cur) + 1] \notin Wild
      BY <2>2, <2>3, <2>4, <3>1 DEF Radix, Branching
    <3>3. c[Len(cur) + 1] \notin Wild
      BY <2>2, <2>3, <2>4, <3>1 DEF Radix, Branching
    <3> QED
      BY <3>2, <3>3
  <2>6. o < Len(path) /\ path[o + 1] # n[Len(cur) + 1]
    BY <2>1, <2>4, <2>5
  <2> QED
    BY <1>1, <1>3, <1>5, <2>5, <2>6, ReachStuck
<1> QED
  BY <1>1, <1>2, <1>4, <1>5

-----------------------------------------------------------------------------
(* The ways a turn of the search can end. *)

\* It answers with a leaf: a route that spells the request.
LEMMA AnswerFound ==
  ASSUME IInv, cur \in DOMAIN tree, tree[cur].leaf # None, path \in Seq(Char), NEW ps, NEW w,
         NEW span, span = IF w = <<>> THEN <<0, 0>> ELSE w[1],
         Outcome("ok", tree[cur].leaf, ps, w, {}),
         Len(ps) = Count(cur, Len(cur), ":"), Len(w) = Count(cur, Len(cur), "*"),
         \A k \in 1..Len(ps) : SlashFree(path, ps[k][1] + 1, ps[k][2]),
         IsPrefix(path, Fill(cur, path, ps, span)),
         cur[Len(cur)] \in Wild \/ Fill(cur, path, ps, span) = path
  PROVE  Searching' /\ Answered'
<1>1. /\ result' = [status |-> "ok", index |-> tree[cur].leaf, request |-> path,
                    params |-> ps, wildcard |-> w, cands |-> {}]
      /\ pc' = "idle" /\ tree' = tree
  BY DEF Outcome, Idle, registry
<1>2. /\ result'.status = "ok" /\ result'.index = tree[cur].leaf /\ result'.request = path
      /\ result'.params = ps /\ result'.wildcard = w
  BY <1>1
<1>3. Searching'
  BY <1>1 DEF Searching
<1>4. PICK n : n = cur
  OBVIOUS
<1>5. CapturesFit(n)'
  BY <1>2, <1>4 DEF CapturesFit
<1>6. Spelled(n)' = Fill(n, path, ps, span)
  BY <1>2 DEF Spelled
<1>7. FoundRight'
  BY <1>1, <1>2, <1>5, <1>6, <1>4 DEF FoundRight
<1>8. MissedRight'
  BY <1>2 DEF MissedRight
<1> QED
  BY <1>1, <1>3, <1>7, <1>8 DEF Answered

\* It answers that there is none.
LEMMA AnswerMissed ==
  ASSUME IInv, NEW status \in {"partial", "not_matched"}, NEW i, NEW ps, NEW w, NEW cands,
         Outcome(status, i, ps, w, cands),
         \A n \in DOMAIN tree : tree[n].leaf # None =>
           /\ ~Matches(n, path)
           /\ Extendable(n, path) => tree[n].leaf \in cands \/ (ps # <<>> /\ Last(ps) = <<Len(path), Len(path)>>)
  PROVE  Searching' /\ Answered'
<1>1. /\ result' = [status |-> status, index |-> i, request |-> path,
                    params |-> ps, wildcard |-> w, cands |-> cands]
      /\ pc' = "idle" /\ tree' = tree
  BY DEF Outcome, Idle, registry
<1>2. /\ result'.status # "ok" /\ result'.request = path
      /\ result'.params = ps /\ result'.cands = cands
  BY <1>1
<1>3. Searching'
  BY <1>1 DEF Searching
<1>4. FoundRight'
  BY <1>2 DEF FoundRight, Found
<1>5. RanOut' <=> ps # <<>> /\ Last(ps) = <<Len(path), Len(path)>>
  BY <1>2 DEF RanOut
<1>6. MissedRight'
  BY <1>1, <1>2, <1>5 DEF MissedRight
<1> QED
  BY <1>1, <1>3, <1>4, <1>6 DEF Answered

\* It goes down to a child.
LEMMA GoesDown ==
  ASSUME IInv, Radix, Searching, Answered, pc = "match", NEW o \in Nat, NEW ps,
         cur' \in Fits(o), offset' = o, params' = ps, UNCHANGED <<registry, pc, path, wildcard, result>>,
         NEW m \in 0..Len(cur), Reaches(cur, m, path, ps, o),
         m < Len(cur) => o = Len(path) /\ \A k \in m + 1..Len(cur) : cur[k] \notin Wild,
         \A k \in 1..Len(ps) : SlashFree(path, ps[k][1] + 1, ps[k][2]),
         \A n \in DOMAIN tree : tree[n].leaf # None /\ ~Under(n, cur') =>
           ~Matches(n, path) /\ (m = Len(cur) => ~Extendable(n, path))
  PROVE  Searching' /\ Answered'
<1>1. tree' = tree /\ pc' = "match" /\ path' = path /\ wildcard' = <<>> /\ path \in Seq(Char)
  BY DEF registry, Searching
<1>2. /\ cur' \in DOMAIN tree /\ cur' \in Seq(Token) /\ Len(cur') \in Nat
      /\ Len(cur) < Len(cur') /\ \A j \in 1..Len(cur) : cur'[j] = cur[j]
      /\ \A x \in DOMAIN tree : IsStrictPrefix(x, cur') => Len(x) <= Len(cur)
      /\ cur \in DOMAIN tree /\ cur \in Seq(Token) /\ Len(cur) \in Nat
  BY ChildText, LenProperties DEF Fits, IInv, TypeOK
<1>3. cur'[Len(cur) + 1] \in Wild \/ o < Len(path)
  BY DEF Fits
<1>4. PICK L : L = Len(cur)
  OBVIOUS
<1>5. /\ L \in Nat /\ L \in 0..Len(cur') - 1 /\ L < Len(cur') /\ m \in 0..L /\ m \in Nat
      /\ \A x \in DOMAIN tree : IsStrictPrefix(x, cur') => Len(x) <= L
  BY <1>2, <1>4
<1>6. LabelStart(tree', cur', L)
  <2>1. PICK u : u = SubSeq(cur', 1, L)
    OBVIOUS
  <2>2. u \in Seq(Token) /\ Len(u) = L /\ \A j \in 1..L : u[j] = cur'[j]
    <3>1. \A j \in 1..L : cur'[j] \in Token
      BY <1>2, <1>5, ElementOfSeq
    <3> QED
      BY <1>5, <2>1, <3>1, SubSeqProperties
  <2>3. u = cur
    BY <1>2, <1>4, <2>2, SeqEqual
  <2> QED
    BY <1>1, <1>2, <1>5, <2>1, <2>3 DEF LabelStart
<1>7. Reaches(cur', m, path', params', offset')
  <2>1. Same(cur, cur', m)
    BY <1>2, <1>4, <1>5 DEF Same
  <2>2. Reaches(cur', m, path, ps, o)
    BY <1>5, <2>1, ReachSame
  <2> QED
    BY <1>1, <2>2
<1>8. m < L => /\ offset' = Len(path') /\ Len(cur') = L + 1 /\ cur'[L + 1] \in Wild
               /\ \A k \in m + 1..L : cur'[k] \notin Wild
  <2> SUFFICES ASSUME m < L
               PROVE  /\ offset' = Len(path') /\ Len(cur') = L + 1 /\ cur'[L + 1] \in Wild
                      /\ \A k \in m + 1..L : cur'[k] \notin Wild
    OBVIOUS
  <2>1. o = Len(path) /\ Len(path) \in Nat /\ \A k \in m + 1..L : cur[k] \notin Wild
    BY <1>4
  <2>2. cur'[L + 1] \in Wild
    BY <1>3, <1>4, <2>1
  <2>3. Len(cur') = L + 1
    BY <1>2, <1>5, <2>2, WildLabel DEF IInv, TreeInv, Radix
  <2>4. \A k \in m + 1..L : cur'[k] = cur[k]
    <3>1. \A k \in m + 1..L : k \in 1..L
      BY <1>5
    <3> QED
      BY <1>2, <1>4, <3>1
  <2> QED
    BY <1>1, <2>1, <2>2, <2>3, <2>4
<1>9. Elsewhere(L, m)'
  BY <1>1, <1>4 DEF Elsewhere
<1>10. Walk(L, m)'
  BY <1>6, <1>7, <1>8, <1>9 DEF Walk
<1>11. Searching'
  BY <1>1, <1>5, <1>10 DEF Searching
<1>12. Answered'
  BY <1>1 DEF Answered, FoundRight, MissedRight, Found, CapturesFit, Spelled, RanOut
<1> QED
  BY <1>11, <1>12

\* Static text that is read.
LEMMA ReadsLabel ==
  ASSUME TypeOK, NEW b \in Nat, b < Len(cur), Reaches(cur, b, path, params, offset),
         \A k \in b + 1..Len(cur) : cur[k] \notin Wild,
         NEW d \in Nat, d <= Len(cur) - b, offset + d <= Len(path),
         \A j \in 1..d : cur[b + j] = path[offset + j]
  PROVE  Reaches(cur, b + d, path, params, offset + d)
<1>1. Len(cur) \in Nat /\ Len(path) \in Nat /\ offset \in Nat
  BY LenProperties DEF TypeOK
<1>2. PICK n : n = b + d
  OBVIOUS
<1>3. n \in Nat /\ b <= n /\ n - b = d
  BY <1>2
<1>4. \A k \in b + 1..n : cur[k] \notin Wild /\ path[offset + (k - b)] = cur[k]
  <2> SUFFICES ASSUME NEW k \in b + 1..n PROVE cur[k] \notin Wild /\ path[offset + (k - b)] = cur[k]
    OBVIOUS
  <2>1. k \in b + 1..Len(cur)
    BY <1>1, <1>2
  <2>2. k - b \in 1..d /\ b + (k - b) = k
    BY <1>2
  <2> QED
    BY <2>1, <2>2
<1>5. Reaches(cur, n, path, params, offset + (n - b))
  BY <1>1, <1>3, <1>4, ReachStatic
<1> QED
  BY <1>2, <1>3, <1>5

\* Before a node of static text all of its parent's text has been read.
LEMMA StaticWalk ==
  ASSUME IInv, Radix, cur \in DOMAIN tree, IsStatic(cur), NEW b \in 0..Len(cur) - 1, NEW m \in 0..b, Walk(b, m)
  PROVE  m = b /\ \A k \in b + 1..Len(cur) : cur[k] \notin Wild
<1>1. /\ cur \in Seq(Token) /\ Len(cur) \in Nat /\ b \in Nat /\ b < Len(cur)
      /\ cur[Len(cur)] \notin Wild
      /\ \A n \in DOMAIN tree : IsStrictPrefix(n, cur) => Len(n) <= b
  BY LenProperties DEF IInv, TypeOK, IsStatic, Walk, LabelStart
<1>2. m = b
  <2> SUFFICES ASSUME m < b PROVE FALSE
    OBVIOUS
  <2> QED
    BY <1>1 DEF Walk
<1>3. cur[b + 1] \notin Wild
  <2> SUFFICES ASSUME cur[b + 1] \in Wild PROVE FALSE
    OBVIOUS
  <2>1. Len(cur) = b + 1
    BY <1>1, WildLabel DEF IInv, TreeInv, Radix
  <2> QED
    BY <1>1, <2>1
<1> QED
  BY <1>1, <1>2, <1>3, LabelIsStatic DEF IInv, Radix

\* No catch-all was read.
LEMMA NoCatchAll ==
  ASSUME NEW p, NEW r, NEW m \in Nat, NEW n \in Nat, m <= n, NEW ps, NEW o, Reaches(p, m, r, ps, o),
         \A k \in m + 1..n : p[k] \notin Wild
  PROVE  Count(p, n, "*") = 0 /\ Count(p, n, ":") = Len(ps)
<1>1. PICK pos : Laid(p, m, r, ps, pos)
  BY DEF Reaches
<1>2. \A k \in 1..n : p[k] # "*"
  <2> SUFFICES ASSUME NEW k \in 1..n PROVE p[k] # "*"
    OBVIOUS
  <2>1. k \in 1..m \/ k \in m + 1..n
    OBVIOUS
  <2> QED
    BY <1>1, <2>1 DEF Laid, Wild
<1>3. Count(p, n, "*") = Count(p, 0, "*")
  BY <1>2, CountStatic
<1>4. Count(p, n, ":") = Count(p, m, ":")
  <2>1. \A k \in m + 1..n : p[k] # ":"
    BY DEF Wild
  <2> QED
    BY <2>1, CountStatic
<1> QED
  BY <1>3, <1>4, CountStep DEF Reaches

\* A turn at static text compares what is left of the request with a label all
\* of whose parent's text has been read.
LEMMA StaticLabel ==
  ASSUME IInv, Radix, Searching, MatchStatic
  PROVE
  \E b \in 0..Len(cur) - 1 : \E s, rest \in Seq(Token) :
    /\ Walk(b, b) /\ offset <= Len(path) /\ \A k \in b + 1..Len(cur) : cur[k] \notin Wild
    /\ Len(s) = Len(cur) - b /\ \A j \in 1..Len(cur) - b : s[j] = cur[b + j]
    /\ Len(rest) = Len(path) - offset /\ \A j \in 1..Len(path) - offset : rest[j] = path[offset + j]
    /\ \/ Len(s) < Len(rest) /\ IsPrefix(s, rest) /\ Advance(offset + Len(s), params)
       \/ Len(s) > Len(rest) /\ IsPrefix(rest, s) /\ Advance(Len(path), params)
       \/ /\ s = rest /\ tree[cur].leaf # None
          /\ Outcome("ok", tree[cur].leaf, params, wildcard, {})
       \/ s = rest /\ tree[cur].leaf = None /\ Advance(Len(path), params)
       \/ /\ ~IsPrefix(s, rest) /\ ~IsPrefix(rest, s)
          /\ Outcome("not_matched", None, params, wildcard, {})
<1>1. /\ cur \in DOMAIN tree /\ cur \in Seq(Token) /\ path \in Seq(Token) /\ Len(cur) \in Nat
      /\ Len(path) \in Nat /\ offset \in Nat /\ pc = "match" /\ IsStatic(cur) /\ TypeOK
      /\ ParametersStandAlone /\ Candidates
  BY LenProperties DEF IInv, TypeOK, MatchStatic, Radix
<1>3. PICK b \in 0..Len(cur) - 1 : \E m \in 0..b : Walk(b, m)
  BY <1>1 DEF Searching
<1>4. PICK m \in 0..b : Walk(b, m)
  BY <1>3
<1>5. m = b /\ \A k \in b + 1..Len(cur) : cur[k] \notin Wild
  BY <1>1, <1>4, StaticWalk
<1>6. /\ b \in Nat /\ b < Len(cur) /\ LabelStart(tree, cur, b)
      /\ Reaches(cur, b, path, params, offset) /\ offset <= Len(path)
  <2>1. LabelStart(tree, cur, b) /\ Reaches(cur, b, path, params, offset)
    BY <1>4, <1>5 DEF Walk
  <2>2. PICK pos : Laid(cur, b, path, params, pos) /\ pos[b] = offset
    BY <2>1 DEF Reaches
  <2>3. b \in Nat /\ b < Len(cur)
    BY <1>1
  <2>4. offset \in 0..Len(path)
    BY <2>2, <2>3 DEF Laid
  <2> QED
    BY <2>1, <2>3, <2>4
<1>7. Walk(b, b)
  BY <1>4, <1>5
<1>8. PICK s, rest : s = SubSeq(cur, b + 1, Len(cur)) /\ rest = Rest
  OBVIOUS
<1>9. /\ \/ Len(s) < Len(rest) /\ IsPrefix(s, rest) /\ Advance(offset + Len(s), params)
         \/ Len(s) > Len(rest) /\ IsPrefix(rest, s) /\ Advance(Len(path), params)
         \/ /\ s = rest /\ tree[cur].leaf # None
            /\ Outcome("ok", tree[cur].leaf, params, wildcard, {})
         \/ s = rest /\ tree[cur].leaf = None /\ Advance(Len(path), params)
         \/ /\ ~IsPrefix(s, rest) /\ ~IsPrefix(rest, s)
            /\ Outcome("not_matched", None, params, wildcard, {})
  <2>1. PICK a \in 0..Len(cur) - 1 :
          LET t == SubSeq(cur, a + 1, Len(cur)) IN
          /\ LabelStart(tree, cur, a)
          /\ \/ Len(t) < Len(Rest) /\ IsPrefix(t, Rest) /\ Advance(offset + Len(t), params)
             \/ Len(t) > Len(Rest) /\ IsPrefix(Rest, t) /\ Advance(Len(path), params)
             \/ /\ t = Rest /\ tree[cur].leaf # None
                /\ Outcome("ok", tree[cur].leaf, params, wildcard, {})
             \/ t = Rest /\ tree[cur].leaf = None /\ Advance(Len(path), params)
             \/ /\ ~IsPrefix(t, Rest) /\ ~IsPrefix(Rest, t)
                /\ Outcome("not_matched", None, params, wildcard, {})
    BY DEF MatchStatic
  <2>2. a = b
    BY <1>1, <1>6, <2>1, OneLabel
  <2> HIDE DEF Rest
  <2> QED
    BY <1>8, <2>1, <2>2
<1>10. /\ s \in Seq(Token) /\ Len(s) = Len(cur) - b
       /\ \A j \in 1..Len(cur) - b : s[j] = cur[b + j]
  <2>1. b \in 0..Len(cur)
    BY <1>1
  <2> QED
    BY <1>1, <1>8, <2>1, TextAfter
<1>11. /\ rest \in Seq(Token) /\ Len(rest) = Len(path) - offset
       /\ \A j \in 1..Len(path) - offset : rest[j] = path[offset + j]
  <2>1. offset \in 0..Len(path)
    BY <1>1, <1>6
  <2> QED
    BY <1>1, <1>8, <2>1, TextAfter DEF Rest
<1> QED
  BY <1>5, <1>6, <1>7, <1>9, <1>10, <1>11

\* A turn at static text: the label is read, or the request ends in it, or it
\* is another text.
LEMMA StaticSearch ==
  IInv /\ Radix /\ Searching /\ Answered /\ MatchStatic => Searching' /\ Answered'
<1> SUFFICES ASSUME IInv, Radix, Searching, Answered, MatchStatic PROVE Searching' /\ Answered'
  OBVIOUS
<1>1. /\ cur \in DOMAIN tree /\ cur \in Seq(Token) /\ path \in Seq(Token) /\ Len(cur) \in Nat
      /\ Len(path) \in Nat /\ offset \in Nat /\ pc = "match" /\ IsStatic(cur) /\ TypeOK
      /\ ParametersStandAlone /\ Candidates
  BY LenProperties DEF IInv, TypeOK, MatchStatic, Radix
<1>2. /\ wildcard = <<>> /\ path \in Seq(Char)
      /\ \A k \in 1..Len(params) : SlashFree(path, params[k][1] + 1, params[k][2])
  BY <1>1 DEF Searching
<1>3. PICK b \in 0..Len(cur) - 1, s \in Seq(Token), rest \in Seq(Token) :
        /\ Walk(b, b) /\ offset <= Len(path) /\ \A k \in b + 1..Len(cur) : cur[k] \notin Wild
        /\ Len(s) = Len(cur) - b /\ \A j \in 1..Len(cur) - b : s[j] = cur[b + j]
        /\ Len(rest) = Len(path) - offset /\ \A j \in 1..Len(path) - offset : rest[j] = path[offset + j]
        /\ \/ Len(s) < Len(rest) /\ IsPrefix(s, rest) /\ Advance(offset + Len(s), params)
           \/ Len(s) > Len(rest) /\ IsPrefix(rest, s) /\ Advance(Len(path), params)
           \/ /\ s = rest /\ tree[cur].leaf # None
              /\ Outcome("ok", tree[cur].leaf, params, wildcard, {})
           \/ s = rest /\ tree[cur].leaf = None /\ Advance(Len(path), params)
           \/ /\ ~IsPrefix(s, rest) /\ ~IsPrefix(rest, s)
              /\ Outcome("not_matched", None, params, wildcard, {})
  BY StaticLabel
<1>5. \A k \in b + 1..Len(cur) : cur[k] \notin Wild
  BY <1>3
<1>6. /\ b \in Nat /\ b < Len(cur) /\ LabelStart(tree, cur, b)
      /\ Reaches(cur, b, path, params, offset) /\ offset <= Len(path)
  BY <1>1, <1>3 DEF Walk
<1>7. \A n \in DOMAIN tree : tree[n].leaf # None /\ ~Under(n, cur) => ~Matches(n, path) /\ ~Extendable(n, path)
  BY <1>3 DEF Walk, Elsewhere
<1>9. /\ \/ Len(s) < Len(rest) /\ IsPrefix(s, rest) /\ Advance(offset + Len(s), params)
         \/ Len(s) > Len(rest) /\ IsPrefix(rest, s) /\ Advance(Len(path), params)
         \/ /\ s = rest /\ tree[cur].leaf # None
            /\ Outcome("ok", tree[cur].leaf, params, wildcard, {})
         \/ s = rest /\ tree[cur].leaf = None /\ Advance(Len(path), params)
         \/ /\ ~IsPrefix(s, rest) /\ ~IsPrefix(rest, s)
            /\ Outcome("not_matched", None, params, wildcard, {})
  BY <1>3
<1>10. /\ s \in Seq(Token) /\ Len(s) = Len(cur) - b
       /\ \A j \in 1..Len(cur) - b : s[j] = cur[b + j]
  BY <1>3
<1>11. /\ rest \in Seq(Token) /\ Len(rest) = Len(path) - offset
       /\ \A j \in 1..Len(path) - offset : rest[j] = path[offset + j]
  BY <1>3
\* What has been read when the two agree up to d.
<1>12. ASSUME NEW d \in Nat, d <= Len(s), d <= Len(rest), \A j \in 1..d : s[j] = rest[j]
       PROVE  Reaches(cur, b + d, path, params, offset + d)
  <2>1. \A j \in 1..d : cur[b + j] = path[offset + j]
    <3> SUFFICES ASSUME NEW j \in 1..d PROVE cur[b + j] = path[offset + j]
      OBVIOUS
    <3>1. j \in 1..Len(cur) - b /\ j \in 1..Len(path) - offset
      BY <1>1, <1>6, <1>10, <1>11, <1>12
    <3> QED
      BY <1>10, <1>11, <1>12, <3>1
  <2>2. d <= Len(cur) - b /\ offset + d <= Len(path)
    BY <1>1, <1>6, <1>10, <1>11, <1>12
  <2> QED
    BY <1>1, <1>5, <1>6, <2>1, <2>2, ReadsLabel
\* Where the label goes on and the request does not, or does otherwise.
<1>13. ASSUME NEW d \in Nat, d < Len(s), d <= Len(rest), \A j \in 1..d : s[j] = rest[j],
              ~(d < Len(rest) /\ rest[d + 1] = s[d + 1]),
              NEW n \in DOMAIN tree, Under(n, cur)
       PROVE  ~Matches(n, path) /\ (d < Len(rest) => ~Extendable(n, path))
  <2>1. PICK k, o : k = b + d /\ o = offset + d
    OBVIOUS
  <2>2. Reaches(cur, k, path, params, o)
    <3>1. d <= Len(s)
      BY <1>1, <1>6, <1>10, <1>13
    <3> QED
      BY <1>12, <1>13, <2>1, <3>1
  <2>3. k \in Nat /\ k < Len(cur) /\ k + 1 \in b + 1..Len(cur) /\ (o < Len(path) <=> d < Len(rest))
    <3>1. k \in Nat /\ k < Len(cur) /\ k + 1 \in b + 1..Len(cur)
      BY <1>1, <1>6, <1>10, <1>13, <2>1
    <3>2. o < Len(path) <=> d < Len(rest)
      BY <1>1, <1>6, <1>11, <2>1
    <3> QED
      BY <3>1, <3>2
  <2>4. s[d + 1] = cur[k + 1]
    <3>1. d + 1 \in 1..Len(cur) - b /\ b + (d + 1) = k + 1
      BY <1>1, <1>6, <1>10, <1>13, <2>1
    <3> QED
      BY <1>10, <3>1
  <2>5. d < Len(rest) => rest[d + 1] = path[o + 1]
    <3> SUFFICES ASSUME d < Len(rest) PROVE rest[d + 1] = path[o + 1]
      OBVIOUS
    <3>1. d + 1 \in 1..Len(path) - offset /\ offset + (d + 1) = o + 1
      BY <1>1, <1>6, <1>11, <2>1
    <3> QED
      BY <1>11, <3>1
  <2>6. cur[k + 1] \notin Wild /\ ~(o < Len(path) /\ path[o + 1] = cur[k + 1])
    BY <1>5, <1>13, <2>3, <2>4, <2>5
  <2> QED
    BY <1>1, <1>13, <2>2, <2>3, <2>6, UnderStuck
\* The whole label.
<1>14. ASSUME Len(s) <= Len(rest), IsPrefix(s, rest)
       PROVE  Reaches(cur, Len(cur), path, params, offset + Len(s))
  <2>1. \A j \in 1..Len(s) : s[j] = rest[j]
    BY <1>10, <1>11, <1>14, PrefixAt, SMTT(20)
  <2>2. PICK d : d = Len(s)
    OBVIOUS
  <2>3. d \in Nat /\ b + d = Len(cur) /\ d <= Len(s) /\ d <= Len(rest)
    BY <1>1, <1>6, <1>10, <1>14, <2>2
  <2>4. Reaches(cur, b + d, path, params, offset + d)
    BY <1>12, <2>1, <2>2, <2>3
  <2> QED
    BY <2>2, <2>3, <2>4
<1>15. CASE Len(s) < Len(rest) /\ IsPrefix(s, rest) /\ Advance(offset + Len(s), params)
  <2>1. PICK o : o = offset + Len(s)
    OBVIOUS
  <2>2. o \in Nat /\ o < Len(path)
    BY <1>1, <1>6, <1>10, <1>11, <1>15, <2>1
  <2>3. Reaches(cur, Len(cur), path, params, o) /\ Advance(o, params)
    BY <1>1, <1>6, <1>10, <1>11, <1>14, <1>15, <2>1
  <2>4. CASE Fits(o) = {}
    <3>1. Outcome("partial", None, params, wildcard, tree[cur].cands)
      BY <2>3, <2>4 DEF Advance, PartiallyMatched
    <3>2. \A n \in DOMAIN tree : tree[n].leaf # None => ~Matches(n, path) /\ ~Extendable(n, path)
      BY <1>1, <1>7, <2>2, <2>3, <2>4, FootStuck
    <3> QED
      BY <3>1, <3>2, AnswerMissed
  <2>5. CASE Fits(o) # {}
    <3>1. /\ cur' \in Fits(o) /\ offset' = o /\ params' = params
          /\ UNCHANGED <<registry, pc, path, wildcard, result>>
      BY <2>3, <2>5 DEF Advance
    <3>2. PICK c \in Fits(o) : c = cur'
      BY <3>1
    <3>3. \A n \in DOMAIN tree : tree[n].leaf # None /\ ~Under(n, c) => ~Matches(n, path) /\ ~Extendable(n, path)
      BY <1>1, <1>7, <2>2, <2>3, FootOther
    <3>4. Len(cur) \in 0..Len(cur) /\ ~(Len(cur) < Len(cur))
      BY <1>1
    <3> QED
      BY <1>1, <1>2, <2>2, <2>3, <3>1, <3>2, <3>3, <3>4, GoesDown
  <2> QED
    BY <2>4, <2>5
<1>16. CASE Len(s) > Len(rest) /\ IsPrefix(rest, s) /\ Advance(Len(path), params)
  <2>1. PICK d, m2, o : d = Len(rest) /\ m2 = b + d /\ o = Len(path)
    OBVIOUS
  <2>2. d \in Nat /\ d < Len(s) /\ d <= Len(rest) /\ ~(d < Len(rest)) /\ offset + d = o
    BY <1>1, <1>6, <1>10, <1>11, <1>16, <2>1
  <2>3. \A j \in 1..d : s[j] = rest[j]
    BY <1>10, <1>11, <1>16, <2>1, PrefixAt
  <2>4. Reaches(cur, m2, path, params, o)
    <3>1. d <= Len(s)
      BY <1>1, <1>6, <1>10, <2>2
    <3>2. Reaches(cur, b + d, path, params, offset + d)
      BY <1>12, <2>2, <2>3, <3>1
    <3> QED
      BY <2>1, <2>2, <3>2
  <2>5. \A n \in DOMAIN tree : tree[n].leaf # None => ~Matches(n, path)
    BY <1>7, <1>13, <2>2, <2>3
  <2>6. m2 \in 0..Len(cur) /\ m2 < Len(cur) /\ b + 1 <= m2 + 1 /\ o \in Nat /\ m2 \in Nat
    BY <1>1, <1>6, <1>10, <2>1, <2>2
  <2>7. Advance(o, params)
    BY <1>16, <2>1
  <2>8. CASE Fits(o) = {}
    <3>1. Outcome("partial", None, params, wildcard, tree[cur].cands)
      BY <2>7, <2>8 DEF Advance, PartiallyMatched
    <3>2. \A n \in DOMAIN tree : tree[n].leaf # None =>
            ~Matches(n, path) /\ (Extendable(n, path) => tree[n].leaf \in tree[cur].cands)
      BY <1>1, <1>7, <2>5 DEF Candidates
    <3> QED
      BY <3>1, <3>2, AnswerMissed
  <2>9. CASE Fits(o) # {}
    <3>1. /\ cur' \in Fits(o) /\ offset' = o /\ params' = params
          /\ UNCHANGED <<registry, pc, path, wildcard, result>>
      BY <2>7, <2>9 DEF Advance
    <3>2. \A k \in m2 + 1..Len(cur) : cur[k] \notin Wild
      <4>1. \A k \in m2 + 1..Len(cur) : k \in b + 1..Len(cur)
        BY <1>1, <1>6, <2>6
      <4> QED
        BY <1>5, <4>1
    <3>3. m2 # Len(cur)
      BY <1>1, <2>6
    <3> QED
      BY <1>1, <1>2, <2>1, <2>4, <2>5, <2>6, <3>1, <3>2, <3>3, GoesDown
  <2> QED
    BY <2>8, <2>9
<1>17. ASSUME s = rest PROVE Reaches(cur, Len(cur), path, params, Len(path))
  <2>1. IsPrefix(s, rest) /\ Len(s) <= Len(rest)
    BY <1>1, <1>10, <1>11, <1>17, PrefixAt
  <2>2. offset + Len(s) = Len(path)
    BY <1>1, <1>6, <1>11, <1>17
  <2> QED
    BY <1>14, <2>1, <2>2
<1>18. CASE s = rest /\ tree[cur].leaf # None /\ Outcome("ok", tree[cur].leaf, params, wildcard, {})
  <2>1. Reaches(cur, Len(cur), path, params, Len(path))
    BY <1>17, <1>18
  <2>2. Count(cur, Len(cur), "*") = 0 /\ Count(cur, Len(cur), ":") = Len(params)
    <3>1. PICK L : L = Len(cur)
      OBVIOUS
    <3>2. L \in Nat /\ L <= L /\ \A k \in L + 1..L : cur[k] \notin Wild
      BY <1>1, <3>1
    <3>3. Reaches(cur, L, path, params, Len(path))
      BY <2>1, <3>1
    <3> HIDE <1>1, <2>1
    <3>4. Count(cur, L, "*") = 0 /\ Count(cur, L, ":") = Len(params)
      BY <3>2, <3>3, NoCatchAll
    <3> QED
      BY <3>1, <3>4
  <2>3. Len(wildcard) = 0
    BY <1>2, EmptySeq
  <2>4. Fill(cur, path, params, <<0, 0>>) = path
    <3>1. Len(cur) > 0
      BY <1>1, <1>6
    <3>2. Fill(cur, path, params, <<0, 0>>) = SubSeq(path, 1, Len(path))
      BY <1>1, <2>1, <3>1, SpellsAll
    <3> QED
      BY <1>1, <3>2, SubSeqFull
  <2>5. IsPrefix(path, Fill(cur, path, params, <<0, 0>>))
    BY <1>1, <2>4, PrefixAt
  <2>6. <<0, 0>> = IF wildcard = <<>> THEN <<0, 0>> ELSE wildcard[1]
    BY <1>2
  <2> QED
    BY <1>1, <1>2, <1>18, <2>2, <2>3, <2>4, <2>5, <2>6, AnswerFound
<1>19. CASE s = rest /\ tree[cur].leaf = None /\ Advance(Len(path), params)
  <2>1. PICK o : o = Len(path)
    OBVIOUS
  <2>2. Reaches(cur, Len(cur), path, params, o) /\ o \in Nat /\ Advance(o, params)
    BY <1>1, <1>17, <1>19, <2>1
  <2>3. CASE Fits(o) = {}
    <3>1. Outcome("partial", None, params, wildcard, tree[cur].cands)
      BY <2>2, <2>3 DEF Advance, PartiallyMatched
    <3>2. \A n \in DOMAIN tree : tree[n].leaf # None /\ Under(n, cur) => ~Matches(n, path)
      BY <1>1, <1>19, <2>2, <2>3, FootStuck
    <3>3. \A n \in DOMAIN tree : tree[n].leaf # None =>
            ~Matches(n, path) /\ (Extendable(n, path) => tree[n].leaf \in tree[cur].cands)
      BY <1>1, <1>7, <3>2 DEF Candidates
    <3> QED
      BY <3>1, <3>3, AnswerMissed
  <2>4. CASE Fits(o) # {}
    <3>1. /\ cur' \in Fits(o) /\ offset' = o /\ params' = params
          /\ UNCHANGED <<registry, pc, path, wildcard, result>>
      BY <2>2, <2>4 DEF Advance
    <3>2. PICK c \in Fits(o) : c = cur'
      BY <3>1
    <3>3. \A n \in DOMAIN tree : tree[n].leaf # None /\ ~Under(n, c) => ~Matches(n, path) /\ ~Extendable(n, path)
      BY <1>1, <1>7, <1>19, <2>2, FootOther
    <3>4. Len(cur) \in 0..Len(cur) /\ ~(Len(cur) < Len(cur))
      BY <1>1
    <3> QED
      BY <1>1, <1>2, <2>2, <3>1, <3>2, <3>3, <3>4, GoesDown
  <2> QED
    BY <2>3, <2>4
<1>20. CASE /\ ~IsPrefix(s, rest) /\ ~IsPrefix(rest, s)
            /\ Outcome("not_matched", None, params, wildcard, {})
  <2> DEFINE D == {d \in Nat : d < Len(s) /\ d < Len(rest) /\ s[d + 1] # rest[d + 1]}
  <2>1. D # {}
    <3> SUFFICES ASSUME D = {} PROVE FALSE
      OBVIOUS
    <3>1. ASSUME NEW j \in Nat, j > 0, j <= Len(s), j <= Len(rest) PROVE s[j] = rest[j]
      <4>1. PICK d : d = j - 1
        OBVIOUS
      <4>2. d \in Nat /\ d < Len(s) /\ d < Len(rest) /\ d + 1 = j
        BY <1>1, <1>6, <1>10, <1>11, <3>1, <4>1
      <4> QED
        BY <4>2
    <3>2. Len(s) \in Nat /\ Len(rest) \in Nat
      BY <1>1, <1>6, <1>10, <1>11
    <3> HIDE DEF D
    <3>3. CASE Len(s) <= Len(rest)
      <4>1. \A j \in 1..Len(s) : s[j] = rest[j]
        BY <3>1, <3>2, <3>3
      <4> QED
        BY <1>10, <1>11, <1>20, <3>3, <4>1, PrefixAt
    <3>4. CASE Len(rest) <= Len(s)
      <4>1. \A j \in 1..Len(rest) : rest[j] = s[j]
        BY <3>1, <3>2, <3>4
      <4> QED
        BY <1>10, <1>11, <1>20, <3>4, <4>1, PrefixAt
    <3> QED
      BY <3>2, <3>3, <3>4
  <2>2. PICK d \in D : \A y \in D : ~(y < d)
    <3>1. D \subseteq Nat
      OBVIOUS
    <3> QED
      BY <2>1, <3>1, LeastOf
  <2>3. d \in Nat /\ d < Len(s) /\ d < Len(rest) /\ s[d + 1] # rest[d + 1]
    OBVIOUS
  <2>4. \A j \in 1..d : s[j] = rest[j]
    <3> SUFFICES ASSUME NEW j \in 1..d, s[j] # rest[j] PROVE FALSE
      OBVIOUS
    <3>1. PICK e : e = j - 1
      OBVIOUS
    <3>2. e \in Nat /\ e < d /\ e < Len(s) /\ e < Len(rest) /\ e + 1 = j
      <4>1. Len(s) \in Nat /\ Len(rest) \in Nat
        BY <1>10, <1>11, LenProperties
      <4>2. e \in Nat /\ e < d /\ e + 1 = j
        BY <2>3, <3>1
      <4> QED
        BY <2>3, <4>1, <4>2
    <3>3. e \in D
      BY <3>2
    <3> QED
      BY <2>2, <3>2, <3>3
  <2> HIDE DEF D
  <2>5. \A n \in DOMAIN tree : tree[n].leaf # None => ~Matches(n, path) /\ ~Extendable(n, path)
    <3>1. d <= Len(rest)
      BY <1>1, <1>6, <1>11, <2>3
    <3>2. \A n \in DOMAIN tree : Under(n, cur) => ~Matches(n, path) /\ ~Extendable(n, path)
      BY <1>13, <2>3, <2>4, <3>1
    <3> QED
      BY <1>7, <3>2
  <2> QED
    BY <1>20, <2>5, AnswerMissed
<1> QED
  BY <1>9, <1>15, <1>16, <1>18, <1>19, <1>20

\* What a search knows at a parameter: all of the text above it has been read,
\* or the request has ended in that.
LEMMA WildWalk ==
  ASSUME IInv, Radix, Searching, pc = "match", cur[Len(cur)] \in Wild
  PROVE  \E b, m \in Nat :
           /\ Len(cur) = b + 1 /\ m <= b /\ Walk(b, m) /\ offset <= Len(path)
           /\ \A k \in m + 1..b : cur[k] \notin Wild
<1>1. cur \in DOMAIN tree /\ cur \in Seq(Token) /\ Len(cur) \in Nat /\ TypeOK
  BY LenProperties DEF IInv, TypeOK
<1>2. PICK b \in 0..Len(cur) - 1 : \E m \in 0..b : Walk(b, m)
  BY DEF Searching
<1>3. PICK m \in 0..b : Walk(b, m)
  BY <1>2
<1>4. b \in Nat /\ m \in Nat /\ m <= b
  BY <1>1
<1>5. Len(cur) = b + 1
  BY <1>1, <1>3, WildLabel DEF IInv, TreeInv, Radix, Walk, LabelStart
<1>6. \A k \in m + 1..b : cur[k] \notin Wild
  <2>1. CASE m < b
    BY <1>3, <2>1 DEF Walk
  <2>2. CASE ~(m < b)
    BY <1>4, <2>2
  <2> QED
    BY <2>1, <2>2
<1>7. offset <= Len(path)
  <2>1. PICK pos : Laid(cur, m, path, params, pos) /\ pos[m] = offset
    BY <1>3 DEF Walk, Reaches
  <2>2. offset \in 0..Len(path)
    BY <1>4, <2>1 DEF Laid
  <2> QED
    BY <2>2
<1> QED
  BY <1>3, <1>4, <1>5, <1>6, <1>7

\* A turn at a parameter.
LEMMA ParamSearch ==
  IInv /\ Radix /\ Searching /\ Answered /\ MatchParam => Searching' /\ Answered'
<1> SUFFICES ASSUME IInv, Radix, Searching, Answered, MatchParam PROVE Searching' /\ Answered'
  OBVIOUS
<1>1. /\ cur \in DOMAIN tree /\ cur \in Seq(Token) /\ path \in Seq(Token) /\ Len(cur) \in Nat
      /\ Len(path) \in Nat /\ offset \in Nat /\ pc = "match" /\ cur[Len(cur)] = ":" /\ TypeOK
      /\ ParametersStandAlone /\ Candidates /\ params \in Seq(Span) /\ Len(params) \in Nat
  BY LenProperties DEF IInv, TypeOK, MatchParam, Radix
<1>2. /\ wildcard = <<>> /\ path \in Seq(Char)
      /\ \A k \in 1..Len(params) : SlashFree(path, params[k][1] + 1, params[k][2])
  BY <1>1 DEF Searching
<1>3. PICK b, m \in Nat :
        /\ Len(cur) = b + 1 /\ m <= b /\ Walk(b, m) /\ offset <= Len(path)
        /\ \A k \in m + 1..b : cur[k] \notin Wild
  BY <1>1, WildWalk DEF Wild
<1>4. PICK end \in offset..Len(path) :
        /\ SlashFree(path, offset + 1, end)
        /\ end < Len(path) => path[end + 1] = Slash
        /\ IF end = Len(path) THEN LeafOrPartial(Append(params, <<offset, end>>), wildcard)
                              ELSE Advance(end, Append(params, <<offset, end>>))
  BY DEF MatchParam
<1>5. PICK ps : ps = Append(params, <<offset, end>>)
  OBVIOUS
<1>6. end \in Nat /\ <<offset, end>> \in Span
  BY <1>1 DEF Span
<1>7. /\ ps \in Seq(Span) /\ Len(ps) = Len(params) + 1 /\ ps[Len(ps)] = <<offset, end>>
      /\ \A k \in 1..Len(params) : ps[k] = params[k]
  BY <1>1, <1>5, <1>6, AppendProperties
<1>8. \A k \in 1..Len(ps) : SlashFree(path, ps[k][1] + 1, ps[k][2])
  <2> SUFFICES ASSUME NEW k \in 1..Len(ps) PROVE SlashFree(path, ps[k][1] + 1, ps[k][2])
    OBVIOUS
  <2>1. CASE k = Len(ps)
    <3>1. ps[k][1] = offset /\ ps[k][2] = end
      BY <1>7, <2>1
    <3> QED
      BY <1>4, <3>1
  <2>2. CASE k # Len(ps)
    <3>1. k \in 1..Len(params)
      BY <1>1, <1>7, <2>2
    <3> QED
      BY <1>2, <1>7, <3>1
  <2> QED
    BY <2>1, <2>2
<1>9. /\ Reaches(cur, m, path, params, offset)
      /\ m < b => offset = Len(path)
      /\ \A n \in DOMAIN tree : tree[n].leaf # None /\ ~Under(n, cur) =>
           ~Matches(n, path) /\ (m = b => ~Extendable(n, path))
  BY <1>3 DEF Walk, Elsewhere
<1>10. Count(cur, b, "*") = 0 /\ Count(cur, b, ":") = Len(params)
  BY <1>3, <1>9, NoCatchAll
<1>11. Count(cur, Len(cur), "*") = 0 /\ Count(cur, Len(cur), ":") = Len(ps)
  <2>1. b + 1 \in Nat \ {0} /\ (b + 1) - 1 = b /\ cur[b + 1] = ":"
    BY <1>1, <1>3
  <2>2. Count(cur, b + 1, "*") = Count(cur, b, "*") + IF cur[b + 1] = "*" THEN 1 ELSE 0
    BY <2>1, CountStep
  <2>3. Count(cur, b + 1, ":") = Count(cur, b, ":") + IF cur[b + 1] = ":" THEN 1 ELSE 0
    BY <2>1, CountStep
  <2> QED
    BY <1>1, <1>3, <1>7, <1>10, <2>1, <2>2, <2>3
<1>12. m = b => Reaches(cur, Len(cur), path, ps, end)
  <2> SUFFICES ASSUME m = b PROVE Reaches(cur, Len(cur), path, ps, end)
    OBVIOUS
  <2>1. cur[b + 1] = ":" /\ Reaches(cur, b, path, params, offset)
    BY <1>1, <1>3, <1>9
  <2>2. Reaches(cur, b + 1, path, Append(params, <<offset, end>>), end)
    BY <1>1, <1>3, <1>4, <2>1, ReachParam
  <2> QED
    BY <1>3, <1>5, <2>2
<1>13. m < b => end = Len(path) /\ offset = Len(path)
  BY <1>1, <1>4, <1>9
<1>14. CASE end = Len(path) /\ tree[cur].leaf # None
  <2>1. Outcome("ok", tree[cur].leaf, ps, wildcard, {})
    BY <1>4, <1>5, <1>14 DEF LeafOrPartial
  <2>2. IsPrefix(path, Fill(cur, path, ps, <<0, 0>>))
    <3>1. CASE m = b
      <4>1. Len(cur) > 0 /\ Reaches(cur, Len(cur), path, ps, Len(path))
        BY <1>3, <1>12, <1>14, <3>1
      <4>2. Fill(cur, path, ps, <<0, 0>>) = SubSeq(path, 1, Len(path))
        BY <1>1, <4>1, SpellsAll
      <4>3. Fill(cur, path, ps, <<0, 0>>) = path
        BY <1>1, <4>2, SubSeqFull
      <4> QED
        BY <1>1, <4>3, PrefixAt
    <3>2. CASE m < b
      <4>1. /\ Reaches(cur, m, path, params, Len(path)) /\ ps = Append(params, <<Len(path), Len(path)>>)
            /\ m \in 0..Len(cur) - 1 /\ cur[Len(cur)] = ":"
            /\ \A k \in m + 1..Len(cur) - 1 : cur[k] \notin Wild
        BY <1>1, <1>3, <1>5, <1>9, <1>13, <3>2
      <4>2. IsPrefix(path, Fill(cur, path, Append(params, <<Len(path), Len(path)>>), <<0, 0>>))
        BY <1>1, <4>1, SpellsMore
      <4> QED
        BY <4>1, <4>2
    <3> QED
      BY <1>3, <3>1, <3>2
  <2>3. Len(wildcard) = 0 /\ <<0, 0>> = IF wildcard = <<>> THEN <<0, 0>> ELSE wildcard[1]
    BY <1>2, EmptySeq
  <2>4. cur[Len(cur)] \in Wild
    BY <1>1 DEF Wild
  <2> QED
    BY <1>1, <1>2, <1>8, <1>11, <1>14, <2>1, <2>2, <2>3, <2>4, AnswerFound
<1>15. CASE end = Len(path) /\ tree[cur].leaf = None
  <2>1. Outcome("partial", None, ps, wildcard, tree[cur].cands)
    BY <1>4, <1>5, <1>15 DEF LeafOrPartial
  <2>2. ps # <<>> /\ Last(ps) = <<offset, Len(path)>>
    BY <1>1, <1>7, <1>15, EmptySeq DEF Last
  <2>3. ASSUME NEW n \in DOMAIN tree, tree[n].leaf # None
        PROVE  /\ ~Matches(n, path)
               /\ Extendable(n, path) =>
                    tree[n].leaf \in tree[cur].cands \/ (ps # <<>> /\ Last(ps) = <<Len(path), Len(path)>>)
    <3>1. n \in Seq(Token) /\ Len(n) \in Nat
      BY <1>1, LenProperties DEF TypeOK
    <3>2. CASE m = b
      <4>1. CASE ~Under(n, cur)
        BY <1>9, <2>3, <3>2, <4>1
      <4>2. CASE Under(n, cur)
        <5>1. tree[n].leaf \in tree[cur].cands
          BY <1>1, <2>3, <4>2 DEF Candidates
        <5>2. Len(n) > Len(cur) /\ Same(cur, n, Len(cur))
          <6>1. Len(n) # Len(cur)
            <7> SUFFICES ASSUME Len(n) = Len(cur) PROVE FALSE
              OBVIOUS
            <7>1. n = cur
              BY <1>1, <3>1, <4>2, SeqEqual DEF Under, Same
            <7> QED
              BY <1>15, <2>3, <7>1
          <6> QED
            BY <1>1, <3>1, <4>2, <6>1 DEF Under
        <5>3. n[Len(cur) + 1] = Slash /\ Spaced(n)
          <6>1. Len(cur) \in 1..Len(n) - 1 /\ Len(cur) \in 1..Len(cur)
            BY <1>1, <1>3, <3>1, <5>2
          <6>2. n[Len(cur)] \in Wild
            BY <1>1, <5>2, <6>1 DEF Same, Wild
          <6> QED
            BY <1>1, <6>1, <6>2 DEF ParametersStandAlone, Spaced
        <5>4. Reaches(n, Len(cur), path, ps, Len(path))
          BY <1>1, <1>12, <1>15, <3>2, <5>2, ReachSame
        <5>5. Slash \notin Wild
          BY DEF Slash, Wild
        <5>6. ~Matches(n, path)
          BY <1>1, <3>1, <5>2, <5>3, <5>4, <5>5, ReachStuck
        <5> QED
          BY <5>1, <5>6
      <4> QED
        BY <4>1, <4>2
    <3>3. CASE m < b
      <4>1. Last(ps) = <<Len(path), Len(path)>>
        BY <1>13, <2>2, <3>3
      <4>2. ~Matches(n, path)
        <5>1. CASE ~Under(n, cur)
          BY <1>9, <2>3, <5>1
        <5>2. CASE Under(n, cur)
          <6>1. m < Len(cur) /\ m + 1 \in m + 1..b
            BY <1>3, <3>3
          <6>2. cur[m + 1] \notin Wild /\ ~(offset < Len(path))
            BY <1>1, <1>3, <1>13, <3>3, <6>1
          <6> QED
            BY <1>1, <1>9, <5>2, <6>1, <6>2, UnderStuck
        <5> QED
          BY <5>1, <5>2
      <4> QED
        BY <2>2, <4>1, <4>2
    <3> QED
      BY <1>3, <3>2, <3>3
  <2> QED
    BY <2>1, <2>3, AnswerMissed
<1>16. CASE end # Len(path)
  <2>1. Advance(end, ps) /\ m = b /\ end < Len(path)
    BY <1>1, <1>3, <1>4, <1>5, <1>13, <1>16
  <2>2. Reaches(cur, Len(cur), path, ps, end)
    BY <1>12, <2>1
  <2>3. CASE Fits(end) = {}
    <3>1. Outcome("partial", None, ps, wildcard, tree[cur].cands)
      BY <2>1, <2>3 DEF Advance, PartiallyMatched
    <3>2. \A n \in DOMAIN tree : tree[n].leaf # None => ~Matches(n, path) /\ ~Extendable(n, path)
      BY <1>1, <1>6, <1>9, <2>1, <2>2, <2>3, FootStuck
    <3> QED
      BY <3>1, <3>2, AnswerMissed
  <2>4. CASE Fits(end) # {}
    <3>1. /\ cur' \in Fits(end) /\ offset' = end /\ params' = ps
          /\ UNCHANGED <<registry, pc, path, wildcard, result>>
      BY <2>1, <2>4 DEF Advance
    <3>2. PICK c \in Fits(end) : c = cur'
      BY <3>1
    <3>3. \A n \in DOMAIN tree : tree[n].leaf # None /\ ~Under(n, c) => ~Matches(n, path) /\ ~Extendable(n, path)
      BY <1>1, <1>6, <1>9, <2>1, <2>2, FootOther
    <3>4. Len(cur) \in 0..Len(cur) /\ ~(Len(cur) < Len(cur))
      BY <1>1
    <3> QED
      BY <1>1, <1>6, <1>8, <2>2, <3>1, <3>2, <3>3, <3>4, GoesDown
  <2> QED
    BY <2>3, <2>4
<1> QED
  BY <1>14, <1>15, <1>16

\* A turn at a catch-all, which has a leaf.
LEMMA CatchAllSearch ==
  IInv /\ Radix /\ Searching /\ Answered /\ MatchCatchAll => Searching' /\ Answered'
<1> SUFFICES ASSUME IInv, Radix, Searching, Answered, MatchCatchAll PROVE Searching' /\ Answered'
  OBVIOUS
<1>1. /\ cur \in DOMAIN tree /\ cur \in Seq(Token) /\ path \in Seq(Token) /\ Len(cur) \in Nat
      /\ Len(path) \in Nat /\ offset \in Nat /\ pc = "match" /\ cur[Len(cur)] = "*"
      /\ tree[cur].leaf # None
  BY LenProperties DEF IInv, TypeOK, MatchCatchAll, Radix, CatchAllsEnd
<1>2. /\ wildcard = <<>> /\ path \in Seq(Char)
      /\ \A k \in 1..Len(params) : SlashFree(path, params[k][1] + 1, params[k][2])
  BY <1>1 DEF Searching
<1>3. PICK b, m \in Nat :
        /\ Len(cur) = b + 1 /\ m <= b /\ Walk(b, m) /\ offset <= Len(path)
        /\ \A k \in m + 1..b : cur[k] \notin Wild
  BY <1>1, WildWalk DEF Wild
<1>4. Reaches(cur, m, path, params, offset) /\ (m < b => offset = Len(path))
  BY <1>3 DEF Walk
<1>5. Count(cur, b, "*") = 0 /\ Count(cur, b, ":") = Len(params)
  BY <1>3, <1>4, NoCatchAll
<1>6. Count(cur, Len(cur), "*") = 1 /\ Count(cur, Len(cur), ":") = Len(params)
  <2>1. b + 1 \in Nat \ {0} /\ (b + 1) - 1 = b /\ cur[b + 1] = "*"
    BY <1>1, <1>3
  <2>2. Count(cur, b + 1, "*") = Count(cur, b, "*") + IF cur[b + 1] = "*" THEN 1 ELSE 0
    BY <2>1, CountStep
  <2>3. Count(cur, b + 1, ":") = Count(cur, b, ":") + IF cur[b + 1] = ":" THEN 1 ELSE 0
    BY <2>1, CountStep
  <2>4. Count(cur, b, ":") \in Nat
    BY CountStep
  <2> QED
    BY <1>1, <1>3, <1>5, <2>1, <2>2, <2>3, <2>4
<1>7. PICK w : w = <<<<offset, Len(path)>>>>
  OBVIOUS
<1>8. Len(w) = 1 /\ w # <<>> /\ w[1] = <<offset, Len(path)>>
  BY <1>7
<1>9. Outcome("ok", tree[cur].leaf, params, w, {})
  BY <1>1, <1>7 DEF MatchCatchAll, LeafOrPartial
<1>10. IsPrefix(path, Fill(cur, path, params, <<offset, Len(path)>>))
  <2>1. /\ m \in 0..Len(cur) - 1 /\ (m = Len(cur) - 1 \/ offset = Len(path))
        /\ \A k \in m + 1..Len(cur) - 1 : cur[k] \notin Wild
    BY <1>3, <1>4
  <2> QED
    BY <1>1, <1>4, <2>1, SpellsRest
<1>11. cur[Len(cur)] \in Wild /\ <<offset, Len(path)>> = IF w = <<>> THEN <<0, 0>> ELSE w[1]
  BY <1>1, <1>8 DEF Wild
<1> QED
  BY <1>1, <1>2, <1>6, <1>8, <1>9, <1>10, <1>11, AnswerFound

\* A search begins at the root, and every route lies under that.
LEMMA BeginSearch ==
  ASSUME IInv, Radix, Marked, Answered, NEW r \in Seq(Char), BeginRecognize(r)
  PROVE  Searching' /\ Answered'
<1>1. /\ path' = r /\ pc' = "match" /\ cur' \in Roots(tree) /\ offset' = 0 /\ result' = NoResult
      /\ pc = "idle" /\ UNCHANGED <<inner, tree, asterisk, params, wildcard>>
  BY DEF BeginRecognize, registry, captures
<1>2. /\ cur' \in DOMAIN tree /\ cur' \in Seq(Token) /\ Len(cur') \in Nat /\ Len(cur') > 0
      /\ \A n \in DOMAIN tree : ~IsStrictPrefix(n, cur')
  BY <1>1, LenProperties, EmptySeq DEF Roots, IInv, TypeOK
<1>3. params = <<>> /\ wildcard = <<>>
  BY <1>1 DEF Marked
<1>4. \A n \in DOMAIN tree : Under(n, cur')
  <2> SUFFICES ASSUME NEW n \in DOMAIN tree PROVE Under(n, cur')
    OBVIOUS
  <2>1. n \in Seq(Token) /\ n # <<>> /\ Len(n) \in Nat /\ Len(n) > 0
    BY LenProperties, EmptySeq DEF IInv, TypeOK
  <2>2. n[1] = Slash /\ cur'[1] = Slash
    BY <1>2 DEF IInv, TreeInv, ParametersAreNodes
  <2>3. Same(n, cur', 0 + 1)
    BY <2>2 DEF Same
  <2> QED
    BY <1>2, <2>1, <2>3, OneChild DEF IInv, Radix
<1>5. LabelStart(tree', cur', 0)
  BY <1>1, <1>2 DEF LabelStart
<1>6. Reaches(cur', 0, path', params', offset')
  <2>1. Len(r) \in Nat
    BY LenProperties
  <2>2. Reaches(cur', 0, r, <<>>, 0)
    BY <2>1, ReachNothing
  <2> QED
    BY <1>1, <1>3, <2>2
<1>7. Elsewhere(0, 0)'
  BY <1>1, <1>4 DEF Elsewhere
<1>8. Walk(0, 0)'
  BY <1>5, <1>6, <1>7 DEF Walk
<1>9. \A k \in 1..Len(params') : SlashFree(path', params'[k][1] + 1, params'[k][2])
  BY <1>1, <1>3, EmptySeq
<1>10. Searching'
  <2>1. 0 \in 0..Len(cur') - 1 /\ 0 \in 0..0
    BY <1>2
  <2> QED
    BY <1>1, <1>3, <1>8, <1>9, <2>1 DEF Searching
<1>11. Answered'
  BY <1>1 DEF Answered, FoundRight, Found, MissedRight, NoResult
<1> QED
  BY <1>10, <1>11

\* The answers given without a walk are right as well.
LEMMA AnswerAtOnce ==
  ASSUME IInv, Radix, RecognizeAsterisk \/ \E r \in Requests : RecognizeNothing(r)
  PROVE  Searching' /\ Answered'
<1>1. CASE RecognizeAsterisk
  <2>1. /\ pc' = "idle" /\ tree' = tree /\ result'.request = Asterisk
        /\ result'.cands = {}
    BY <1>1 DEF RecognizeAsterisk, Idle, registry
  <2>2. \A n \in DOMAIN tree : ~Matches(n, Asterisk) /\ ~Extendable(n, Asterisk)
    <3> SUFFICES ASSUME NEW n \in DOMAIN tree PROVE ~Matches(n, Asterisk) /\ ~Extendable(n, Asterisk)
      OBVIOUS
    <3>1. n \in Seq(Token) /\ n # <<>> /\ Len(n) \in Nat /\ Len(n) > 0 /\ n[1] = Slash /\ Spaced(n)
      BY LenProperties, EmptySeq DEF IInv, TypeOK, TreeInv, ParametersAreNodes, Radix, ParametersStandAlone
    <3>2. Asterisk \in Seq(Token) /\ Len(Asterisk) = 1 /\ Asterisk[1] = "*"
      <4>1. "*" \in Token
        BY DEF Token, Wild
      <4> QED
        BY <4>1 DEF Asterisk
    <3>3. Reaches(n, 0, Asterisk, <<>>, 0)
      BY <3>2, ReachNothing
    <3>4. n[0 + 1] \notin Wild /\ ~(0 < Len(Asterisk) /\ Asterisk[0 + 1] = n[0 + 1])
      BY <3>1, <3>2 DEF Slash, Wild
    <3> HIDE DEF Asterisk
    <3>5. 0 < Len(n) /\ 0 < Len(Asterisk)
      BY <3>1, <3>2
    <3> QED
      BY <3>1, <3>2, <3>3, <3>4, <3>5, ReachStuck
  <2>3. Searching'
    BY <2>1 DEF Searching
  <2>4. FoundRight'
    BY <2>1 DEF FoundRight, Found
  <2>5. MissedRight'
    BY <2>1, <2>2 DEF MissedRight
  <2> QED
    BY <2>1, <2>3, <2>4, <2>5 DEF Answered
<1>2. CASE \E r \in Requests : RecognizeNothing(r)
  <2>1. /\ pc' = "idle" /\ tree' = tree /\ DOMAIN tree = {} /\ result'.status = "not_matched"
    BY <1>2 DEF RecognizeNothing, Idle, registry
  <2>2. Searching'
    BY <2>1 DEF Searching
  <2>3. FoundRight' /\ MissedRight'
    BY <2>1 DEF FoundRight, Found, MissedRight
  <2> QED
    BY <2>1, <2>2, <2>3 DEF Answered
<1> QED
  BY <1>1, <1>2

\* While routes are registered no answer stands.
LEMMA InsertAnswers ==
  ASSUME Answered, Insert
  PROVE  Searching' /\ Answered'
<1>1. result' = NoResult /\ pc' # "match"
  BY DEF Answered, Insert, InsertAsterisk, BeginInsert, Plant, Segment, AddWildcard, RefuseCatchAll,
     RefuseWildcard, FollowWildcard, RefuseStatic, FollowStatic, AddStatic, SetLeaf, Register, Fail, Idle
<1> QED
  BY <1>1 DEF Searching, Answered, FoundRight, Found, MissedRight, NoResult

\* At first there is nothing to search.
LEMMA InitSearch == Init => SearchInv
<1> SUFFICES ASSUME Init PROVE SearchInv
  OBVIOUS
<1>1. DOMAIN tree = {} /\ pc = "idle" /\ result = NoResult /\ params = <<>> /\ wildcard = <<>>
  BY DEF Init
<1>2. Radix
  BY <1>1 DEF Radix, Branching, ParametersStandAlone, CatchAllsEnd, Candidates
<1>3. Marked /\ Searching /\ Answered
  BY <1>1 DEF Marked, Searching, Answered, FoundRight, Found, MissedRight, NoResult
<1> QED
  BY <1>2, <1>3, InitInv DEF SearchInv

\* Every step keeps the invariant of the search.
LEMMA NextSearch == SearchInv /\ [Next]_vars => SearchInv'
<1> SUFFICES ASSUME SearchInv, [Next]_vars PROVE SearchInv'
  OBVIOUS
<1>1. IInv'
  BY NextInv DEF SearchInv
<1>2. CASE Insert
  BY <1>1, <1>2, InsertRadix, InsertAnswers DEF SearchInv
<1>3. CASE Recognize
  <2>1. Radix' /\ Marked'
    BY <1>3, SearchRadix DEF SearchInv
  <2>2. Searching' /\ Answered'
    BY <1>3, RequestsAssumption, BeginSearch, AnswerAtOnce, StaticSearch, ParamSearch, CatchAllSearch
    DEF SearchInv, Recognize
  <2> QED
    BY <1>1, <2>1, <2>2 DEF SearchInv
<1>4. CASE UNCHANGED vars
  <2>1. Radix'
    BY <1>4, QuietRadix DEF SearchInv, SameLeaves, vars
  <2>2. Marked'
    BY <1>4 DEF SearchInv, vars, Marked, index, NextToken
  <2>3. Searching'
    BY <1>4 DEF SearchInv, vars, Searching, Walk, Elsewhere
  <2>4. Answered'
    BY <1>4 DEF SearchInv, vars, Answered, FoundRight, Found, MissedRight, CapturesFit, Spelled, RanOut
  <2> QED
    BY <1>1, <2>1, <2>2, <2>3, <2>4 DEF SearchInv
<1> QED
  BY <1>2, <1>3, <1>4 DEF Next

\* The tree stays a radix tree, a search knows what it has left, and an answer
\* is right of the tree.
THEOREM SearchInvariance == Spec => []SearchInv
BY InitSearch, NextSearch, PTL DEF Spec

\* What is found is right of the route the leaf stands for.
LEMMA SoundOfTree == IInv /\ FoundRight => SearchSound
<1> SUFFICES ASSUME IInv, FoundRight, Found, KindsKept
             PROVE  /\ CapturesFit(FoundRoute)
                    /\ IsPrefix(result.request, Spelled(FoundRoute))
                    /\ SubSeq(Spelled(FoundRoute), Len(result.request) + 1, Len(Spelled(FoundRoute))) # <<>>
                         => FoundRoute[Len(FoundRoute)] \in Wild
  BY DEF SearchSound
<1>1. PICK n \in DOMAIN tree :
        /\ tree[n].leaf = result.index /\ result.request \in Seq(Char)
        /\ CapturesFit(n)
        /\ IsPrefix(result.request, Spelled(n))
        /\ n[Len(n)] \in Wild \/ Spelled(n) = result.request
  BY DEF FoundRight
<1>2. result.index # None
  BY DEF IInv, LookupNeverPanics, Found, None
<1>3. n = FoundRoute
  BY <1>1, <1>2 DEF KindsKept, FoundRoute
<1>4. ASSUME Spelled(n) = result.request
      PROVE  SubSeq(Spelled(n), Len(result.request) + 1, Len(Spelled(n))) = <<>>
  <2>1. PICK r, L : r = result.request /\ L = Len(r)
    OBVIOUS
  <2>2. r \in Seq(Char) /\ L \in Nat
    BY <1>1, <2>1, LenProperties
  <2>3. SubSeq(r, L + 1, L) = <<>>
    BY <2>1, <2>2, SubSeqEmpty
  <2> QED
    BY <1>4, <2>1, <2>3
<1> QED
  BY <1>1, <1>3, <1>4

\* A request that is not found is right of every route that has a leaf.
LEMMA CompleteOfTree == IInv /\ MissedRight => SearchComplete
<1> SUFFICES ASSUME IInv, MissedRight, result.status \notin {"none", "ok"}, KindsKept, NEW i \in Routes
             PROVE  /\ ~Matches(inner[i], result.request)
                    /\ Extendable(inner[i], result.request) /\ ~RanOut => i - 1 \in result.cands
  BY DEF SearchComplete
<1>1. result.status \in {"partial", "not_matched"}
  BY DEF IInv, TypeOK
<1>2. i \in 1..Len(inner) /\ inner[i] # Asterisk /\ i \in Nat
  BY DEF Routes
<1>3. PICK n \in DOMAIN tree : tree[n].leaf = i - 1
  BY <1>2 DEF IInv, TreeInv, LeafSpellsRoute
<1>4. tree[n].leaf # None /\ n = inner[i]
  <2>1. i - 1 # None /\ (i - 1) + 1 = i
    BY <1>2 DEF None
  <2> QED
    BY <1>3, <2>1 DEF KindsKept
<1> QED
  BY <1>1, <1>3, <1>4 DEF MissedRight

\* What a search returns spells the request, whatever routes were registered or
\* refused before, as long as every leaf lies at its route.
THEOREM FoundIsRight == Spec => []SearchSound
<1>1. SearchInv => SearchSound
  BY SoundOfTree DEF SearchInv, Answered
<1> QED
  BY SearchInvariance, <1>1, PTL

\* A request the search gives up on is no instance of a registered route, and
\* the routes it could still become are among the candidates it reports.
THEOREM NotFoundIsRight == Spec => []SearchComplete
<1>1. SearchInv => SearchComplete
  BY CompleteOfTree DEF SearchInv, Answered
<1> QED
  BY SearchInvariance, <1>1, PTL

=============================================================================
