-------------------------- MODULE Extraction_proofs --------------------------
(***************************************************************************)
(* Theorems about the extraction of a request: no poll panics, whatever    *)
(* the tree of extractors, one extractor has the body, the result is that  *)
(* of the leaves, and an extraction that waits has left its waker with a   *)
(* leaf that will use it.                                                  *)
(***************************************************************************)
EXTENDS Extraction, SequenceTheorems, FiniteSetTheorems, WellFoundedInduction, TLAPS

\* What follows is said of a tree t of extractors, of what its nodes' owners
\* have of them, S, and of the states of its leaves, L.
Paths == Seq(1..2)

\* A poll may be at p: every future from the root to it is there to be polled,
\* and right of a chain it is only when the left side has left its output.
Live(S, p) == \A n \in DOMAIN S \ {<<>>} : IsPrefix(n, p) => S[n] = "future"
InOrder(t, S, p) ==
  \A n \in DOMAIN t : t[n] = "chain" /\ IsPrefix(Right(n), p) => S[Left(n)] = "output"

\* A poll of n finds what it needs: a leaf that has not returned, a chain whose
\* left side is to be polled or has left its output, an `or` with a side left.
Ready(t, S, L, n) ==
  /\ t[n] \in {"value", "io", "decode", "read_all"} => L[n] # "spent"
  /\ t[n] = "chain" => S[Left(n)] \in {"future", "output"} /\ S[Right(n)] = "future"
  /\ t[n] = "or" => S[Left(n)] = "future" \/ S[Right(n)] = "future"
  /\ t[n] \in {"optional", "map"} => S[Left(n)] = "future"

\* n is below a future that has just returned its result.
Over(n) == pc = "up" /\ ret # "wait" /\ IsPrefix(at, n)

Polling ==
  /\ pc \in {"down", "up"} => stage = "extract" /\ Live(slot, at) /\ InOrder(shape, slot, at)
  /\ pc = "up" => ret # "none"

AllReady == \A n \in nodes : Live(slot, n) /\ ~Over(n) => Ready(shape, slot, leaf, n)

\* Before the extractors are through, the handler is still there to be called
\* and every future that will be polled may be.
Extracting == stage \in {"init", "extract"} => args = "here" /\ AllReady

OneReader ==
  /\ body = "here" => \A n \in nodes : ~HasBody(n)
  /\ \A m, n \in nodes : HasBody(m) /\ HasBody(n) => m = n

IInv == TypeOK /\ NoPanic /\ Polling /\ Extracting /\ OneReader

\* What a node of tree t returns by what its children do, r, or, as a leaf, by
\* what it said, s: Outcome, one step.
Result(t, s, r, n) ==
  CASE t[n] = "chain" -> IF r[Left(n)] = "ok" THEN r[Right(n)] ELSE r[Left(n)]
    [] t[n] = "or" ->
         LET both == {r[Left(n)], r[Right(n)]} IN
         IF "ok" \in both THEN "ok" ELSE IF both = {"err"} THEN "err" ELSE "wait"
    [] t[n] = "optional" -> IF r[Left(n)] = "err" THEN "ok" ELSE r[Left(n)]
    [] t[n] = "map" -> r[Left(n)]
    [] OTHER -> s[n]

\* A poll has called n, which has not returned.
OnPath(n) == \/ pc = "down" /\ IsPrefix(n, at)
             \/ pc = "up" /\ IsPrefix(n, at) /\ n # at

\* The poll is right of an `or`, on the left of which n is.
BesideOr(n) == \E o \in nodes : /\ shape[o] = "or"
                                /\ IsPrefix(Left(o), n) /\ IsPrefix(Right(o), at)

\* A node says what follows from what its children said last; what it has not
\* been asked, they have not.
SaysResult ==
  \A n \in nodes : ~OnPath(n) =>
    IF said[n] = "none"
    THEN \A c \in nodes \cap {Left(n), Right(n)} : said[c] = "none"
    ELSE said[n] = Result(shape, said, said, n)

\* What an owner has kept or dropped is what a child said.
Kept(t, S, s, n) ==
  /\ t[n] = "chain" => (S[Left(n)] = "output" => s[Left(n)] = "ok")
  /\ t[n] = "or" => \A c \in {Left(n), Right(n)} :
                      S[c] = "future" \/ (S[c] = "gone" /\ s[c] = "err")

KeptIsSaid == \A n \in nodes : Kept(shape, slot, said, n)

\* Right of an `or`, the left side is still there because it waits.
LeftWaits ==
  pc \in {"down", "up"} =>
    \A o \in nodes : shape[o] = "or" /\ IsPrefix(Right(o), at) /\ slot[Left(o)] = "future" =>
      said[Left(o)] = "wait"

\* The next poll will come to n.
Demanded(n) == Live(slot, n) /\ InOrder(shape, slot, n)

\* The poll on its way has been there, or none is.
Passed(n) == \/ pc = "idle"
             \/ pc = "up" /\ IsPrefix(at, n)
             \/ pc \in {"down", "up"} /\ BesideOr(n)

\* What s notifies of has not arrived, or the task will be polled.
Awaited(s) == s \in waiting /\ (source[s] = "open" \/ notified)

Heard(n) ==
  \/ shape[n] \in Combinator
  \/ shape[n] = "io" /\ Awaited(n)
  \/ shape[n] \in {"decode", "read_all"} /\ leaf[n] = "reading" /\ Awaited(Data)

\* Every leaf the next poll will come to, and this one has passed, waits.
LeavesWait ==
  stage = "extract" =>
    \A n \in nodes : Demanded(n) /\ Passed(n) /\ ~Over(n) => Heard(n)

StageWaits ==
  pc = "idle" => /\ stage = "init" => notified
                 /\ stage = "action" => Awaited(Action)
                 /\ stage = "respond" => Awaited(Respond)

ResultInv == IInv /\ SaysResult /\ KeptIsSaid /\ LeftWaits
WakeInv   == IInv /\ LeavesWait /\ StageWaits

-----------------------------------------------------------------------------
(* Paths and trees. *)

\* One path is a prefix of another when it agrees with it as far as it goes.
LEMMA PrefixByElement ==
  ASSUME NEW m \in Paths, NEW n \in Paths
  PROVE  IsPrefix(m, n) <=> Len(m) <= Len(n) /\ \A k \in 1..Len(m) : m[k] = n[k]
<1>1. CASE Len(m) <= Len(n)
  <2> DEFINE a == SubSeq(m, 1, Len(m))
             b == SubSeq(n, 1, Len(m))
  <2>1. /\ a \in Paths /\ Len(a) = Len(m) /\ \A k \in 1..Len(m) : a[k] = m[k]
        /\ b \in Paths /\ Len(b) = Len(m) /\ \A k \in 1..Len(m) : b[k] = n[k]
    <3>1. \A k \in 1..Len(m) : m[k] \in 1..2 /\ n[k] \in 1..2
      BY <1>1, ElementOfSeq DEF Paths
    <3> QED BY <1>1, <3>1 DEF Paths
  <2>2. (a = b) <=> \A k \in 1..Len(m) : m[k] = n[k]
    <3> HIDE DEF a, b
    <3>1. (\A k \in 1..Len(m) : a[k] = b[k]) => a = b
      BY <2>1, SeqEqual DEF Paths
    <3> QED BY <2>1, <3>1
  <2> QED BY <1>1, <2>2 DEF IsPrefix
<1> QED BY <1>1 DEF IsPrefix

\* The path of a child: its own, the parent's, and what is above it.
LEMMA ChildPath ==
  ASSUME NEW n \in Paths, NEW i \in 1..2
  PROVE  /\ Append(n, i) \in Paths /\ Append(n, i) # <<>>
         /\ Front(Append(n, i)) = n
         /\ IsPrefix(n, Append(n, i)) /\ ~IsPrefix(Append(n, i), n)
         /\ \A m \in Paths : IsPrefix(m, Append(n, i)) <=> IsPrefix(m, n) \/ m = Append(n, i)
<1> DEFINE c == Append(n, i)
<1>1. /\ c \in Paths /\ c # <<>> /\ Len(c) = Len(n) + 1
      /\ \A k \in 1..Len(n) : c[k] = n[k]
      /\ c[Len(n) + 1] = i
  BY AppendProperties DEF Paths
<1>2. Front(c) = n
  BY DEF Front, Paths
<1> HIDE DEF c
<1>3. IsPrefix(n, c) /\ ~IsPrefix(c, n)
  BY <1>1, PrefixByElement, LenProperties DEF Paths
<1>4. ASSUME NEW m \in Paths PROVE IsPrefix(m, c) <=> IsPrefix(m, n) \/ m = c
  <2>0. Len(m) \in Nat /\ Len(n) \in Nat BY LenProperties DEF Paths
  <2>1. IsPrefix(m, n) => IsPrefix(m, c)
    BY <1>1, <2>0, PrefixByElement
  <2>2. IsPrefix(c, c)
    BY <1>1, <2>0, PrefixByElement
  <2>3. ASSUME IsPrefix(m, c), Len(m) = Len(c) PROVE m = c
    BY <1>1, <2>3, PrefixByElement, SeqEqual DEF Paths
  <2>4. ASSUME IsPrefix(m, c), Len(m) # Len(c) PROVE IsPrefix(m, n)
    <3>1. Len(m) <= Len(n) BY <1>1, <2>0, <2>4, PrefixByElement
    <3> QED BY <1>1, <2>0, <2>4, <3>1, PrefixByElement
  <2> QED BY <2>1, <2>2, <2>3, <2>4
<1> QED BY <1>1, <1>2, <1>3, <1>4 DEF c

\* The same of Left and Right.
LEMMA Children ==
  ASSUME NEW n \in Paths
  PROVE  \A c \in {Left(n), Right(n)} :
           /\ c \in Paths /\ c # <<>> /\ Front(c) = n
           /\ IsPrefix(n, c) /\ ~IsPrefix(c, n)
           /\ \A m \in Paths : IsPrefix(m, c) <=> IsPrefix(m, n) \/ m = c
<1> SUFFICES ASSUME NEW c \in {Left(n), Right(n)}
             PROVE  /\ c \in Paths /\ c # <<>> /\ Front(c) = n
                    /\ IsPrefix(n, c) /\ ~IsPrefix(c, n)
                    /\ \A m \in Paths : IsPrefix(m, c) <=> IsPrefix(m, n) \/ m = c
  OBVIOUS
<1>1. PICK i \in 1..2 : c = Append(n, i)
  BY DEF Left, Right
<1> QED BY <1>1, ChildPath

\* The two children of a node differ, and so do those of two nodes.
LEMMA Siblings ==
  ASSUME NEW m \in Paths, NEW n \in Paths
  PROVE  /\ Left(n) # Right(n) /\ Left(m) # Right(n)
         /\ Left(m) = Left(n) => m = n
         /\ Right(m) = Right(n) => m = n
         /\ ~IsPrefix(Left(n), Right(n)) /\ ~IsPrefix(Right(n), Left(n))
<1>1. 1 \in 1..2 /\ 2 \in 1..2 OBVIOUS
<1>2. /\ Left(n) # Right(n) /\ Left(m) # Right(n)
      /\ Left(m) = Left(n) => m = n
      /\ Right(m) = Right(n) => m = n
  BY <1>1, AppendInjective DEF Left, Right, Paths
<1>3. ~IsPrefix(Left(n), Right(n)) /\ ~IsPrefix(Right(n), Left(n))
  BY <1>2, Children
<1> QED BY <1>2, <1>3

\* Prefixes compose, every path is one of itself, the root's is one of all.
LEMMA PrefixOrder ==
  ASSUME NEW k \in Paths, NEW m \in Paths, NEW n \in Paths
  PROVE  /\ IsPrefix(n, n) /\ IsPrefix(<<>>, n)
         /\ IsPrefix(n, <<>>) => n = <<>>
         /\ IsPrefix(k, m) /\ IsPrefix(m, n) => IsPrefix(k, n)
<1>1. Len(k) \in Nat /\ Len(m) \in Nat /\ Len(n) \in Nat
  BY LenProperties DEF Paths
<1>2. <<>> \in Paths /\ Len(<<>>) = 0 /\ (Len(n) = 0 => n = <<>>)
  BY EmptySeq DEF Paths
<1>3. IsPrefix(n, n) /\ IsPrefix(<<>>, n)
  BY <1>1, <1>2, PrefixByElement
<1>4. IsPrefix(n, <<>>) => n = <<>>
  BY <1>1, <1>2, PrefixByElement
<1>5. IsPrefix(k, m) /\ IsPrefix(m, n) => IsPrefix(k, n)
  BY <1>1, PrefixByElement
<1> QED BY <1>3, <1>4, <1>5

\* A path that is not the root's is a child of the one before it.
LEMMA ParentPath ==
  ASSUME NEW n \in Paths, n # <<>>
  PROVE  Front(n) \in Paths /\ (n = Left(Front(n)) \/ n = Right(Front(n)))
<1>1. PICK p \in Paths, i \in 1..2 : n = Append(p, i)
  BY SequenceEmptyOrAppend DEF Paths
<1>2. Front(n) = p
  BY <1>1, ChildPath
<1>3. i = 1 \/ i = 2
  OBVIOUS
<1> QED BY <1>1, <1>2, <1>3 DEF Left, Right

\* What a tree of extractors has below and above one of its nodes.
LEMMA TreeNodes ==
  ASSUME NEW t \in Shapes, NEW n \in DOMAIN t
  PROVE  /\ DOMAIN t \subseteq Paths /\ <<>> \in DOMAIN t
         /\ t[n] \in Combinator \cup Leaf
         /\ t[n] \in {"chain", "or"} => Left(n) \in DOMAIN t /\ Right(n) \in DOMAIN t
         /\ t[n] \in {"optional", "map"} => Left(n) \in DOMAIN t /\ Right(n) \notin DOMAIN t
         /\ n # <<>> => /\ Front(n) \in DOMAIN t
                        /\ n = Left(Front(n)) \/ n = Right(Front(n))
                        /\ t[Front(n)] \in Combinator
<1>1. IsTree(t) /\ DOMAIN t \subseteq Paths
  BY ShapesAssumption DEF Paths
<1> DEFINE kids(p) == {i \in 1..2 : Append(p, i) \in DOMAIN t}
           due(p)  == CASE t[p] \in {"chain", "or"} -> 1..2
                        [] t[p] \in {"optional", "map"} -> {1}
                        [] OTHER -> {}
<1>2. /\ <<>> \in DOMAIN t
      /\ \A p \in DOMAIN t : /\ p # <<>> => Front(p) \in DOMAIN t
                             /\ t[p] \in Combinator \cup Leaf
                             /\ kids(p) = due(p)
  BY <1>1 DEF IsTree
<1>3. \A p \in DOMAIN t : /\ t[p] \in {"chain", "or"} => due(p) = 1..2
                          /\ t[p] \in {"optional", "map"} => due(p) = {1}
                          /\ t[p] \notin Combinator => due(p) = {}
  BY DEF Combinator
<1>4. \A p : /\ 1 \in kids(p) <=> Left(p) \in DOMAIN t
             /\ 2 \in kids(p) <=> Right(p) \in DOMAIN t
  BY DEF Left, Right
<1> HIDE DEF kids, due
<1>5. /\ t[n] \in {"chain", "or"} => Left(n) \in DOMAIN t /\ Right(n) \in DOMAIN t
      /\ t[n] \in {"optional", "map"} => Left(n) \in DOMAIN t /\ Right(n) \notin DOMAIN t
  BY <1>2, <1>3, <1>4
<1>6. ASSUME n # <<>>
      PROVE  /\ Front(n) \in DOMAIN t
             /\ n = Left(Front(n)) \/ n = Right(Front(n))
             /\ t[Front(n)] \in Combinator
  BY <1>1, <1>2, <1>3, <1>4, <1>6, ParentPath
<1> QED BY <1>1, <1>2, <1>5, <1>6
-----------------------------------------------------------------------------
(* Functions on a tree, from the leaves up. *)

\* Among natural numbers there is a least one.
LEMMA LeastOf ==
  ASSUME NEW T, T \subseteq Nat, T # {}
  PROVE  \E x \in T : \A y \in T : ~(y < x)
<1> DEFINE R == OpToRel(<, Nat)
<1>1. IsWellFoundedOn(R, Nat)
  BY NatLessThanWellFounded
<1>2. \A x, y \in Nat : y < x => <<y, x>> \in R
  BY DEF OpToRel
<1> HIDE DEF R
<1>3. PICK x \in T : \A y \in T : <<y, x>> \notin R
  BY <1>1, WFMin
<1> QED BY <1>2, <1>3

\* What 0 has, and n + 1 when n has it, all have.
LEMMA Counting ==
  ASSUME NEW S, 0 \in S, \A n \in Nat : n \in S => n + 1 \in S
  PROVE  Nat \subseteq S
<1> SUFFICES ASSUME ~(Nat \subseteq S) PROVE FALSE
  OBVIOUS
<1>1. (Nat \ S) \subseteq Nat /\ (Nat \ S) # {}
  OBVIOUS
<1>2. PICK x \in Nat \ S : \A y \in Nat \ S : ~(y < x)
  BY <1>1, LeastOf
<1>3. x # 0 /\ x - 1 \in Nat /\ x - 1 < x /\ (x - 1) + 1 = x
  BY <1>2
<1>4. x - 1 \in S
  BY <1>2, <1>3
<1> QED BY <1>2, <1>3, <1>4

\* A tree has a depth.
LEMMA Depth ==
  ASSUME NEW t \in Shapes
  PROVE  \E d \in Nat : \A n \in DOMAIN t : Len(n) \in 0..d
<1>1. PICK n \in DOMAIN t : \A m \in DOMAIN t : Len(m) <= Len(n)
  BY ShapesAssumption DEF IsTree
<1>2. \A m \in DOMAIN t : Len(m) \in Nat
  BY TreeNodes, LenProperties DEF Paths
<1> QED BY <1>1, <1>2

\* What a node has when its children have it, all nodes have.
LEMMA BottomUp ==
  ASSUME NEW t \in Shapes, NEW U,
         \A n \in DOMAIN t : DOMAIN t \cap {Left(n), Right(n)} \subseteq U => n \in U
  PROVE  DOMAIN t \subseteq U
<1> SUFFICES ASSUME ~(DOMAIN t \subseteq U) PROVE FALSE
  OBVIOUS
<1>1. PICK d \in Nat : \A n \in DOMAIN t : Len(n) \in 0..d
  BY Depth
<1> DEFINE T == {d - Len(n) : n \in DOMAIN t \ U}
<1>2. T \subseteq Nat /\ T # {}
  <2>1. \A n \in DOMAIN t : d - Len(n) \in Nat
    BY <1>1
  <2>2. PICK n \in DOMAIN t : n \notin U
    OBVIOUS
  <2>3. d - Len(n) \in T
    BY <2>2
  <2>4. T \subseteq Nat
    BY <2>1
  <2> QED BY <2>3, <2>4
<1>3. PICK x \in T : \A y \in T : ~(y < x)
  BY <1>2, LeastOf
<1>4. PICK n \in DOMAIN t \ U : x = d - Len(n)
  BY <1>3
<1>5. ASSUME NEW c \in DOMAIN t \cap {Left(n), Right(n)} PROVE c \in U
  <2>1. Len(c) = Len(n) + 1
    BY TreeNodes DEF Left, Right, Paths
  <2>2. Len(c) \in 0..d /\ Len(n) \in 0..d
    BY <1>1
  <2>3. c \notin U => d - Len(c) \in T
    OBVIOUS
  <2>4. d - Len(c) < x
    BY <1>1, <1>4, <2>1, <2>2
  <2> QED BY <1>3, <2>3, <2>4
<1> QED BY <1>4, <1>5

\* A node's result rests on those of its children,
LEMMA ResultOfChildren ==
  ASSUME NEW t \in Shapes, NEW s, NEW f, NEW g, NEW n \in DOMAIN t,
         \A c \in DOMAIN t \cap {Left(n), Right(n)} : f[c] = g[c]
  PROVE  Result(t, s, f, n) = Result(t, s, g, n)
<1>1. /\ t[n] \in {"chain", "or"} => f[Left(n)] = g[Left(n)] /\ f[Right(n)] = g[Right(n)]
      /\ t[n] \in {"optional", "map"} => f[Left(n)] = g[Left(n)]
  BY TreeNodes
<1>2. CASE t[n] = "chain"
  BY <1>1, <1>2 DEF Result
<1>3. CASE t[n] = "or"
  BY <1>1, <1>3 DEF Result
<1>4. CASE t[n] \in {"optional", "map"}
  BY <1>1, <1>4 DEF Result
<1>5. CASE t[n] \notin {"chain", "or", "optional", "map"}
  BY <1>5 DEF Result
<1> QED BY <1>2, <1>3, <1>4, <1>5

\* a leaf's on what it said,
LEMMA ResultOfLeaf ==
  ASSUME NEW t \in Shapes, NEW s, NEW u, NEW f, NEW n \in DOMAIN t,
         t[n] \in Combinator \/ s[n] = u[n]
  PROVE  Result(t, s, f, n) = Result(t, u, f, n)
<1>1. CASE t[n] = "chain"
  BY <1>1 DEF Result
<1>2. CASE t[n] = "or"
  BY <1>2 DEF Result
<1>3. CASE t[n] \in {"optional", "map"}
  BY <1>3 DEF Result
<1>4. CASE t[n] \notin Combinator
  BY <1>4 DEF Result, Combinator
<1> QED BY <1>1, <1>2, <1>3, <1>4 DEF Combinator

\* so that there are results for all,
LEMMA ResultsExist ==
  ASSUME NEW t \in Shapes, NEW s
  PROVE  \E f : f = [n \in DOMAIN t |-> Result(t, s, f, n)]
<1>1. PICK d \in Nat : \A n \in DOMAIN t : Len(n) \in 0..d
  BY Depth
<1> DEFINE Solves(f, k) == \A n \in DOMAIN t : Len(n) + k > d => f[n] = Result(t, s, f, n)
           S == {k \in Nat : \E f : f = [n \in DOMAIN t |-> f[n]] /\ Solves(f, k)}
<1>2. 0 \in S
  <2> DEFINE f == [n \in DOMAIN t |-> 0]
  <2>1. f = [n \in DOMAIN t |-> f[n]]
    OBVIOUS
  <2>2. Solves(f, 0)
    BY <1>1
  <2> QED BY <2>1, <2>2
<1>3. ASSUME NEW k \in Nat, k \in S PROVE k + 1 \in S
  <2>1. PICK f : Solves(f, k)
    BY <1>3
  <2> DEFINE g == [n \in DOMAIN t |-> Result(t, s, f, n)]
  <2>2. ASSUME NEW n \in DOMAIN t, Len(n) + (k + 1) > d PROVE g[n] = Result(t, s, g, n)
    <3>1. ASSUME NEW c \in DOMAIN t \cap {Left(n), Right(n)} PROVE f[c] = g[c]
      <4>1. Len(c) = Len(n) + 1
        BY TreeNodes DEF Left, Right, Paths
      <4>2. Len(n) \in Nat
        BY <1>1
      <4>3. Len(c) + k > d
        BY <2>2, <4>1, <4>2
      <4> QED BY <2>1, <4>3
    <3>2. Result(t, s, f, n) = Result(t, s, g, n)
      <4> HIDE DEF g
      <4> QED BY <3>1, ResultOfChildren
    <3> QED BY <3>2
  <2>3. g = [n \in DOMAIN t |-> g[n]]
    OBVIOUS
  <2> HIDE DEF g
  <2>4. Solves(g, k + 1)
    BY <2>2
  <2> QED BY <2>3, <2>4
<1>4. d + 1 \in S
  <2> HIDE DEF S
  <2> QED BY <1>2, <1>3, Counting
<1>5. PICK f : f = [n \in DOMAIN t |-> f[n]] /\ Solves(f, d + 1)
  BY <1>4
<1>6. \A n \in DOMAIN t : f[n] = Result(t, s, f, n)
  BY <1>1, <1>5
<1> QED BY <1>5, <1>6

\* and Outcome is what it says it is.
LEMMA OutcomeOfNode ==
  ASSUME shape \in Shapes, NEW n \in nodes
  PROVE  Outcome[n] = Result(shape, said, Outcome, n)
<1> DEFINE P(g) == g = [m \in nodes |-> Result(shape, said, g, m)]
<1>1. Outcome = CHOOSE g : P(g)
  BY DEF Outcome, Result
<1>2. \E g : P(g)
  BY ResultsExist DEF nodes
<1> HIDE DEF P
<1>3. P(Outcome)
  BY <1>1, <1>2
<1> QED BY <1>3 DEF P

-----------------------------------------------------------------------------
(* Polls that go down and come up. *)

\* From a node a poll may be at, it may go up,
LEMMA MayGoUp ==
  ASSUME NEW t \in Shapes, NEW S, DOMAIN S = DOMAIN t, NEW p \in DOMAIN t, NEW c \in DOMAIN t,
         c \in {Left(p), Right(p)}, Live(S, c), InOrder(t, S, c)
  PROVE  Live(S, p) /\ InOrder(t, S, p)
<1>1. DOMAIN t \subseteq Paths
  BY TreeNodes
<1>2. /\ \A m \in Paths : IsPrefix(m, p) => IsPrefix(m, c)
      /\ \A n \in Paths : Right(n) \in Paths
  BY <1>1, Children
<1> QED BY <1>1, <1>2 DEF Live, InOrder

\* or down to a child that is there, in order.
LEMMA MayGoDown ==
  ASSUME NEW t \in Shapes, NEW S, DOMAIN S = DOMAIN t, NEW p \in DOMAIN t, NEW c \in DOMAIN t,
         c \in {Left(p), Right(p)}, Live(S, p), InOrder(t, S, p),
         S[c] = "future", t[p] = "chain" /\ c = Right(p) => S[Left(p)] = "output"
  PROVE  Live(S, c) /\ InOrder(t, S, c)
<1>1. DOMAIN t \subseteq Paths
  BY TreeNodes
<1>2. /\ \A m \in Paths : IsPrefix(m, c) <=> IsPrefix(m, p) \/ m = c
      /\ \A n \in Paths : Right(n) \in Paths
  BY <1>1, Children
<1>3. \A n \in DOMAIN t : Right(n) = c => n = p
  BY <1>1, Siblings
<1> QED BY <1>1, <1>2, <1>3 DEF Live, InOrder

\* What is done to the children of p is nothing to a poll at p.
LEMMA MayStay ==
  ASSUME NEW t \in Shapes, NEW S, NEW S2, DOMAIN S = DOMAIN t, DOMAIN S2 = DOMAIN t,
         NEW p \in DOMAIN t, Live(S, p), InOrder(t, S, p),
         \A n \in DOMAIN t : n \notin {Left(p), Right(p)} => S2[n] = S[n]
  PROVE  Live(S2, p) /\ InOrder(t, S2, p)
<1>1. DOMAIN t \subseteq Paths
  BY TreeNodes
<1>2. \A n \in DOMAIN t : IsPrefix(n, p) => n \notin {Left(p), Right(p)}
  BY <1>1, Children
<1>3. \A n \in DOMAIN t : IsPrefix(Right(n), p) => Left(n) \notin {Left(p), Right(p)}
  BY <1>1, Siblings, Children
<1>4. \A n \in DOMAIN t : t[n] = "chain" => Left(n) \in DOMAIN t
  BY TreeNodes
<1> QED BY <1>1, <1>2, <1>3, <1>4 DEF Live, InOrder

\* Nor to whether another node is ready.
LEMMA StaysReady ==
  ASSUME NEW t \in Shapes, NEW S, NEW S2, NEW L, NEW p \in DOMAIN t, NEW n \in DOMAIN t, n # p,
         \A m \in DOMAIN t : m \notin {Left(p), Right(p)} => S2[m] = S[m],
         Ready(t, S, L, n)
  PROVE  Ready(t, S2, L, n)
<1>1. DOMAIN t \subseteq Paths
  BY TreeNodes
<1>2. {Left(n), Right(n)} \cap {Left(p), Right(p)} = {}
  BY <1>1, Siblings
<1>3. /\ t[n] \in {"chain", "or", "optional", "map"} => Left(n) \in DOMAIN t
      /\ t[n] \in {"chain", "or"} => Right(n) \in DOMAIN t
  BY TreeNodes
<1> QED BY <1>2, <1>3 DEF Ready

\* With fewer futures left, a poll may be at fewer nodes.
LEMMA FewerLive ==
  ASSUME NEW S, NEW S2, DOMAIN S2 = DOMAIN S,
         \A m \in DOMAIN S : S2[m] = "future" => S[m] = "future",
         NEW n, Live(S2, n)
  PROVE  Live(S, n)
BY DEF Live

\* A poll may be at the root.
LEMMA MayStart ==
  ASSUME NEW t \in Shapes, NEW S, DOMAIN S = DOMAIN t
  PROVE  Live(S, <<>>) /\ InOrder(t, S, <<>>)
<1>1. DOMAIN t \subseteq Paths
  BY TreeNodes
<1>2. \A n \in Paths : (IsPrefix(n, <<>>) => n = <<>>) /\ Right(n) \in Paths /\ Right(n) # <<>>
  BY PrefixOrder, Children
<1> QED BY <1>1, <1>2 DEF Live, InOrder

-----------------------------------------------------------------------------
(* The combinators. *)

USE DEF nodes, owner, ret

\* Where a poll in the tree is: at a node every future above which is live.
LEMMA Whereabouts ==
  ASSUME IInv, pc \in {"down", "up"}
  PROVE  /\ shape \in Shapes /\ at \in nodes /\ nodes \subseteq Paths
         /\ DOMAIN slot = nodes /\ DOMAIN leaf = nodes /\ DOMAIN said = nodes
         /\ stage = "extract" /\ args = "here" /\ AllReady
         /\ Live(slot, at) /\ InOrder(shape, slot, at)
         /\ ret \in {"none", "wait", "ok", "err"}
         /\ pc = "up" => ret \in {"wait", "ok", "err"}
         /\ pc = "down" => Ready(shape, slot, leaf, at)
<1>1. /\ shape \in Shapes /\ at \in nodes
      /\ DOMAIN slot = nodes /\ DOMAIN leaf = nodes /\ DOMAIN said = nodes
      /\ stage = "extract" /\ args = "here" /\ AllReady
      /\ Live(slot, at) /\ InOrder(shape, slot, at)
  BY DEF IInv, TypeOK, Polling, Extracting
<1>2. ret \in {"none", "wait", "ok", "err"} /\ (pc = "up" => ret # "none")
  BY <1>1 DEF IInv, TypeOK, Polling
<1>3. pc = "down" => Ready(shape, slot, leaf, at)
  BY <1>1 DEF AllReady, Over
<1>4. nodes \subseteq Paths
  BY <1>1, TreeNodes
<1> QED BY <1>1, <1>2, <1>3, <1>4

\* The owner of a node that has returned, and what it has of the node.
LEMMA OwnerOf ==
  ASSUME IInv, pc = "up", at # <<>>
  PROVE  /\ owner \in nodes /\ at \in {Left(owner), Right(owner)}
         /\ slot[at] = "future"
         /\ Live(slot, owner) /\ InOrder(shape, slot, owner)
         /\ Ready(shape, slot, leaf, owner)
         /\ \A n \in nodes : IsPrefix(at, n) => IsPrefix(owner, n)
<1>1. /\ shape \in Shapes /\ at \in nodes /\ nodes \subseteq Paths /\ DOMAIN slot = nodes
      /\ AllReady /\ Live(slot, at) /\ InOrder(shape, slot, at)
  BY Whereabouts
<1>2. owner \in nodes /\ at \in {Left(owner), Right(owner)}
  BY <1>1, TreeNodes
<1>3. Live(slot, owner) /\ InOrder(shape, slot, owner)
  BY <1>1, <1>2, MayGoUp
<1>4. IsPrefix(at, at)
  BY <1>1, PrefixOrder
<1>5. slot[at] = "future"
  BY <1>1, <1>4 DEF Live
<1>6. IsPrefix(owner, at) /\ ~IsPrefix(at, owner)
  BY <1>1, <1>2, Children
<1>7. Ready(shape, slot, leaf, owner)
  BY <1>1, <1>2, <1>3, <1>6 DEF AllReady, Over
<1>8. \A n \in nodes : IsPrefix(at, n) => IsPrefix(owner, n)
  BY <1>1, <1>2, <1>6, PrefixOrder
<1> QED BY <1>2, <1>3, <1>5, <1>7, <1>8

\* Only p's children are touched, and no future is put back.
Takes(p) ==
  /\ slot' \in [nodes -> {"future", "output", "gone"}]
  /\ \A n \in nodes : /\ n \notin {Left(p), Right(p)} => slot'[n] = slot[n]
                      /\ slot'[n] = "future" => slot[n] = "future"

\* Every other node stays ready when what returned is above or taken.
LEMMA OthersReady ==
  ASSUME IInv, pc \in {"down", "up"}, NEW p \in nodes, Takes(p), UNCHANGED <<shape, leaf>>,
         \A n \in nodes : Over(n) => Over(n)' \/ ~Live(slot', n),
         Over(p)' \/ Ready(shape, slot', leaf, p)
  PROVE  AllReady'
<1>1. shape \in Shapes /\ AllReady /\ DOMAIN slot = nodes /\ DOMAIN slot' = nodes
  BY Whereabouts DEF Takes
<1> SUFFICES ASSUME NEW n \in nodes, Live(slot', n), ~Over(n)'
             PROVE  Ready(shape, slot', leaf, n)
  BY DEF AllReady
<1>2. Live(slot, n)
  BY <1>1, FewerLive DEF Takes
<1>3. Ready(shape, slot, leaf, n)
  BY <1>1, <1>2 DEF AllReady
<1>4. CASE n = p
  BY <1>4
<1>5. CASE n # p
  BY <1>1, <1>3, <1>5, StaysReady DEF Takes
<1> QED BY <1>4, <1>5

\* A combinator leaves everything else alone.
LEMMA CombinatorStep ==
  ASSUME IInv, pc \in {"down", "up"}, LeavesLeaves,
         slot' \in [nodes -> {"future", "output", "gone"}],
         pc' \in {"down", "up"}, at' \in nodes, said' \in [nodes -> {"none", "wait", "ok", "err"}],
         pc' = "up" => said'[at'] # "none",
         Live(slot', at'), InOrder(shape, slot', at'), AllReady'
  PROVE  IInv'
<1>1. stage = "extract" /\ args = "here"
  BY Whereabouts
<1>2. TypeOK' /\ NoPanic'
  BY DEF IInv, TypeOK, NoPanic, LeavesLeaves, endpoint, outside
<1>3. Polling'
  BY <1>1 DEF Polling, LeavesLeaves, endpoint
<1>4. Extracting'
  BY <1>1 DEF Extracting, LeavesLeaves
<1>5. OneReader'
  BY DEF IInv, OneReader, HasBody, LeavesLeaves, endpoint
<1> QED BY <1>2, <1>3, <1>4, <1>5 DEF IInv

\* It goes down to a child that is there,
LEMMA GoDown ==
  ASSUME IInv, pc \in {"down", "up"}, LeavesLeaves,
         NEW p \in nodes, NEW c \in nodes, c \in {Left(p), Right(p)}, Down(c), Takes(p),
         Live(slot, p), InOrder(shape, slot, p), Ready(shape, slot', leaf, p),
         slot'[c] = "future",
         shape[p] = "chain" /\ c = Right(p) => slot'[Left(p)] = "output",
         \/ pc = "down" \/ ret = "wait"
         \/ at # <<>> /\ slot'[at] # "future"
  PROVE  IInv'
<1>1. /\ shape \in Shapes /\ at \in nodes /\ nodes \subseteq Paths
      /\ DOMAIN slot = nodes /\ DOMAIN slot' = nodes
  BY Whereabouts DEF Takes
<1>2. UNCHANGED <<shape, leaf>>
  BY DEF LeavesLeaves, endpoint
<1>3. Live(slot', p) /\ InOrder(shape, slot', p)
  BY <1>1, MayStay DEF Takes
<1>4. Live(slot', c) /\ InOrder(shape, slot', c)
  BY <1>1, <1>3, MayGoDown
<1>5. ASSUME NEW n \in nodes, Over(n) PROVE ~Live(slot', n)
  BY <1>1, <1>5 DEF Over, Live
<1>6. AllReady'
  BY <1>2, <1>5, OthersReady
<1>7. said' \in [nodes -> {"none", "wait", "ok", "err"}]
  BY DEF IInv, TypeOK, Down
<1> QED BY <1>4, <1>6, <1>7, CombinatorStep DEF Down, Takes

\* or returns a result, which is the end of all that is below it unless it waits.
LEMMA GoUp ==
  ASSUME IInv, pc = "up", at # <<>>, LeavesLeaves,
         NEW res \in {"wait", "ok", "err"}, NEW p \in nodes, p = owner,
         Up(p, res), Takes(p),
         res = "wait" => /\ Ready(shape, slot', leaf, p)
                         /\ ret = "wait" \/ slot'[at] # "future"
  PROVE  IInv'
<1>1. /\ shape \in Shapes /\ at \in nodes /\ nodes \subseteq Paths
      /\ DOMAIN slot = nodes /\ DOMAIN slot' = nodes /\ DOMAIN said = nodes
  BY Whereabouts DEF Takes
<1>2. UNCHANGED <<shape, leaf>>
  BY DEF LeavesLeaves, endpoint
<1>3. /\ p \in nodes /\ Live(slot, p) /\ InOrder(shape, slot, p)
      /\ \A n \in nodes : IsPrefix(at, n) => IsPrefix(p, n)
  BY OwnerOf
<1>4. Live(slot', p) /\ InOrder(shape, slot', p)
  BY <1>1, <1>3, MayStay DEF Takes
<1>5. said' \in [nodes -> {"none", "wait", "ok", "err"}] /\ said'[p] = res
  BY <1>1, <1>3 DEF IInv, TypeOK, Up
<1>6. pc' = "up" /\ at' = p
  BY DEF Up
<1>7. \A n \in nodes : Over(n)' <=> res # "wait" /\ IsPrefix(p, n)
  BY <1>5, <1>6 DEF Over
<1>8. ASSUME NEW n \in nodes, Over(n) PROVE Over(n)' \/ ~Live(slot', n)
  BY <1>1, <1>3, <1>7, <1>8 DEF Over, Live
<1>9. IsPrefix(p, p)
  BY <1>1, PrefixOrder
<1>10. Over(p)' \/ Ready(shape, slot', leaf, p)
  BY <1>7, <1>9
<1>11. AllReady'
  BY <1>2, <1>3, <1>8, <1>10, OthersReady
<1> QED BY <1>3, <1>4, <1>5, <1>6, <1>11, CombinatorStep DEF Takes

\* A step that takes nothing.
LEMMA TakesNothing ==
  ASSUME IInv, UNCHANGED slot, NEW p
  PROVE  Takes(p)
BY DEF IInv, TypeOK, Takes

\* `and` polls its left side, or its right one when the left is done.
LEMMA CallChainStep == IInv /\ CallChain => IInv'
<1> SUFFICES ASSUME IInv, CallChain PROVE IInv'
  OBVIOUS
<1> DEFINE c == IF slot[Left(at)] = "output" THEN Right(at) ELSE Left(at)
<1>1. pc = "down" /\ shape[at] = "chain" /\ UNCHANGED slot /\ LeavesLeaves /\ PollMaybeDone(c)
  BY DEF CallChain, Called
<1>2. /\ shape \in Shapes /\ at \in nodes
      /\ Live(slot, at) /\ InOrder(shape, slot, at) /\ Ready(shape, slot, leaf, at)
  BY <1>1, Whereabouts
<1>3. c \in nodes /\ c \in {Left(at), Right(at)} /\ slot[c] = "future"
  BY <1>1, <1>2, TreeNodes DEF Ready
<1>4. c = Right(at) => slot[Left(at)] = "output"
  BY <1>2, TreeNodes, Siblings
<1> HIDE DEF c
<1> QED BY <1>1, <1>2, <1>3, <1>4, TakesNothing, GoDown DEF PollMaybeDone

\* `or` polls a side it still has.
LEMMA CallOrStep == IInv /\ CallOr => IInv'
<1> SUFFICES ASSUME IInv, CallOr PROVE IInv'
  OBVIOUS
<1>1. pc = "down" /\ shape[at] = "or" /\ UNCHANGED slot /\ LeavesLeaves
  BY DEF CallOr, Called
<1>2. /\ shape \in Shapes /\ at \in nodes
      /\ Live(slot, at) /\ InOrder(shape, slot, at) /\ Ready(shape, slot, leaf, at)
  BY <1>1, Whereabouts
<1>3. PICK c \in nodes : c \in {Left(at), Right(at)} /\ slot[c] = "future" /\ Down(c)
  BY <1>1, <1>2, TreeNodes DEF CallOr, Ready
<1> QED BY <1>1, <1>2, <1>3, TakesNothing, GoDown

\* `optional`, `fallible` and `map` poll the future they wrap.
LEMMA CallUnaryStep == IInv /\ CallUnary => IInv'
<1> SUFFICES ASSUME IInv, CallUnary PROVE IInv'
  OBVIOUS
<1>1. /\ pc = "down" /\ shape[at] \in {"optional", "map"} /\ Down(Left(at))
      /\ UNCHANGED slot /\ LeavesLeaves
  BY DEF CallUnary, Called
<1>2. /\ shape \in Shapes /\ at \in nodes
      /\ Live(slot, at) /\ InOrder(shape, slot, at) /\ Ready(shape, slot, leaf, at)
  BY <1>1, Whereabouts
<1>3. Left(at) \in nodes /\ slot[Left(at)] = "future"
  BY <1>1, <1>2, TreeNodes DEF Ready
<1> QED BY <1>1, <1>2, <1>3, TakesNothing, GoDown

\* The left side of `and` is followed by the right; both outputs are taken once.
LEMMA ReturnToChainStep == IInv /\ ReturnToChain => IInv'
<1> SUFFICES ASSUME IInv, ReturnToChain PROVE IInv'
  OBVIOUS
<1>1. pc = "up" /\ at # <<>> /\ shape[owner] = "chain" /\ LeavesLeaves
  BY DEF ReturnToChain, Returned
<1>2. PICK p \in nodes : p = owner
  BY <1>1, OwnerOf
<1>3. /\ shape \in Shapes /\ at \in nodes /\ nodes \subseteq Paths
      /\ DOMAIN slot = nodes /\ ret \in {"wait", "ok", "err"} /\ InOrder(shape, slot, at)
  BY <1>1, Whereabouts
<1>4. /\ at \in {Left(p), Right(p)} /\ slot[at] = "future"
      /\ Live(slot, p) /\ InOrder(shape, slot, p) /\ Ready(shape, slot, leaf, p)
  BY <1>1, <1>2, OwnerOf
<1>5. Left(p) \in nodes /\ Right(p) \in nodes /\ Left(p) # Right(p)
  BY <1>1, <1>2, <1>3, TreeNodes, Siblings
<1>6. slot \in [nodes -> {"future", "output", "gone"}]
  BY DEF IInv, TypeOK
<1>7. slot[Left(p)] \in {"future", "output"} /\ slot[Right(p)] = "future"
  BY <1>1, <1>2, <1>4 DEF Ready
<1>8. CASE ret = "wait"
  <2>1. Up(p, "wait") /\ UNCHANGED slot
    BY <1>2, <1>8 DEF ReturnToChain
  <2> QED BY <1>1, <1>2, <1>4, <1>8, <2>1, TakesNothing, GoUp
<1>9. CASE ret = "err"
  <2>1. Up(p, "err") /\ slot' = [slot EXCEPT ![Left(p)] = "gone", ![Right(p)] = "gone"]
    BY <1>2, <1>9 DEF ReturnToChain
  <2>2. Takes(p)
    BY <1>6, <2>1 DEF Takes
  <2> QED BY <1>1, <1>2, <2>1, <2>2, GoUp
<1>10. CASE ret = "ok" /\ at = Left(p)
  <2>1. slot' = [slot EXCEPT ![at] = "output"] /\ PollMaybeDone(Right(p))
    BY <1>2, <1>5, <1>10 DEF ReturnToChain
  <2>2. Down(Right(p))
    BY <1>7, <2>1 DEF PollMaybeDone
  <2>3. Takes(p)
    BY <1>3, <1>6, <1>10, <2>1 DEF Takes
  <2>4. slot'[at] = "output" /\ slot'[Right(p)] = "future"
    BY <1>3, <1>5, <1>6, <1>7, <1>10, <2>1
  <2>5. Ready(shape, slot', leaf, p)
    BY <1>1, <1>2, <1>10, <2>4 DEF Ready
  <2> QED BY <1>1, <1>4, <1>5, <1>10, <2>2, <2>3, <2>4, <2>5, GoDown
<1>11. CASE ret = "ok" /\ at = Right(p)
  <2>1. slot[Left(p)] = "output"
    BY <1>1, <1>2, <1>3, <1>11, PrefixOrder DEF InOrder
  <2>2. Up(p, "ok") /\ slot' = [slot EXCEPT ![Left(p)] = "gone", ![at] = "gone"]
    BY <1>2, <1>5, <1>11, <2>1 DEF ReturnToChain
  <2>3. Takes(p)
    BY <1>3, <1>6, <1>11, <2>2 DEF Takes
  <2> QED BY <1>1, <1>2, <2>2, <2>3, GoUp
<1> QED BY <1>3, <1>4, <1>8, <1>9, <1>10, <1>11

\* `or` drops a side that failed, and has the other one.
LEMMA ReturnToOrStep == IInv /\ ReturnToOr => IInv'
<1> SUFFICES ASSUME IInv, ReturnToOr PROVE IInv'
  OBVIOUS
<1>1. pc = "up" /\ at # <<>> /\ shape[owner] = "or" /\ LeavesLeaves
  BY DEF ReturnToOr, Returned
<1>2. PICK p \in nodes : p = owner
  BY <1>1, OwnerOf
<1>3. /\ shape \in Shapes /\ at \in nodes /\ nodes \subseteq Paths
      /\ DOMAIN slot = nodes /\ ret \in {"wait", "ok", "err"}
  BY <1>1, Whereabouts
<1>4. /\ at \in {Left(p), Right(p)} /\ slot[at] = "future"
      /\ Live(slot, p) /\ InOrder(shape, slot, p) /\ Ready(shape, slot, leaf, p)
  BY <1>1, <1>2, OwnerOf
<1>5. Left(p) \in nodes /\ Right(p) \in nodes /\ Left(p) # Right(p)
  BY <1>1, <1>2, <1>3, TreeNodes, Siblings
<1>6. slot \in [nodes -> {"future", "output", "gone"}]
  BY DEF IInv, TypeOK
<1>7. PICK other \in nodes : other = IF at = Left(p) THEN Right(p) ELSE Left(p)
  BY <1>5
<1>8. CASE ret = "err" /\ slot[other] = "future"
  <2>1. /\ slot' = [slot EXCEPT ![at] = "gone"]
        /\ IF at = Left(p) THEN Down(other) ELSE Up(p, "wait")
    BY <1>2, <1>7, <1>8 DEF ReturnToOr
  <2>2. Takes(p)
    BY <1>3, <1>4, <1>6, <2>1 DEF Takes
  <2>3. slot'[at] = "gone" /\ slot'[other] = "future"
    BY <1>3, <1>4, <1>5, <1>6, <1>7, <1>8, <2>1
  <2>4. Ready(shape, slot', leaf, p)
    BY <1>1, <1>2, <1>4, <1>7, <2>3 DEF Ready
  <2>5. CASE at = Left(p)
    BY <1>1, <1>2, <1>4, <1>7, <2>1, <2>2, <2>3, <2>4, <2>5, GoDown
  <2>6. CASE at # Left(p)
    BY <1>1, <1>2, <2>1, <2>2, <2>3, <2>4, <2>6, GoUp
  <2> QED BY <2>5, <2>6
<1>9. CASE ret = "wait" /\ slot[other] = "future" /\ at = Left(p)
  <2>1. Down(other) /\ UNCHANGED slot
    BY <1>2, <1>7, <1>9 DEF ReturnToOr
  <2> QED BY <1>1, <1>2, <1>4, <1>7, <1>9, <2>1, TakesNothing, GoDown
<1>10. CASE ~(ret = "err" /\ slot[other] = "future")
           /\ ~(ret = "wait" /\ slot[other] = "future" /\ at = Left(p))
  <2>1. Up(p, ret) /\ UNCHANGED slot
    BY <1>2, <1>7, <1>10 DEF ReturnToOr
  <2> QED BY <1>1, <1>2, <1>3, <1>4, <2>1, TakesNothing, GoUp
<1> QED BY <1>8, <1>9, <1>10

\* `optional`, `fallible` and `map` pass on a result.
LEMMA ReturnToUnaryStep == IInv /\ ReturnToUnary => IInv'
<1> SUFFICES ASSUME IInv, ReturnToUnary PROVE IInv'
  OBVIOUS
<1> DEFINE res == IF shape[owner] = "optional" /\ ret = "err" THEN "ok" ELSE ret
<1>1. pc = "up" /\ at # <<>> /\ LeavesLeaves /\ Up(owner, res) /\ UNCHANGED slot
  BY DEF ReturnToUnary, Returned
<1>2. PICK p \in nodes : p = owner
  BY <1>1, OwnerOf
<1>3. res \in {"wait", "ok", "err"} /\ (res = "wait" => ret = "wait")
  BY <1>1, Whereabouts
<1>4. Ready(shape, slot, leaf, p)
  BY <1>1, <1>2, OwnerOf
<1> HIDE DEF res
<1> QED BY <1>1, <1>2, <1>3, <1>4, TakesNothing, GoUp

-----------------------------------------------------------------------------
(* Leaves. *)

\* A leaf returns, and is spent unless it waits.
LEMMA LeafStep ==
  ASSUME IInv, pc = "down", LeavesRest,
         NEW res \in {"wait", "ok", "err"}, Up(at, res),
         leaf' \in [nodes -> {"init", "reading", "spent"}],
         \A n \in nodes : n # at \/ res = "wait" => leaf'[n] = leaf[n],
         body' \in {"here", "gone"}, waiting' \subseteq Sources(shape),
         OneReader'
  PROVE  IInv'
<1>1. /\ shape \in Shapes /\ at \in nodes /\ nodes \subseteq Paths
      /\ DOMAIN said = nodes /\ stage = "extract" /\ args = "here" /\ AllReady
      /\ Live(slot, at) /\ InOrder(shape, slot, at)
  BY Whereabouts
<1>2. said' \in [nodes -> {"none", "wait", "ok", "err"}] /\ said'[at] = res
      /\ pc' = "up" /\ at' = at
  BY <1>1 DEF IInv, TypeOK, Up
<1>3. TypeOK' /\ NoPanic'
  BY <1>2 DEF IInv, TypeOK, NoPanic, LeavesRest, endpoint, outside
<1>4. Polling'
  BY <1>1, <1>2 DEF Polling, LeavesRest, endpoint
<1>5. ASSUME NEW n \in nodes, Live(slot', n), ~Over(n)'
      PROVE  Ready(shape, slot', leaf', n)
  <2>1. Ready(shape, slot, leaf, n)
    BY <1>1, <1>5 DEF AllReady, Over, LeavesRest
  <2>2. IsPrefix(at, at)
    BY <1>1, PrefixOrder
  <2>3. leaf'[n] = leaf[n]
    BY <1>2, <1>5, <2>2 DEF Over
  <2> QED BY <2>1, <2>3 DEF Ready, LeavesRest
<1>6. Extracting'
  BY <1>1, <1>5 DEF Extracting, AllReady, LeavesRest, endpoint
<1> QED BY <1>3, <1>4, <1>6 DEF IInv

\* No leaf has the body that had not.
LEMMA NoNewReader ==
  ASSUME IInv, UNCHANGED <<shape, body>>, \A n \in nodes : HasBody(n)' => HasBody(n)
  PROVE  OneReader'
BY DEF IInv, OneReader

\* A future that is ready whenever it is polled.
LEMMA PollReadyStep == IInv /\ PollReady => IInv'
<1> SUFFICES ASSUME IInv, PollReady PROVE IInv'
  OBVIOUS
<1>1. PICK res \in {"wait", "ok", "err"} : Up(at, res)
  BY DEF PollReady
<1>2. pc = "down" /\ LeavesRest /\ UNCHANGED <<leaf, body, waiting>>
  BY DEF PollReady, Called
<1>3. OneReader'
  BY <1>2, NoNewReader DEF HasBody, LeavesRest, endpoint
<1> QED BY <1>1, <1>2, <1>3, LeafStep DEF IInv, TypeOK

\* The leaf polled is spent, and it is none that still reads.
LEMMA SpendStep ==
  ASSUME IInv, pc = "down", LeavesRest, NEW res \in {"ok", "err"}, Up(at, res),
         Spend, UNCHANGED <<body, waiting>>,
         shape[at] \in {"decode", "read_all"} => HasBody(at)
  PROVE  IInv'
<1>1. at \in nodes /\ leaf \in [nodes -> {"init", "reading", "spent"}]
  BY DEF IInv, TypeOK
<1>2. /\ leaf' \in [nodes -> {"init", "reading", "spent"}] /\ leaf'[at] = "spent"
      /\ \A n \in nodes : n # at => leaf'[n] = leaf[n]
  BY <1>1 DEF Spend
<1>3. \A n \in nodes : HasBody(n)' => HasBody(n)
  BY <1>1, <1>2 DEF HasBody, LeavesRest, endpoint
<1>4. OneReader'
  BY <1>3, NoNewReader DEF LeavesRest, endpoint
<1> QED BY <1>2, <1>4, LeafStep DEF IInv, TypeOK

\* `value` is polled once.
LEMMA PollValueStep == IInv /\ PollValue => IInv'
<1> SUFFICES ASSUME IInv, PollValue PROVE IInv'
  OBVIOUS
<1>1. pc = "down" /\ shape[at] = "value" /\ Spend /\ UNCHANGED <<body, waiting>> /\ LeavesRest
  BY DEF PollValue, Called
<1>2. leaf[at] # "spent"
  BY <1>1, Whereabouts DEF Ready
<1>3. Up(at, "ok")
  BY <1>2 DEF PollValue
<1> QED BY <1>1, <1>3, SpendStep

\* A leaf that waits for s, or has its answer.
LEMMA AwaitStep ==
  ASSUME IInv, pc = "down", LeavesRest, NEW s \in Sources(shape), Await(s), UNCHANGED body,
         shape[at] \in {"decode", "read_all"} => HasBody(at)
  PROVE  IInv'
<1>1. source[s] \in {"open", "ok", "err"}
  BY DEF IInv, TypeOK
<1>2. CASE source[s] = "open"
  <2>1. Up(at, "wait") /\ waiting' = waiting \cup {s} /\ UNCHANGED leaf
    BY <1>2 DEF Await
  <2>2. OneReader'
    BY <2>1, NoNewReader DEF HasBody, LeavesRest, endpoint
  <2> QED BY <2>1, <2>2, LeafStep DEF IInv, TypeOK
<1>3. CASE source[s] # "open"
  BY <1>1, <1>3, SpendStep DEF Await
<1> QED BY <1>2, <1>3

\* An extractor that waits for something of its own.
LEMMA PollIoStep == IInv /\ PollIo => IInv'
<1> SUFFICES ASSUME IInv, PollIo PROVE IInv'
  OBVIOUS
<1>1. pc = "down" /\ shape[at] = "io" /\ UNCHANGED body /\ LeavesRest
  BY DEF PollIo, Called
<1>2. leaf[at] # "spent" /\ at \in nodes
  BY <1>1, Whereabouts DEF Ready
<1>3. Await(at) /\ at \in Sources(shape)
  BY <1>1, <1>2 DEF PollIo, Sources
<1> QED BY <1>1, <1>3, AwaitStep

\* The reader of the body waits for it, or has read it.
LEMMA ReadBodyStep == IInv /\ ReadBody => IInv'
<1> SUFFICES ASSUME IInv, ReadBody PROVE IInv'
  OBVIOUS
<1>1. /\ pc = "down" /\ shape[at] \in {"decode", "read_all"} /\ leaf[at] # "init"
      /\ UNCHANGED body /\ LeavesRest
  BY DEF ReadBody, Called
<1>2. leaf[at] # "spent" /\ at \in nodes
  BY <1>1, Whereabouts DEF Ready
<1>3. HasBody(at)
  BY <1>1, <1>2 DEF IInv, TypeOK, HasBody
<1>4. CASE Await(Data)
  BY <1>1, <1>3, <1>4, AwaitStep DEF Sources
<1>5. CASE Up(at, "err") /\ Spend /\ UNCHANGED waiting
  BY <1>1, <1>3, <1>5, SpendStep
<1> QED BY <1>2, <1>4, <1>5 DEF ReadBody

\* The first to ask for the body is the one that has it.
LEMMA TakeBodyStep == IInv /\ TakeBody => IInv'
<1> SUFFICES ASSUME IInv, TakeBody PROVE IInv'
  OBVIOUS
<1>1. /\ pc = "down" /\ shape[at] \in {"decode", "read_all", "stream"} /\ leaf[at] = "init"
      /\ UNCHANGED waiting /\ LeavesRest
  BY DEF TakeBody, Called
<1>2. CASE Up(at, "err") /\ UNCHANGED <<leaf, body>>
  <2>1. OneReader'
    BY <1>1, <1>2, NoNewReader DEF HasBody, LeavesRest, endpoint
  <2> QED BY <1>1, <1>2, <2>1, LeafStep DEF IInv, TypeOK
<1>3. CASE /\ body = "here" /\ body' = "gone" /\ leaf' = [leaf EXCEPT ![at] = "reading"]
           /\ IF shape[at] = "stream" THEN Up(at, "ok") ELSE Enter("down")
  <2>1. /\ shape \in Shapes /\ at \in nodes /\ nodes \subseteq Paths
        /\ stage = "extract" /\ args = "here" /\ AllReady
        /\ Live(slot, at) /\ InOrder(shape, slot, at)
    BY <1>1, Whereabouts
  <2>2. /\ leaf' \in [nodes -> {"init", "reading", "spent"}] /\ leaf'[at] = "reading"
        /\ \A n \in nodes : n # at => leaf'[n] = leaf[n]
    BY <1>3, <2>1 DEF IInv, TypeOK
  <2>3. \A n \in nodes : HasBody(n)' => n = at
    BY <1>1, <1>3, <2>2 DEF IInv, OneReader, HasBody, LeavesRest, endpoint
  <2>4. OneReader'
    BY <1>1, <1>3, <2>3 DEF OneReader, LeavesRest, endpoint
  <2>5. CASE Up(at, "ok")
    BY <1>1, <1>3, <2>2, <2>4, <2>5, LeafStep DEF IInv, TypeOK
  <2>6. CASE Enter("down")
    <3>1. TypeOK' /\ NoPanic'
      BY <1>1, <1>3, <2>2, <2>6 DEF IInv, TypeOK, NoPanic, Enter, LeavesRest, endpoint, outside
    <3>2. Polling'
      BY <1>1, <2>1, <2>6 DEF Polling, Enter, LeavesRest, endpoint
    <3>3. ASSUME NEW n \in nodes, Live(slot, n) PROVE Ready(shape, slot, leaf', n)
      <4>1. Ready(shape, slot, leaf, n)
        BY <1>1, <2>1, <3>3 DEF AllReady, Over
      <4>2. leaf'[n] = leaf[n] \/ leaf'[n] = "reading"
        BY <2>2
      <4> QED BY <4>1, <4>2 DEF Ready
    <3>4. Extracting'
      BY <1>1, <2>1, <3>3 DEF Extracting, AllReady, LeavesRest, endpoint
    <3> QED BY <2>4, <3>1, <3>2, <3>4 DEF IInv
  <2> QED BY <1>3, <2>5, <2>6
<1> QED BY <1>2, <1>3 DEF TakeBody

-----------------------------------------------------------------------------
(* AppFuture. *)

\* Outside the tree only the stage moves, and the extractors are not left
\* half-way unless they are to be polled again.
LEMMA StageStep ==
  ASSUME IInv, UNCHANGED <<shape, async, slot, leaf, body, at, said>>,
         pc' \in {"idle", "stage"},
         stage' \in {"init", "extract", "action", "respond", "done"}, args' \in {"here", "gone"},
         waiting' \subseteq Sources(shape), notified' \in BOOLEAN,
         source' \in [Sources(shape) -> {"open", "ok", "err"}],
         \/ stage' \notin {"init", "extract"}
         \/ /\ UNCHANGED args /\ stage \in {"init", "extract"}
            /\ pc # "up" \/ ret = "wait"
  PROVE  IInv'
<1>1. TypeOK' /\ NoPanic'
  BY DEF IInv, TypeOK, NoPanic
<1>2. Polling'
  BY DEF Polling
<1>3. Extracting'
  <2> SUFFICES ASSUME stage' \in {"init", "extract"} PROVE args' = "here" /\ AllReady'
    BY DEF Extracting
  <2>1. AllReady /\ args = "here" /\ UNCHANGED args /\ (pc # "up" \/ ret = "wait")
    BY DEF IInv, Extracting
  <2> QED BY <2>1 DEF AllReady, Over
<1>4. OneReader'
  BY DEF IInv, OneReader, HasBody
<1> QED BY <1>1, <1>2, <1>3, <1>4 DEF IInv

\* The extractors are polled from the root.
LEMMA StartStep ==
  ASSUME IInv, UNCHANGED <<shape, async, slot, leaf, args, body, source, waiting>>,
         stage \in {"init", "extract"}, pc # "up", stage' = "extract", Down(<<>>), notified' \in BOOLEAN
  PROVE  IInv'
<1>1. /\ shape \in Shapes /\ DOMAIN slot = nodes
      /\ <<>> \in nodes
  BY TreeNodes DEF IInv, TypeOK
<1>2. TypeOK' /\ NoPanic'
  BY <1>1 DEF IInv, TypeOK, NoPanic, Down
<1>3. Polling'
  BY <1>1, MayStart DEF Polling, Down
<1>4. Extracting'
  BY DEF IInv, Extracting, AllReady, Over, Down
<1>5. OneReader'
  BY DEF IInv, OneReader, HasBody
<1> QED BY <1>2, <1>3, <1>4, <1>5 DEF IInv

\* A poll begins at the root, or goes on with the handler.
LEMMA PollStep == IInv /\ Poll => IInv'
<1> SUFFICES ASSUME IInv, Poll PROVE IInv'
  OBVIOUS
<1>1. /\ pc = "idle" /\ stage # "done" /\ notified' = FALSE
      /\ UNCHANGED <<shape, async, stage, slot, leaf, args, body, source, waiting>>
  BY DEF Poll, endpoint
<1>2. CASE stage = "extract"
  BY <1>1, <1>2, StartStep DEF Poll
<1>3. CASE stage # "extract"
  <2>1. Enter("stage")
    BY <1>3 DEF Poll
  <2> QED BY <1>1, <1>3, <2>1, StageStep DEF IInv, TypeOK, Enter
<1> QED BY <1>2, <1>3

\* The extractors are made, or the request is over before.
LEMMA DispatchStep == IInv /\ Dispatch => IInv'
<1> SUFFICES ASSUME IInv, Dispatch PROVE IInv'
  OBVIOUS
<1>1. /\ pc = "stage" /\ stage = "init"
      /\ UNCHANGED <<shape, async, slot, leaf, args, body, source, waiting, notified>>
  BY DEF Dispatch, endpoint, outside
<1>2. CASE Finish
  BY <1>1, <1>2, StageStep DEF Finish, Enter, IInv, TypeOK
<1>3. CASE stage' = "extract" /\ Down(<<>>)
  BY <1>1, <1>3, StartStep DEF IInv, TypeOK
<1> QED BY <1>2, <1>3 DEF Dispatch

\* The extractors are through: the arguments are taken this once.
LEMMA ExtractedStep == IInv /\ Extracted => IInv'
<1> SUFFICES ASSUME IInv, Extracted PROVE IInv'
  OBVIOUS
<1>1. /\ pc = "up" /\ UNCHANGED <<shape, async, slot, leaf, body, source, waiting, notified>>
  BY DEF Extracted, endpoint, outside
<1>2. stage = "extract" /\ args = "here" /\ ret \in {"wait", "ok", "err"}
  BY <1>1, Whereabouts
<1>3. CASE ret = "wait"
  BY <1>1, <1>2, <1>3, StageStep DEF Extracted, Enter, IInv, TypeOK
<1>4. CASE ret = "err"
  BY <1>1, <1>2, <1>4, StageStep DEF Extracted, Finish, Enter, IInv, TypeOK
<1>5. CASE ret = "ok"
  <2>1. args' = "gone" /\ stage' \in {"action", "respond"} /\ Enter("stage")
    BY <1>2, <1>5 DEF Extracted
  <2> QED BY <1>1, <2>1, StageStep DEF Enter, IInv, TypeOK
<1> QED BY <1>2, <1>3, <1>4, <1>5

\* The handler's own future is polled.
LEMMA PollActionStep == IInv /\ PollAction => IInv'
<1> SUFFICES ASSUME IInv, PollAction PROVE IInv'
  OBVIOUS
<1>1. /\ stage' \in {"action", "respond", "done"} /\ pc' \in {"idle", "stage"}
      /\ waiting' \subseteq Sources(shape)
      /\ UNCHANGED <<shape, async, at, said, slot, leaf, args, body, source, notified>>
  BY DEF PollAction, Park, Finish, Enter, Sources, endpoint, outside, IInv, TypeOK
<1> QED BY <1>1, StageStep DEF IInv, TypeOK

\* The responder's future is polled.
LEMMA PollRespondStep == IInv /\ PollRespond => IInv'
<1> SUFFICES ASSUME IInv, PollRespond PROVE IInv'
  OBVIOUS
<1>1. /\ stage' \in {"respond", "done"} /\ pc' = "idle"
      /\ waiting' \subseteq Sources(shape)
      /\ UNCHANGED <<shape, async, at, said, slot, leaf, args, body, source, notified>>
  BY DEF PollRespond, Park, Finish, Enter, Sources, endpoint, outside, IInv, TypeOK
<1> QED BY <1>1, StageStep DEF IInv, TypeOK

\* What arrives says nothing to the tree until it is polled.
LEMMA QuietStep ==
  ASSUME IInv, UNCHANGED <<shape, async, stage, pc, at, said, slot, leaf, args, body, waiting>>,
         source' \in [Sources(shape) -> {"open", "ok", "err"}], notified' \in BOOLEAN
  PROVE  IInv'
BY DEF IInv, TypeOK, NoPanic, Polling, Extracting, AllReady, Over, OneReader, HasBody

\* Something arrives.
LEMMA ArriveStep == IInv /\ (\E s \in DOMAIN source : Arrive(s)) => IInv'
<1> SUFFICES ASSUME IInv, NEW s \in DOMAIN source, Arrive(s) PROVE IInv'
  OBVIOUS
<1>1. PICK res \in {"ok", "err"} : source' = [source EXCEPT ![s] = res]
  BY DEF Arrive
<1>2. source' \in [Sources(shape) -> {"open", "ok", "err"}] /\ notified' \in BOOLEAN
  BY <1>1 DEF Arrive, IInv, TypeOK
<1> QED BY <1>2, QuietStep DEF Arrive, endpoint

-----------------------------------------------------------------------------
(* The invariant and what follows from it. *)

\* It holds before the first poll,
LEMMA InitInv == Init => IInv
<1> SUFFICES ASSUME Init PROVE IInv
  OBVIOUS
<1>1. shape \in Shapes /\ at = <<>> /\ <<>> \in nodes /\ nodes \subseteq Paths
  BY TreeNodes, ShapesAssumption DEF Init, IsTree, Paths
<1>2. TypeOK /\ NoPanic
  BY <1>1, ShapesAssumption DEF Init, TypeOK, NoPanic
<1>3. Polling
  BY DEF Init, Polling
<1>4. Extracting
  <2>1. \A n \in nodes : Ready(shape, slot, leaf, n)
    BY <1>1, TreeNodes DEF Init, Ready
  <2> QED BY <2>1 DEF Init, Extracting, AllReady
<1>5. OneReader
  BY DEF Init, OneReader, HasBody
<1> QED BY <1>2, <1>3, <1>4, <1>5 DEF IInv

\* and every step keeps it.
LEMMA NextInv == IInv /\ [Next]_vars => IInv'
<1> SUFFICES ASSUME IInv, [Next]_vars PROVE IInv'
  OBVIOUS
<1>1. CASE Turn
  BY <1>1, DispatchStep, ExtractedStep, PollActionStep, PollRespondStep,
     CallChainStep, ReturnToChainStep, CallOrStep, ReturnToOrStep,
     CallUnaryStep, ReturnToUnaryStep, PollReadyStep, PollValueStep, PollIoStep,
     TakeBodyStep, ReadBodyStep DEF Turn
<1>2. CASE Poll
  BY <1>2, PollStep
<1>3. CASE \E s \in DOMAIN source : Arrive(s)
  BY <1>3, ArriveStep
<1>4. CASE UNCHANGED vars
  BY <1>4, QuietStep DEF vars, IInv, TypeOK
<1> QED BY <1>1, <1>2, <1>3, <1>4 DEF Next

\* The inductive invariant holds at every step of every poll.
THEOREM Invariance == Spec => []IInv
BY InitInv, NextInv, PTL DEF Spec

\* Whatever the tree of extractors and the order in which things arrive, none
\* of the panics of future.rs, ext.rs, endpoint.rs and extractor.rs is reached:
\* no future is polled after it returned, no output is taken twice.
THEOREM NoPollPanics == Spec => []PollInv
<1>1. IInv => PollInv
  BY DEF IInv, PollInv
<1> QED BY <1>1, Invariance, PTL

\* `RequestBody::take_from` gives the body to one extractor at most, however
\* many of the endpoint's extractors read it.
THEOREM BodyGoesToOne == Spec => []BodyTakenOnce
<1>1. ASSUME IInv PROVE BodyTakenOnce
  <2> DEFINE readers == {n \in nodes : HasBody(n)}
  <2>1. CASE readers = {}
    BY <2>1, FS_EmptySet DEF BodyTakenOnce
  <2>2. CASE readers # {}
    <3>1. PICK n \in nodes : HasBody(n)
      BY <2>2
    <3>2. readers = {n}
      BY <1>1, <3>1 DEF IInv, OneReader
    <3>3. Cardinality(readers) = 1
      BY <3>2, FS_Singleton
    <3> QED BY <3>3 DEF BodyTakenOnce
  <2> QED BY <2>1, <2>2
<1> QED BY <1>1, Invariance, PTL
-----------------------------------------------------------------------------
(* What the nodes say. *)

\* No path goes on both left and right of a node.
LEMMA Diverge ==
  ASSUME NEW o \in Paths, NEW n \in Paths
  PROVE  ~(IsPrefix(Left(o), n) /\ IsPrefix(Right(o), n))
<1>1. /\ Left(o) \in Paths /\ Len(Left(o)) = Len(o) + 1 /\ Left(o)[Len(o) + 1] = 1
      /\ Right(o) \in Paths /\ Len(Right(o)) = Len(o) + 1 /\ Right(o)[Len(o) + 1] = 2
  BY AppendProperties DEF Left, Right, Paths
<1>2. Len(o) + 1 \in 1..(Len(o) + 1)
  BY LenProperties DEF Paths
<1> QED BY <1>1, <1>2, PrefixByElement

\* The poll is at p, or comes back to it from a child.
AtOrBelow(p) == \/ pc = "down" /\ at = p
                \/ pc = "up" /\ at \in {Left(p), Right(p)}

\* Those that have been called and not returned are p and what is above it.
LEMMA PathTo ==
  ASSUME IInv, NEW p \in nodes, AtOrBelow(p)
  PROVE  /\ \A n \in nodes : OnPath(n) <=> IsPrefix(n, p)
         /\ IsPrefix(p, at)
<1>1. shape \in Shapes /\ at \in nodes /\ nodes \subseteq Paths
  BY Whereabouts DEF AtOrBelow
<1>2. CASE pc = "down"
  BY <1>1, <1>2, PrefixOrder DEF AtOrBelow, OnPath
<1>3. CASE pc = "up"
  <2>1. /\ IsPrefix(p, at) /\ ~IsPrefix(at, p)
        /\ \A n \in nodes : IsPrefix(n, at) <=> IsPrefix(n, p) \/ n = at
    BY <1>1, <1>3, Children DEF AtOrBelow
  <2> QED BY <1>3, <2>1 DEF OnPath
<1> QED BY <1>2, <1>3 DEF AtOrBelow

\* What is taken from p is nothing to what other nodes keep.
LEMMA StaysKept ==
  ASSUME IInv, KeptIsSaid, NEW p \in nodes, Takes(p), NEW n \in nodes, n # p
  PROVE  Kept(shape, slot', said, n)
<1>1. shape \in Shapes /\ nodes \subseteq Paths
  BY TreeNodes DEF IInv, TypeOK
<1>2. {Left(n), Right(n)} \cap {Left(p), Right(p)} = {}
  BY <1>1, Siblings
<1>3. /\ shape[n] \in {"chain", "or"} => Left(n) \in nodes /\ Right(n) \in nodes
  BY <1>1, TreeNodes
<1>4. Kept(shape, slot, said, n)
  BY DEF KeptIsSaid
<1> QED BY <1>2, <1>3, <1>4 DEF Kept, Takes

\* A call says nothing.
LEMMA CallSays ==
  ASSUME ResultInv, LeavesLeaves, NEW p \in nodes, NEW c \in nodes, c \in {Left(p), Right(p)},
         AtOrBelow(p), Down(c), Takes(p), Kept(shape, slot', said, p),
         shape[p] = "or" /\ c = Right(p) /\ slot'[Left(p)] = "future" => said[Left(p)] = "wait"
  PROVE  SaysResult' /\ KeptIsSaid' /\ LeftWaits'
<1>1. /\ shape \in Shapes /\ at \in nodes /\ nodes \subseteq Paths
      /\ UNCHANGED <<shape, said>> /\ pc' = "down" /\ at' = c
  BY Whereabouts DEF AtOrBelow, ResultInv, LeavesLeaves, endpoint, Down
<1>2. /\ \A n \in nodes : OnPath(n) <=> IsPrefix(n, p)
      /\ IsPrefix(p, at)
  BY PathTo DEF ResultInv
<1>3. \A n \in Paths : IsPrefix(n, c) <=> IsPrefix(n, p) \/ n = c
  BY <1>1, Children
<1>4. SaysResult'
  BY <1>1, <1>2, <1>3 DEF ResultInv, SaysResult, OnPath
<1>5. KeptIsSaid'
  BY <1>1, StaysKept DEF ResultInv, KeptIsSaid
<1>6. ASSUME NEW o \in nodes, shape[o] = "or", IsPrefix(Right(o), c), slot'[Left(o)] = "future"
      PROVE  said[Left(o)] = "wait"
  <2>1. Left(o) \in nodes /\ Right(o) \in nodes
    BY <1>1, <1>6, TreeNodes
  <2>2. CASE Right(o) = c
    <3>1. o = p
      BY <1>1, <2>2, Siblings
    <3> QED BY <1>6, <2>2, <3>1
  <2>3. CASE IsPrefix(Right(o), p)
    <3>1. IsPrefix(Right(o), at)
      BY <1>1, <1>2, <2>1, <2>3, PrefixOrder
    <3>2. slot[Left(o)] = "future"
      BY <1>6, <2>1 DEF Takes
    <3> QED BY <1>6, <3>1, <3>2 DEF ResultInv, LeftWaits, AtOrBelow
  <2> QED BY <1>1, <1>3, <1>6, <2>1, <2>2, <2>3
<1>7. LeftWaits'
  BY <1>1, <1>6 DEF LeftWaits
<1> QED BY <1>4, <1>5, <1>7

\* A node that returns says what follows from its children.
LEMMA ReturnSays ==
  ASSUME ResultInv, UNCHANGED shape, NEW p \in nodes, AtOrBelow(p), NEW res \in {"wait", "ok", "err"},
         Up(p, res), Takes(p), Kept(shape, slot', said, p),
         shape[p] \in Combinator => res = Result(shape, said, said, p)
  PROVE  SaysResult' /\ KeptIsSaid' /\ LeftWaits'
<1>1. /\ shape \in Shapes /\ at \in nodes /\ nodes \subseteq Paths
      /\ DOMAIN said = nodes /\ DOMAIN slot = nodes
      /\ pc' = "up" /\ at' = p /\ said' = [said EXCEPT ![p] = res]
      /\ Live(slot, at)
  BY Whereabouts DEF AtOrBelow, ResultInv, Up
<1>2. /\ \A n \in nodes : OnPath(n) <=> IsPrefix(n, p)
      /\ IsPrefix(p, at) /\ IsPrefix(p, p)
  BY <1>1, PathTo, PrefixOrder DEF ResultInv
<1>3. said'[p] = res /\ \A n \in nodes : n # p => said'[n] = said[n]
  BY <1>1
<1>4. \A n \in nodes : IsPrefix(n, p) \/ p \notin {n, Left(n), Right(n)}
  BY <1>1, <1>2, Children
<1>5. \A n \in nodes : OnPath(n)' <=> IsPrefix(n, p) /\ n # p
  BY <1>1 DEF OnPath
<1>6. ASSUME NEW n \in nodes, p \notin {n, Left(n), Right(n)}
      PROVE  Result(shape, said', said', n) = Result(shape, said, said, n)
  <2>1. Result(shape, said', said', n) = Result(shape, said', said, n)
    <3>1. \A c \in DOMAIN shape \cap {Left(n), Right(n)} : said'[c] = said[c]
      BY <1>3, <1>6
    <3>2. shape \in Shapes /\ n \in DOMAIN shape
      BY <1>1
    <3> QED BY <3>1, <3>2, ResultOfChildren
  <2>2. Result(shape, said', said, n) = Result(shape, said, said, n)
    <3>1. said'[n] = said[n] /\ shape \in Shapes /\ n \in DOMAIN shape
      BY <1>1, <1>3, <1>6
    <3> QED BY <3>1, ResultOfLeaf
  <2> QED BY <2>1, <2>2
<1>7. said'[p] = Result(shape, said', said', p)
  <2>1. p \notin {Left(p), Right(p)}
    BY <1>1, <1>2, Children
  <2>2. CASE shape[p] \in Combinator
    <3>1. Result(shape, said', said', p) = Result(shape, said', said, p)
      <4>1. \A c \in DOMAIN shape \cap {Left(p), Right(p)} : said'[c] = said[c]
        BY <1>3, <2>1
      <4>2. shape \in Shapes /\ p \in DOMAIN shape
        BY <1>1
      <4> QED BY <4>1, <4>2, ResultOfChildren
    <3>2. Result(shape, said', said, p) = Result(shape, said, said, p)
      <4>1. shape \in Shapes /\ p \in DOMAIN shape
        BY <1>1
      <4> QED BY <2>2, <4>1, ResultOfLeaf
    <3> QED BY <1>3, <2>2, <3>1, <3>2
  <2>3. CASE shape[p] \notin Combinator
    BY <2>3 DEF Result, Combinator
  <2> QED BY <2>2, <2>3
<1>8. ASSUME NEW n \in nodes, ~OnPath(n)'
      PROVE  IF said'[n] = "none"
             THEN \A c \in nodes \cap {Left(n), Right(n)} : said'[c] = "none"
             ELSE said'[n] = Result(shape, said', said', n)
  <2>1. CASE n = p
    BY <1>3, <1>7, <2>1
  <2>2. CASE n # p
    <3>1. ~OnPath(n) /\ p \notin {n, Left(n), Right(n)}
      BY <1>2, <1>4, <1>5, <1>8, <2>2
    <3>2. IF said[n] = "none"
          THEN \A c \in nodes \cap {Left(n), Right(n)} : said[c] = "none"
          ELSE said[n] = Result(shape, said, said, n)
      BY <3>1 DEF ResultInv, SaysResult
    <3>3. said'[n] = said[n] /\ \A c \in nodes \cap {Left(n), Right(n)} : said'[c] = said[c]
      BY <1>3, <3>1
    <3> QED BY <1>6, <3>1, <3>2, <3>3
  <2> QED BY <2>1, <2>2
<1>9. SaysResult'
  BY <1>8 DEF SaysResult
<1>10. ASSUME NEW n \in nodes PROVE Kept(shape, slot', said', n)
  <2>1. Kept(shape, slot', said, n)
    BY StaysKept DEF ResultInv
  <2>2. p = <<>> \/ slot'[p] = "future"
    <3>1. p = <<>> \/ slot[p] = "future"
      BY <1>1, <1>2 DEF Live
    <3>2. p \notin {Left(p), Right(p)}
      BY <1>1, <1>2, Children
    <3> QED BY <3>1, <3>2 DEF Takes
  <2>3. \A c \in {Left(n), Right(n)} : c # <<>> /\ (c = p => slot'[c] = "future")
    BY <1>1, <2>2, Children
  <2>4. shape[n] \in {"chain", "or"} => Left(n) \in nodes /\ Right(n) \in nodes
    BY <1>1, TreeNodes
  <2> QED BY <1>3, <2>1, <2>3, <2>4 DEF Kept
<1>11. KeptIsSaid'
  BY <1>10 DEF KeptIsSaid
<1>12. ASSUME NEW o \in nodes, shape[o] = "or", IsPrefix(Right(o), p), slot'[Left(o)] = "future"
       PROVE  said'[Left(o)] = "wait"
  <2>1. Left(o) \in nodes /\ Right(o) \in nodes
    BY <1>1, <1>12, TreeNodes
  <2>2. Left(o) # p
    BY <1>1, <1>2, <1>12, Diverge
  <2>3. IsPrefix(Right(o), at)
    BY <1>1, <1>2, <1>12, <2>1, PrefixOrder
  <2>4. slot[Left(o)] = "future"
    BY <1>12, <2>1 DEF Takes
  <2> QED BY <1>3, <1>12, <2>1, <2>2, <2>3, <2>4 DEF ResultInv, LeftWaits, AtOrBelow
<1>13. LeftWaits'
  BY <1>1, <1>12 DEF LeftWaits
<1> QED BY <1>9, <1>11, <1>13

\* `and` calls no side that has returned.
LEMMA CallChainSays == ResultInv /\ CallChain => SaysResult' /\ KeptIsSaid' /\ LeftWaits'
<1> SUFFICES ASSUME ResultInv, CallChain PROVE SaysResult' /\ KeptIsSaid' /\ LeftWaits'
  OBVIOUS
<1> DEFINE c == IF slot[Left(at)] = "output" THEN Right(at) ELSE Left(at)
<1>1. pc = "down" /\ shape[at] = "chain" /\ UNCHANGED slot /\ LeavesLeaves /\ PollMaybeDone(c)
  BY DEF CallChain, Called
<1>2. shape \in Shapes /\ at \in nodes /\ Ready(shape, slot, leaf, at)
  BY <1>1, Whereabouts DEF ResultInv
<1>3. c \in nodes /\ c \in {Left(at), Right(at)} /\ slot[c] = "future"
  BY <1>1, <1>2, TreeNodes DEF Ready
<1> HIDE DEF c
<1>4. Takes(at) /\ Kept(shape, slot', said, at)
  BY <1>1, <1>2, TakesNothing DEF ResultInv, KeptIsSaid
<1> QED BY <1>1, <1>2, <1>3, <1>4, CallSays DEF AtOrBelow, PollMaybeDone

\* `or` calls its right side at once only if the left one failed.
LEMMA CallOrSays == ResultInv /\ CallOr => SaysResult' /\ KeptIsSaid' /\ LeftWaits'
<1> SUFFICES ASSUME ResultInv, CallOr PROVE SaysResult' /\ KeptIsSaid' /\ LeftWaits'
  OBVIOUS
<1>1. pc = "down" /\ shape[at] = "or" /\ UNCHANGED slot /\ LeavesLeaves
  BY DEF CallOr, Called
<1>2. shape \in Shapes /\ at \in nodes /\ nodes \subseteq Paths /\ Ready(shape, slot, leaf, at)
  BY <1>1, Whereabouts DEF ResultInv
<1>3. Left(at) # Right(at)
  BY <1>2, Siblings
<1>4. PICK c \in nodes : /\ c \in {Left(at), Right(at)} /\ Down(c)
                         /\ c = Right(at) => slot[Left(at)] # "future"
  BY <1>1, <1>2, <1>3, TreeNodes DEF CallOr, Ready
<1>5. Takes(at) /\ Kept(shape, slot', said, at)
  BY <1>1, <1>2, TakesNothing DEF ResultInv, KeptIsSaid
<1> QED BY <1>1, <1>2, <1>4, <1>5, CallSays DEF AtOrBelow

\* `optional`, `fallible` and `map` call what they wrap.
LEMMA CallUnarySays == ResultInv /\ CallUnary => SaysResult' /\ KeptIsSaid' /\ LeftWaits'
<1> SUFFICES ASSUME ResultInv, CallUnary PROVE SaysResult' /\ KeptIsSaid' /\ LeftWaits'
  OBVIOUS
<1>1. /\ pc = "down" /\ shape[at] \in {"optional", "map"} /\ Down(Left(at))
      /\ UNCHANGED slot /\ LeavesLeaves
  BY DEF CallUnary, Called
<1>2. shape \in Shapes /\ at \in nodes /\ Ready(shape, slot, leaf, at)
  BY <1>1, Whereabouts DEF ResultInv
<1>3. Left(at) \in nodes
  BY <1>1, <1>2, TreeNodes
<1>4. Takes(at) /\ Kept(shape, slot', said, at)
  BY <1>1, <1>2, TakesNothing DEF ResultInv, KeptIsSaid
<1> QED BY <1>1, <1>2, <1>3, <1>4, CallSays DEF AtOrBelow

\* `and` returns what its left side said, or the right one after it.
LEMMA ReturnToChainSays == ResultInv /\ ReturnToChain => SaysResult' /\ KeptIsSaid' /\ LeftWaits'
<1> SUFFICES ASSUME ResultInv, ReturnToChain PROVE SaysResult' /\ KeptIsSaid' /\ LeftWaits'
  OBVIOUS
<1>1. IInv /\ pc = "up" /\ at # <<>> /\ shape[owner] = "chain" /\ LeavesLeaves
  BY DEF ResultInv, ReturnToChain, Returned
<1>2. PICK p \in nodes : p = owner
  BY <1>1, OwnerOf
<1>3. /\ shape \in Shapes /\ at \in nodes /\ nodes \subseteq Paths /\ UNCHANGED shape
      /\ DOMAIN slot = nodes /\ ret \in {"wait", "ok", "err"} /\ InOrder(shape, slot, at)
  BY <1>1, Whereabouts DEF LeavesLeaves, endpoint
<1>4. /\ at \in {Left(p), Right(p)} /\ AtOrBelow(p)
      /\ Ready(shape, slot, leaf, p)
  BY <1>1, <1>2, OwnerOf DEF AtOrBelow
<1>5. Left(p) \in nodes /\ Right(p) \in nodes /\ Left(p) # Right(p)
  BY <1>1, <1>2, <1>3, TreeNodes, Siblings
<1>6. slot \in [nodes -> {"future", "output", "gone"}]
  BY <1>1 DEF IInv, TypeOK
<1>7. slot[Left(p)] \in {"future", "output"} /\ slot[Right(p)] = "future"
  BY <1>1, <1>2, <1>4 DEF Ready
<1>8. Kept(shape, slot, said, p)
  BY <1>2 DEF ResultInv, KeptIsSaid
<1>9. Result(shape, said, said, p) = IF said[Left(p)] = "ok" THEN said[Right(p)] ELSE said[Left(p)]
  BY <1>1, <1>2 DEF Result
<1>10. at = Right(p) => slot[Left(p)] = "output" /\ said[Left(p)] = "ok"
  <2>1. at = Right(p) => slot[Left(p)] = "output"
    BY <1>1, <1>2, <1>3, PrefixOrder DEF InOrder
  <2> QED BY <1>1, <1>2, <1>8, <2>1 DEF Kept
<1>11. CASE ret = "wait"
  <2>1. Up(p, "wait") /\ UNCHANGED slot
    BY <1>2, <1>11 DEF ReturnToChain
  <2>2. Result(shape, said, said, p) = "wait"
    BY <1>4, <1>9, <1>10, <1>11
  <2> QED BY <1>1, <1>3, <1>4, <1>8, <2>1, <2>2, TakesNothing, ReturnSays
<1>12. CASE ret = "err"
  <2>1. Up(p, "err") /\ slot' = [slot EXCEPT ![Left(p)] = "gone", ![Right(p)] = "gone"]
    BY <1>2, <1>12 DEF ReturnToChain
  <2>2. Takes(p)
    BY <1>6, <2>1 DEF Takes
  <2>3. Kept(shape, slot', said, p)
    BY <1>1, <1>2, <1>3, <1>5, <2>1 DEF Kept
  <2>4. Result(shape, said, said, p) = "err"
    BY <1>4, <1>9, <1>10, <1>12
  <2> QED BY <1>1, <1>3, <1>4, <2>1, <2>2, <2>3, <2>4, ReturnSays
<1>13. CASE ret = "ok" /\ at = Left(p)
  <2>1. slot' = [slot EXCEPT ![at] = "output"] /\ PollMaybeDone(Right(p))
    BY <1>2, <1>5, <1>13 DEF ReturnToChain
  <2>2. Down(Right(p))
    BY <1>7, <2>1 DEF PollMaybeDone
  <2>3. Takes(p)
    BY <1>3, <1>6, <1>13, <2>1 DEF Takes
  <2>4. Kept(shape, slot', said, p)
    BY <1>1, <1>2, <1>13 DEF Kept
  <2> QED BY <1>1, <1>2, <1>4, <1>5, <2>2, <2>3, <2>4, CallSays
<1>14. CASE ret = "ok" /\ at = Right(p)
  <2>1. Up(p, "ok") /\ slot' = [slot EXCEPT ![Left(p)] = "gone", ![at] = "gone"]
    BY <1>2, <1>5, <1>10, <1>14 DEF ReturnToChain
  <2>2. Takes(p)
    BY <1>3, <1>6, <1>14, <2>1 DEF Takes
  <2>3. Kept(shape, slot', said, p)
    BY <1>1, <1>2, <1>3, <1>5, <1>14, <2>1 DEF Kept
  <2>4. Result(shape, said, said, p) = "ok"
    BY <1>9, <1>10, <1>14
  <2> QED BY <1>1, <1>3, <1>4, <2>1, <2>2, <2>3, <2>4, ReturnSays
<1> QED BY <1>3, <1>4, <1>11, <1>12, <1>13, <1>14

\* `or` returns a success, or that both failed, or waits.
LEMMA ReturnToOrSays == ResultInv /\ ReturnToOr => SaysResult' /\ KeptIsSaid' /\ LeftWaits'
<1> SUFFICES ASSUME ResultInv, ReturnToOr PROVE SaysResult' /\ KeptIsSaid' /\ LeftWaits'
  OBVIOUS
<1>1. IInv /\ pc = "up" /\ at # <<>> /\ shape[owner] = "or" /\ LeavesLeaves
  BY DEF ResultInv, ReturnToOr, Returned
<1>2. PICK p \in nodes : p = owner
  BY <1>1, OwnerOf
<1>3. /\ shape \in Shapes /\ at \in nodes /\ nodes \subseteq Paths /\ UNCHANGED shape
      /\ DOMAIN slot = nodes /\ ret \in {"wait", "ok", "err"}
  BY <1>1, Whereabouts DEF LeavesLeaves, endpoint
<1>4. /\ at \in {Left(p), Right(p)} /\ AtOrBelow(p) /\ slot[at] = "future"
  BY <1>1, <1>2, OwnerOf DEF AtOrBelow
<1>5. Left(p) \in nodes /\ Right(p) \in nodes /\ Left(p) # Right(p)
  BY <1>1, <1>2, <1>3, TreeNodes, Siblings
<1>6. slot \in [nodes -> {"future", "output", "gone"}]
  BY <1>1 DEF IInv, TypeOK
<1>7. PICK other \in nodes : other = IF at = Left(p) THEN Right(p) ELSE Left(p)
  BY <1>5
<1>8. Kept(shape, slot, said, p)
  BY <1>2 DEF ResultInv, KeptIsSaid
<1>9. {said[Left(p)], said[Right(p)]} = {ret, said[other]}
  BY <1>4, <1>7
<1>10. slot[other] = "future" \/ said[other] = "err"
  BY <1>1, <1>2, <1>7, <1>8 DEF Kept
<1>11. at = Right(p) /\ slot[other] = "future" => said[other] = "wait"
  <2>1. IsPrefix(at, at)
    BY <1>3, PrefixOrder
  <2> QED BY <1>1, <1>2, <1>5, <1>7, <2>1 DEF ResultInv, LeftWaits
<1> DEFINE both == {ret, said[other]}
<1>12. Result(shape, said, said, p) =
         IF "ok" \in both THEN "ok" ELSE IF both = {"err"} THEN "err" ELSE "wait"
  BY <1>1, <1>2, <1>9 DEF Result
<1>13. CASE ret = "err" /\ slot[other] = "future"
  <2>1. /\ slot' = [slot EXCEPT ![at] = "gone"]
        /\ IF at = Left(p) THEN Down(other) ELSE Up(p, "wait")
    BY <1>2, <1>7, <1>13 DEF ReturnToOr
  <2>2. Takes(p)
    BY <1>3, <1>4, <1>6, <2>1 DEF Takes
  <2>3. slot'[at] = "gone" /\ slot'[other] = "future"
    BY <1>3, <1>4, <1>5, <1>6, <1>7, <1>13, <2>1
  <2>4. Kept(shape, slot', said, p)
    BY <1>1, <1>2, <1>4, <1>7, <1>13, <2>3 DEF Kept
  <2>5. CASE at = Left(p)
    BY <1>1, <1>4, <1>7, <2>1, <2>2, <2>3, <2>4, <2>5, CallSays DEF ResultInv
  <2>6. CASE at # Left(p)
    <3>1. Result(shape, said, said, p) = "wait"
      BY <1>4, <1>7, <1>11, <1>12, <1>13, <2>6
    <3> QED BY <1>3, <1>4, <2>1, <2>2, <2>4, <2>6, <3>1, ReturnSays
  <2> QED BY <2>5, <2>6
<1>14. CASE ret = "wait" /\ slot[other] = "future" /\ at = Left(p)
  <2>1. Down(other) /\ UNCHANGED slot
    BY <1>2, <1>7, <1>14 DEF ReturnToOr
  <2> QED BY <1>1, <1>4, <1>7, <1>8, <1>14, <2>1, TakesNothing, CallSays
<1>15. CASE ~(ret = "err" /\ slot[other] = "future")
           /\ ~(ret = "wait" /\ slot[other] = "future" /\ at = Left(p))
  <2>1. Up(p, ret) /\ UNCHANGED slot
    BY <1>2, <1>7, <1>15 DEF ReturnToOr
  <2>2. ret = "wait" => said[other] \in {"wait", "err"}
    BY <1>4, <1>7, <1>10, <1>11, <1>15
  <2>3. ret = "err" => said[other] = "err"
    BY <1>10, <1>15
  <2>4. Result(shape, said, said, p) = ret
    BY <1>3, <1>12, <2>2, <2>3
  <2> QED BY <1>1, <1>3, <1>4, <1>8, <2>1, <2>4, TakesNothing, ReturnSays
<1> QED BY <1>13, <1>14, <1>15

\* `optional`, `fallible` and `map` return what they wrap did, or a success.
LEMMA ReturnToUnarySays == ResultInv /\ ReturnToUnary => SaysResult' /\ KeptIsSaid' /\ LeftWaits'
<1> SUFFICES ASSUME ResultInv, ReturnToUnary PROVE SaysResult' /\ KeptIsSaid' /\ LeftWaits'
  OBVIOUS
<1> DEFINE res == IF shape[owner] = "optional" /\ ret = "err" THEN "ok" ELSE ret
<1>1. /\ IInv /\ pc = "up" /\ at # <<>> /\ LeavesLeaves /\ Up(owner, res) /\ UNCHANGED slot
      /\ shape[owner] \in {"optional", "map"}
  BY DEF ResultInv, ReturnToUnary, Returned
<1>2. PICK p \in nodes : p = owner
  BY <1>1, OwnerOf
<1>3. at = Left(p) /\ AtOrBelow(p) /\ res \in {"wait", "ok", "err"} /\ UNCHANGED shape
  <2>1. /\ shape \in Shapes /\ at \in nodes /\ at \in {Left(p), Right(p)}
        /\ ret \in {"wait", "ok", "err"}
    BY <1>1, <1>2, OwnerOf, Whereabouts
  <2>2. Right(p) \notin nodes
    BY <1>1, <1>2, <2>1, TreeNodes
  <2> QED BY <1>1, <2>1, <2>2 DEF AtOrBelow, LeavesLeaves, endpoint
<1>4. Result(shape, said, said, p) = res
  BY <1>1, <1>2, <1>3 DEF Result
<1>5. Takes(p) /\ Kept(shape, slot', said, p)
  BY <1>1, <1>2, TakesNothing DEF ResultInv, KeptIsSaid
<1> HIDE DEF res
<1> QED BY <1>1, <1>2, <1>3, <1>4, <1>5, ReturnSays

\* A leaf returns, or has taken the body and goes on.
PollLeaf == PollReady \/ PollValue \/ PollIo \/ TakeBody \/ ReadBody

\* No leaf panics.
LEMMA LeafReturns ==
  ASSUME IInv, PollLeaf
  PROVE  /\ pc = "down" /\ LeavesRest /\ at \in nodes /\ shape[at] \notin Combinator
         /\ (\E res \in {"wait", "ok", "err"} : Up(at, res)) \/ Enter("down")
<1>1. /\ pc = "down" /\ shape[at] \in {"unit", "ready", "value", "io", "decode", "read_all", "stream"}
      /\ LeavesRest
  BY DEF PollLeaf, PollReady, PollValue, PollIo, TakeBody, ReadBody, Called
<1>2. shape \in Shapes /\ at \in nodes /\ Ready(shape, slot, leaf, at)
  BY <1>1, Whereabouts
<1>3. ASSUME NEW s \in Sources(shape), Await(s)
      PROVE  \E res \in {"wait", "ok", "err"} : Up(at, res)
  <2>1. source[s] \in {"open", "ok", "err"}
    BY DEF IInv, TypeOK
  <2> QED BY <1>3, <2>1 DEF Await
<1>4. CASE PollReady
  BY <1>1, <1>2, <1>4 DEF PollReady, Combinator
<1>5. CASE PollValue
  BY <1>1, <1>2, <1>5 DEF PollValue, Called, Ready, Combinator
<1>6. CASE PollIo
  <2>1. shape[at] = "io" /\ leaf[at] # "spent"
    BY <1>2, <1>6 DEF PollIo, Called, Ready
  <2>2. Await(at) /\ at \in Sources(shape)
    BY <1>2, <1>6, <2>1 DEF PollIo, Sources
  <2> QED BY <1>1, <1>2, <1>3, <2>1, <2>2 DEF Combinator
<1>7. CASE TakeBody
  BY <1>1, <1>2, <1>7 DEF TakeBody, Combinator
<1>8. CASE ReadBody
  <2>1. shape[at] \in {"decode", "read_all"} /\ leaf[at] # "spent"
    BY <1>2, <1>8 DEF ReadBody, Called, Ready
  <2>2. Data \in Sources(shape)
    BY DEF Sources
  <2>3. Await(Data) \/ Up(at, "err")
    BY <1>8, <2>1 DEF ReadBody
  <2> QED BY <1>1, <1>2, <1>3, <2>1, <2>2, <2>3 DEF Combinator
<1> QED BY <1>4, <1>5, <1>6, <1>7, <1>8 DEF PollLeaf

\* What a leaf says follows from nothing.
LEMMA LeafSays == ResultInv /\ PollLeaf => SaysResult' /\ KeptIsSaid' /\ LeftWaits'
<1> SUFFICES ASSUME ResultInv, PollLeaf PROVE SaysResult' /\ KeptIsSaid' /\ LeftWaits'
  OBVIOUS
<1>1. /\ pc = "down" /\ UNCHANGED <<shape, slot>> /\ at \in nodes /\ shape[at] \notin Combinator
      /\ (\E res \in {"wait", "ok", "err"} : Up(at, res)) \/ Enter("down")
  BY LeafReturns DEF ResultInv, LeavesRest, endpoint
<1>2. CASE Enter("down")
  BY <1>1, <1>2 DEF ResultInv, SaysResult, KeptIsSaid, LeftWaits, OnPath, Enter
<1>3. ASSUME NEW res \in {"wait", "ok", "err"}, Up(at, res)
      PROVE  SaysResult' /\ KeptIsSaid' /\ LeftWaits'
  <2>1. AtOrBelow(at) /\ Takes(at) /\ Kept(shape, slot', said, at)
    BY <1>1, TakesNothing DEF ResultInv, KeptIsSaid, AtOrBelow
  <2> QED BY <1>1, <1>3, <2>1, ReturnSays
<1> QED BY <1>1, <1>2, <1>3

\* Nor is anything said when nothing is on its way through the tree.
LEMMA OutsideSays ==
  ASSUME ResultInv, UNCHANGED <<shape, said, slot>>, pc # "down", pc = "up" => at = <<>>,
         pc' \notin {"down", "up"} \/ (pc' = "down" /\ at' = <<>>)
  PROVE  SaysResult' /\ KeptIsSaid' /\ LeftWaits'
<1>1. shape \in Shapes /\ nodes \subseteq Paths
  BY TreeNodes DEF ResultInv, IInv, TypeOK
<1>2. \A n \in nodes : ~OnPath(n)
  BY <1>1, PrefixOrder DEF OnPath
<1>3. SaysResult'
  BY <1>2 DEF ResultInv, SaysResult
<1>4. KeptIsSaid'
  BY DEF ResultInv, KeptIsSaid
<1>5. \A o \in nodes : ~IsPrefix(Right(o), <<>>)
  BY <1>1, Children, PrefixOrder
<1>6. LeftWaits'
  BY <1>5 DEF LeftWaits
<1> QED BY <1>3, <1>4, <1>6

\* Outside of the tree: the stages, and what arrives.
Outside == Poll \/ Dispatch \/ Extracted \/ PollAction \/ PollRespond

\* They leave the tree as it is.
LEMMA OutsideStep ==
  ASSUME IInv, Outside
  PROVE  /\ UNCHANGED <<shape, said, slot>> /\ pc # "down" /\ (pc = "up" => at = <<>>)
         /\ pc' \notin {"down", "up"} \/ (pc' = "down" /\ at' = <<>>)
<1>1. CASE Poll
  BY <1>1 DEF Poll, Down, Enter, endpoint
<1>2. CASE Dispatch
  BY <1>2 DEF Dispatch, Finish, Down, Enter, endpoint
<1>3. CASE Extracted
  <2>1. pc = "up" /\ at = <<>> /\ UNCHANGED <<shape, slot>>
    BY <1>3 DEF Extracted, endpoint
  <2>2. ret \in {"wait", "ok", "err"} /\ args = "here"
    BY <2>1, Whereabouts
  <2> QED BY <1>3, <2>1, <2>2 DEF Extracted, Finish, Enter
<1>4. CASE PollAction
  BY <1>4 DEF PollAction, Park, Finish, Enter, endpoint
<1>5. CASE PollRespond
  BY <1>5 DEF PollRespond, Park, Finish, Enter, endpoint
<1> QED BY <1>1, <1>2, <1>3, <1>4, <1>5 DEF Outside

\* ResultInv is inductive: every step keeps it,
LEMMA NextResult == ResultInv /\ [Next]_vars => ResultInv'
<1> SUFFICES ASSUME ResultInv, [Next]_vars PROVE ResultInv'
  OBVIOUS
<1>1. IInv'
  BY NextInv DEF ResultInv
<1>2. CASE Outside
  BY <1>1, <1>2, OutsideStep, OutsideSays DEF ResultInv
<1>3. CASE PollLeaf
  BY <1>1, <1>3, LeafSays DEF ResultInv
<1>4. CASE \/ CallChain \/ CallOr \/ CallUnary
           \/ ReturnToChain \/ ReturnToOr \/ ReturnToUnary
  BY <1>1, <1>4, CallChainSays, CallOrSays, CallUnarySays, ReturnToChainSays, ReturnToOrSays,
     ReturnToUnarySays DEF ResultInv
<1>5. CASE (\E s \in DOMAIN source : Arrive(s)) \/ UNCHANGED vars
  <2>1. UNCHANGED <<shape, pc, at, said, slot>>
    BY <1>5 DEF Arrive, vars, endpoint
  <2> QED BY <1>1, <2>1 DEF ResultInv, SaysResult, KeptIsSaid, LeftWaits, OnPath
<1> QED BY <1>2, <1>3, <1>4, <1>5 DEF Next, Turn, Outside, PollLeaf

\* and it holds when nothing was said.
LEMMA InitResult == Init => ResultInv
<1> SUFFICES ASSUME Init PROVE ResultInv
  OBVIOUS
<1>1. IInv /\ shape \in Shapes
  BY InitInv DEF Init
<1>2. SaysResult
  BY DEF Init, SaysResult
<1>3. KeptIsSaid
  <2>1. \A n \in nodes : shape[n] \in {"chain", "or"} => Left(n) \in nodes /\ Right(n) \in nodes
    BY <1>1, TreeNodes
  <2> QED BY <2>1 DEF Init, KeptIsSaid, Kept
<1>4. LeftWaits
  BY DEF Init, LeftWaits
<1> QED BY <1>1, <1>2, <1>3, <1>4 DEF ResultInv

\* What a node said last is what its leaves make of it; one that was not asked
\* has no result yet.
LEMMA SaidIsOutcome ==
  ASSUME ResultInv, NEW n \in nodes, ~OnPath(n), said[n] # "none"
  PROVE  Outcome[n] = said[n]
<1> DEFINE Agrees(m) == IF said[m] = "none" THEN Outcome[m] \in {"none", "wait"} ELSE Outcome[m] = said[m]
           U == {m \in nodes : ~OnPath(m) => Agrees(m)}
<1>1. /\ shape \in Shapes /\ nodes \subseteq Paths
      /\ said \in [nodes -> {"none", "wait", "ok", "err"}]
  BY TreeNodes DEF ResultInv, IInv, TypeOK
<1>2. ASSUME NEW m \in nodes, nodes \cap {Left(m), Right(m)} \subseteq U, ~OnPath(m)
      PROVE  Agrees(m)
  <2>1. \A c \in nodes \cap {Left(m), Right(m)} : Agrees(c)
    <3>1. ASSUME NEW c \in nodes \cap {Left(m), Right(m)} PROVE ~OnPath(c)
      <4>1. at \in Paths
        BY <1>1 DEF ResultInv, IInv, TypeOK
      <4>2. c \in Paths /\ IsPrefix(m, c) /\ ~IsPrefix(c, m)
        BY <1>1, Children
      <4>3. IsPrefix(c, at) => IsPrefix(m, at)
        BY <1>1, <4>1, <4>2, PrefixOrder
      <4> QED BY <1>2, <4>2, <4>3 DEF OnPath
    <3> QED BY <1>2, <3>1
  <2>2. Outcome[m] = Result(shape, said, Outcome, m)
    BY <1>1, OutcomeOfNode
  <2>3. IF said[m] = "none"
        THEN \A c \in nodes \cap {Left(m), Right(m)} : said[c] = "none"
        ELSE said[m] = Result(shape, said, said, m)
    BY <1>2 DEF ResultInv, SaysResult
  <2> DEFINE L == Left(m)
             R == Right(m)
  <2>4. /\ shape[m] \in {"chain", "or"} => {L, R} \subseteq nodes
        /\ shape[m] \in {"optional", "map"} => L \in nodes
    BY <1>1, TreeNodes
  <2>5. \A c \in nodes : said[c] \in {"none", "wait", "ok", "err"}
    BY <1>1
  <2>6. CASE shape[m] = "chain"
    <3>1. \A r : Result(shape, said, r, m) = IF r[L] = "ok" THEN r[R] ELSE r[L]
      BY <2>6 DEF Result
    <3>2. Agrees(L) /\ Agrees(R)
      BY <2>1, <2>4, <2>6
    <3>3. Outcome[m] = IF Outcome[L] = "ok" THEN Outcome[R] ELSE Outcome[L]
      BY <2>2, <3>1
    <3>4. IF said[m] = "none" THEN said[L] = "none" /\ said[R] = "none"
          ELSE said[m] = IF said[L] = "ok" THEN said[R] ELSE said[L]
      BY <2>3, <2>4, <2>6, <3>1
    <3> HIDE DEF L, R
    <3> QED BY <3>2, <3>3, <3>4
  <2>7. CASE shape[m] = "or"
    <3>1. \A r : Result(shape, said, r, m) =
                   IF "ok" \in {r[L], r[R]} THEN "ok" ELSE IF {r[L], r[R]} = {"err"} THEN "err" ELSE "wait"
      BY <2>7 DEF Result
    <3>2. Agrees(L) /\ Agrees(R)
      BY <2>1, <2>4, <2>7
    <3>3. Outcome[m] = IF "ok" \in {Outcome[L], Outcome[R]} THEN "ok"
                       ELSE IF {Outcome[L], Outcome[R]} = {"err"} THEN "err" ELSE "wait"
      BY <2>2, <3>1
    <3>4. IF said[m] = "none" THEN said[L] = "none" /\ said[R] = "none"
          ELSE said[m] = IF "ok" \in {said[L], said[R]} THEN "ok"
                         ELSE IF {said[L], said[R]} = {"err"} THEN "err" ELSE "wait"
      BY <2>3, <2>4, <2>7, <3>1
    <3>5. said[L] \in {"none", "wait", "ok", "err"} /\ said[R] \in {"none", "wait", "ok", "err"}
      BY <2>4, <2>5, <2>7
    <3> HIDE DEF L, R
    <3> QED BY <3>2, <3>3, <3>4, <3>5
  <2>8. CASE shape[m] \in {"optional", "map"}
    <3>1. Agrees(L)
      BY <2>1, <2>4, <2>8
    <3>2. CASE shape[m] = "optional"
      <4>1. \A r : Result(shape, said, r, m) = IF r[L] = "err" THEN "ok" ELSE r[L]
        BY <3>2 DEF Result
      <4> QED BY <2>2, <2>3, <2>4, <2>8, <3>1, <4>1
    <3>3. CASE shape[m] = "map"
      <4>1. \A r : Result(shape, said, r, m) = r[L]
        BY <3>3 DEF Result
      <4> QED BY <2>2, <2>3, <2>4, <2>8, <3>1, <4>1
    <3> QED BY <2>8, <3>2, <3>3
  <2>9. CASE shape[m] \notin Combinator
    <3>1. Outcome[m] = said[m]
      BY <2>2, <2>9 DEF Result, Combinator
    <3> QED BY <3>1
  <2> QED BY <2>6, <2>7, <2>8, <2>9 DEF Combinator
<1>3. \A m \in nodes : nodes \cap {Left(m), Right(m)} \subseteq U => m \in U
  BY <1>2
<1>4. nodes \subseteq U
  <2> HIDE DEF U
  <2> QED BY <1>1, <1>3, BottomUp
<1> QED BY <1>4

\* Whatever the tree, however often and in whatever order its futures were
\* polled: what a poll_ready of ext.rs returns is what its leaves determine.
THEOREM ResultsFollow == Spec => []OutcomeOfLeaves
<1>1. ResultInv => OutcomeOfLeaves
  <2> SUFFICES ASSUME ResultInv, pc = "up" PROVE ret = Outcome[at]
    BY DEF OutcomeOfLeaves
  <2>1. at \in nodes /\ ~OnPath(at) /\ said[at] # "none"
    BY DEF ResultInv, IInv, TypeOK, Polling, OnPath
  <2> QED BY <2>1, SaidIsOutcome
<1> QED BY <1>1, InitResult, NextResult, PTL DEF Spec

-----------------------------------------------------------------------------
(* What the leaves wait for. *)

\* Every prefix of a node's path is a node.
LEMMA Ancestors ==
  ASSUME NEW t \in Shapes, NEW n \in DOMAIN t, NEW m \in Paths, IsPrefix(m, n)
  PROVE  m \in DOMAIN t
<1> SUFFICES ASSUME m \notin DOMAIN t PROVE FALSE
  OBVIOUS
<1> DEFINE below == {k \in DOMAIN t : IsPrefix(m, k)}
           T == {Len(k) : k \in below}
<1>1. DOMAIN t \subseteq Paths
  BY TreeNodes
<1>2. T \subseteq Nat /\ T # {}
  BY <1>1, LenProperties DEF Paths
<1>3. PICK x \in T : \A y \in T : ~(y < x)
  BY <1>2, LeastOf
<1>4. PICK k \in below : x = Len(k)
  BY <1>3
<1>5. k # <<>>
  BY <1>1, PrefixOrder
<1>6. Front(k) \in DOMAIN t /\ (k = Left(Front(k)) \/ k = Right(Front(k)))
  BY <1>4, <1>5, TreeNodes
<1>7. IsPrefix(m, Front(k))
  BY <1>1, <1>4, <1>6, Children
<1>8. Len(k) = Len(Front(k)) + 1
  BY <1>1, <1>6 DEF Left, Right, Paths
<1>9. Len(Front(k)) \in T /\ Len(Front(k)) < x
  <2>1. Len(Front(k)) \in Nat
    BY <1>1, <1>6, LenProperties DEF Paths
  <2>2. Len(Front(k)) \in T
    BY <1>6, <1>7
  <2>3. Len(Front(k)) < x
    BY <1>4, <1>8, <2>1
  <2> QED BY <2>2, <2>3
<1> QED BY <1>3, <1>9

\* What is below p is p, or below one of its children.
LEMMA BelowChild ==
  ASSUME NEW t \in Shapes, NEW p \in DOMAIN t, NEW n \in DOMAIN t, IsPrefix(p, n), n # p
  PROVE  \E c \in DOMAIN t \cap {Left(p), Right(p)} : IsPrefix(c, n)
<1>1. p \in Paths /\ n \in Paths
  BY TreeNodes
<1>2. /\ Len(p) \in Nat /\ Len(n) \in Nat /\ Len(p) <= Len(n)
      /\ \A k \in 1..Len(p) : p[k] = n[k]
  BY <1>1, PrefixByElement, LenProperties DEF Paths
<1>3. Len(p) # Len(n)
  BY <1>1, <1>2, SeqEqual DEF Paths
<1>4. Len(p) + 1 \in 1..Len(n)
  BY <1>2, <1>3
<1>5. n[Len(p) + 1] \in 1..2
  BY <1>1, <1>4, ElementOfSeq DEF Paths
<1> DEFINE c == Append(p, n[Len(p) + 1])
<1>6. /\ c \in Paths /\ Len(c) = Len(p) + 1 /\ c[Len(p) + 1] = n[Len(p) + 1]
      /\ \A k \in 1..Len(p) : c[k] = p[k]
  BY <1>1, <1>5, AppendProperties DEF Paths
<1>7. c \in {Left(p), Right(p)}
  BY <1>5 DEF Left, Right
<1> HIDE DEF c
<1>8. IsPrefix(c, n)
  BY <1>1, <1>2, <1>4, <1>6, PrefixByElement
<1>9. c \in DOMAIN t
  BY <1>6, <1>8, Ancestors
<1> QED BY <1>7, <1>8, <1>9

\* What was demanded before p's children were taken from, but for a chain that
\* has just left its output.
LEMMA WasDemanded ==
  ASSUME IInv, NEW p \in nodes, Takes(p), UNCHANGED shape, NEW n \in nodes, Demanded(n)',
         \/ ~IsPrefix(p, n)
         \/ shape[p] # "chain"
         \/ slot[Left(p)] = "output" \/ slot'[Left(p)] # "output"
  PROVE  Demanded(n)
<1>1. shape \in Shapes /\ nodes \subseteq Paths /\ DOMAIN slot = nodes /\ DOMAIN slot' = nodes
  BY TreeNodes DEF IInv, TypeOK, Takes
<1>2. Live(slot', n) /\ InOrder(shape, slot', n)
  BY DEF Demanded
<1>3. Live(slot, n)
  BY <1>1, <1>2, FewerLive DEF Takes
<1>4. ASSUME NEW m \in nodes, shape[m] = "chain", IsPrefix(Right(m), n)
      PROVE  slot[Left(m)] = "output"
  <2>1. slot'[Left(m)] = "output" /\ Left(m) \in nodes
    BY <1>1, <1>2, <1>4, TreeNodes DEF InOrder
  <2>2. CASE m = p
    <3>1. IsPrefix(p, n)
      BY <1>1, <1>4, <2>2, Children, PrefixOrder
    <3> QED BY <1>4, <2>1, <2>2, <3>1
  <2>3. CASE m # p
    <3>1. Left(m) \notin {Left(p), Right(p)}
      BY <1>1, <2>3, Siblings
    <3> QED BY <2>1, <3>1 DEF Takes
  <2> QED BY <2>2, <2>3
<1> QED BY <1>3, <1>4 DEF Demanded, InOrder

\* A call passes only the left side of an `or`, which waits.
LEMMA CallWaits ==
  ASSUME WakeInv, LeavesLeaves, NEW p \in nodes, NEW c \in nodes, c \in {Left(p), Right(p)},
         AtOrBelow(p), Down(c), Takes(p),
         shape[p] = "or" /\ c = Right(p) /\ slot'[Left(p)] = "future" =>
           pc = "up" /\ at = Left(p) /\ ret = "wait"
  PROVE  LeavesWait' /\ StageWaits'
<1>1. /\ shape \in Shapes /\ at \in nodes /\ nodes \subseteq Paths /\ stage = "extract"
      /\ pc \in {"down", "up"} /\ DOMAIN slot' = nodes
      /\ UNCHANGED <<shape, stage, leaf, waiting, source, notified>> /\ pc' = "down" /\ at' = c
  BY Whereabouts DEF AtOrBelow, WakeInv, LeavesLeaves, endpoint, outside, Down, Takes
<1>2. IsPrefix(p, at)
  BY PathTo DEF WakeInv
<1>3. ASSUME NEW n \in nodes, Demanded(n)', Passed(n)'
      PROVE  Heard(n)
  <2>1. PICK o \in nodes : shape[o] = "or" /\ IsPrefix(Left(o), n) /\ IsPrefix(Right(o), c)
    BY <1>1, <1>3 DEF Passed, BesideOr
  <2>2. Left(o) \in nodes /\ Right(o) \in nodes
    BY <1>1, <2>1, TreeNodes
  <2>3. CASE Right(o) = c
    <3>1. o = p
      BY <1>1, <2>3, Siblings
    <3>2. slot'[Left(p)] = "future"
      <4>1. Left(p) # <<>>
        BY <1>1, Children
      <4> QED BY <1>1, <1>3, <2>1, <2>2, <3>1, <4>1 DEF Demanded, Live
    <3>3. pc = "up" /\ at = Left(p) /\ ret = "wait"
      BY <2>1, <2>3, <3>1, <3>2
    <3>4. Demanded(n)
      BY <1>1, <1>3, <2>1, <3>1, WasDemanded DEF WakeInv
    <3>5. Passed(n) /\ ~Over(n)
      BY <2>1, <3>1, <3>3 DEF Passed, Over
    <3> QED BY <1>1, <3>4, <3>5 DEF WakeInv, LeavesWait
  <2>4. CASE IsPrefix(Right(o), p)
    <3>1. ~IsPrefix(p, n)
      <4>1. ~IsPrefix(Right(o), n)
        BY <1>1, <2>1, Diverge
      <4> QED BY <1>1, <2>2, <2>4, <4>1, PrefixOrder
    <3>2. Demanded(n)
      BY <1>1, <1>3, <3>1, WasDemanded DEF WakeInv
    <3>3. ~Over(n)
      BY <1>1, <1>2, <3>1, PrefixOrder DEF Over
    <3>4. IsPrefix(Right(o), at)
      BY <1>1, <1>2, <2>2, <2>4, PrefixOrder
    <3>5. Passed(n)
      BY <1>1, <2>1, <3>4 DEF Passed, BesideOr
    <3> QED BY <1>1, <3>2, <3>3, <3>5 DEF WakeInv, LeavesWait
  <2> QED BY <1>1, <2>1, <2>2, <2>3, <2>4, Children
<1>4. LeavesWait'
  BY <1>1, <1>3 DEF LeavesWait, Heard, Awaited
<1>5. StageWaits'
  BY <1>1 DEF StageWaits
<1> QED BY <1>4, <1>5

\* What returns that it waits has passed all that will be polled below it.
LEMMA ReturnWaits ==
  ASSUME WakeInv, LeavesLeaves, NEW p \in nodes, AtOrBelow(p), shape[p] \in Combinator,
         NEW res \in {"wait", "ok", "err"}, Up(p, res), Takes(p),
         shape[p] = "chain" /\ slot'[Left(p)] = "output" => slot[Left(p)] = "output",
         res = "wait" => \A c \in nodes \cap {Left(p), Right(p)} :
           slot'[c] = "future" /\ (shape[p] = "chain" /\ c = Right(p) => slot'[Left(p)] = "output") =>
             /\ pc = "up"
             /\ \/ at = c /\ ret = "wait"
                \/ shape[p] = "or" /\ at = Right(p) /\ c = Left(p)
  PROVE  LeavesWait' /\ StageWaits'
<1>1. /\ shape \in Shapes /\ at \in nodes /\ nodes \subseteq Paths /\ stage = "extract"
      /\ pc \in {"down", "up"} /\ DOMAIN slot' = nodes /\ DOMAIN said = nodes
      /\ UNCHANGED <<shape, stage, leaf, waiting, source, notified>>
      /\ pc' = "up" /\ at' = p /\ said' = [said EXCEPT ![p] = res]
  BY Whereabouts DEF AtOrBelow, WakeInv, LeavesLeaves, endpoint, outside, Up, Takes
<1>2. IsPrefix(p, at)
  BY PathTo DEF WakeInv
<1>3. \A n : Over(n)' <=> res # "wait" /\ IsPrefix(p, n)
  BY <1>1 DEF Over
<1>4. ASSUME NEW n \in nodes, Demanded(n)', Passed(n)', ~Over(n)'
      PROVE  Heard(n)
  <2>1. Demanded(n)
    BY <1>1, <1>4, WasDemanded DEF WakeInv
  <2>2. CASE n = p
    BY <2>2 DEF Heard
  <2>3. CASE IsPrefix(p, n) /\ n # p
    <3>1. PICK c \in nodes \cap {Left(p), Right(p)} : IsPrefix(c, n)
      BY <1>1, <2>3, BelowChild
    <3>2. slot'[c] = "future" /\ (shape[p] = "chain" /\ c = Right(p) => slot'[Left(p)] = "output")
      BY <1>1, <1>4, <3>1, Children DEF Demanded, Live, InOrder
    <3>3. /\ pc = "up"
          /\ \/ at = c /\ ret = "wait"
             \/ shape[p] = "or" /\ at = Right(p) /\ c = Left(p)
      BY <1>3, <1>4, <2>3, <3>2
    <3>4. CASE at = c /\ ret = "wait"
      BY <1>1, <2>1, <3>1, <3>3, <3>4 DEF WakeInv, LeavesWait, Passed, Over
    <3>5. CASE shape[p] = "or" /\ at = Right(p) /\ c = Left(p)
      <4>1. IsPrefix(Right(p), at) /\ ~IsPrefix(at, n)
        BY <1>1, <3>1, <3>5, PrefixOrder, Diverge
      <4>2. BesideOr(n)
        BY <3>1, <3>5, <4>1 DEF BesideOr
      <4> QED BY <1>1, <2>1, <4>1, <4>2 DEF WakeInv, LeavesWait, Passed, Over
    <3> QED BY <3>3, <3>4, <3>5
  <2>4. CASE ~IsPrefix(p, n)
    <3>1. PICK o \in nodes : shape[o] = "or" /\ IsPrefix(Left(o), n) /\ IsPrefix(Right(o), p)
      BY <1>1, <1>4, <2>4 DEF Passed, BesideOr
    <3>2. IsPrefix(Right(o), at)
      BY <1>1, <1>2, <3>1, Children, PrefixOrder
    <3>3. ~Over(n)
      BY <1>1, <1>2, <2>4, PrefixOrder DEF Over
    <3>4. Passed(n)
      BY <1>1, <3>1, <3>2 DEF Passed, BesideOr
    <3> QED BY <1>1, <2>1, <3>3, <3>4 DEF WakeInv, LeavesWait
  <2> QED BY <2>2, <2>3, <2>4
<1>5. LeavesWait'
  BY <1>1, <1>4 DEF LeavesWait, Heard, Awaited
<1>6. StageWaits'
  BY <1>1 DEF StageWaits
<1> QED BY <1>5, <1>6

\* Calls of the combinators.
LEMMA CallStepWaits ==
  ASSUME WakeInv, CallChain \/ CallOr \/ CallUnary
  PROVE  LeavesWait' /\ StageWaits'
<1>1. /\ pc = "down" /\ shape[at] \in {"chain", "or", "optional", "map"}
      /\ UNCHANGED slot /\ LeavesLeaves
  BY DEF CallChain, CallOr, CallUnary, Called
<1>2. /\ shape \in Shapes /\ at \in nodes /\ nodes \subseteq Paths
      /\ Ready(shape, slot, leaf, at) /\ DOMAIN slot = nodes
  BY <1>1, Whereabouts DEF WakeInv
<1>3. /\ shape[at] \in {"chain", "or"} => Left(at) \in nodes /\ Right(at) \in nodes
      /\ shape[at] \in {"optional", "map"} => Left(at) \in nodes
      /\ Left(at) # Right(at)
  BY <1>2, TreeNodes, Siblings
<1>4. AtOrBelow(at) /\ Takes(at)
  BY <1>1, TakesNothing DEF AtOrBelow, WakeInv
<1>5. ASSUME NEW c \in nodes, c \in {Left(at), Right(at)}, Down(c),
             shape[at] = "or" /\ c = Right(at) => slot[Left(at)] # "future"
      PROVE  LeavesWait' /\ StageWaits'
  BY <1>1, <1>2, <1>4, <1>5, CallWaits
<1>6. CASE CallChain
  <2> DEFINE c == IF slot[Left(at)] = "output" THEN Right(at) ELSE Left(at)
  <2>1. shape[at] = "chain" /\ PollMaybeDone(c)
    BY <1>6 DEF CallChain, Called
  <2>2. c \in nodes /\ c \in {Left(at), Right(at)} /\ slot[c] = "future"
    BY <1>2, <1>3, <2>1 DEF Ready
  <2> HIDE DEF c
  <2> QED BY <1>5, <2>1, <2>2 DEF PollMaybeDone
<1>7. CASE CallOr
  <2>1. shape[at] = "or"
    BY <1>7 DEF CallOr, Called
  <2>2. \/ Down(Left(at))
        \/ Down(Right(at)) /\ slot[Left(at)] # "future"
    BY <1>2, <1>7, <2>1 DEF CallOr, Ready
  <2> QED BY <1>3, <1>5, <2>1, <2>2
<1>8. CASE CallUnary
  <2>1. shape[at] \in {"optional", "map"} /\ Down(Left(at))
    BY <1>8 DEF CallUnary, Called
  <2> QED BY <1>3, <1>5, <2>1
<1> QED BY <1>6, <1>7, <1>8

\* `and` comes back to the side that waits.
LEMMA ReturnToChainWaits == WakeInv /\ ReturnToChain => LeavesWait' /\ StageWaits'
<1> SUFFICES ASSUME WakeInv, ReturnToChain PROVE LeavesWait' /\ StageWaits'
  OBVIOUS
<1>1. IInv /\ pc = "up" /\ at # <<>> /\ shape[owner] = "chain" /\ LeavesLeaves
  BY DEF WakeInv, ReturnToChain, Returned
<1>2. PICK p \in nodes : p = owner
  BY <1>1, OwnerOf
<1>3. /\ shape \in Shapes /\ at \in nodes /\ nodes \subseteq Paths
      /\ DOMAIN slot = nodes /\ ret \in {"wait", "ok", "err"} /\ InOrder(shape, slot, at)
  BY <1>1, Whereabouts
<1>4. at \in {Left(p), Right(p)} /\ AtOrBelow(p) /\ Ready(shape, slot, leaf, p) /\ slot[at] = "future"
  BY <1>1, <1>2, OwnerOf DEF AtOrBelow
<1>5. Left(p) \in nodes /\ Right(p) \in nodes /\ Left(p) # Right(p) /\ shape[p] \in Combinator
  BY <1>1, <1>2, <1>3, TreeNodes, Siblings DEF Combinator
<1>6. slot \in [nodes -> {"future", "output", "gone"}]
  BY <1>1 DEF IInv, TypeOK
<1>7. slot[Right(p)] = "future"
  BY <1>1, <1>2, <1>4 DEF Ready
<1>8. at = Right(p) => slot[Left(p)] = "output"
  BY <1>1, <1>2, <1>3, PrefixOrder DEF InOrder
<1>9. CASE ret = "wait"
  <2>1. Up(p, "wait") /\ UNCHANGED slot
    BY <1>2, <1>9 DEF ReturnToChain
  <2>2. Takes(p)
    BY <1>1, <2>1, TakesNothing
  <2>3. ASSUME NEW c \in nodes \cap {Left(p), Right(p)}, slot[c] = "future",
               c = Right(p) => slot[Left(p)] = "output"
        PROVE  at = c
    BY <1>4, <1>5, <1>8, <2>3
  <2> QED BY <1>1, <1>2, <1>4, <1>5, <1>9, <2>1, <2>2, <2>3, ReturnWaits
<1>10. CASE ret = "err"
  <2>1. Up(p, "err") /\ slot' = [slot EXCEPT ![Left(p)] = "gone", ![Right(p)] = "gone"]
    BY <1>2, <1>10 DEF ReturnToChain
  <2>2. Takes(p) /\ slot'[Left(p)] = "gone"
    BY <1>5, <1>6, <2>1 DEF Takes
  <2> QED BY <1>1, <1>4, <1>5, <2>1, <2>2, ReturnWaits
<1>11. CASE ret = "ok" /\ at = Left(p)
  <2>1. slot' = [slot EXCEPT ![at] = "output"] /\ PollMaybeDone(Right(p))
    BY <1>2, <1>5, <1>11 DEF ReturnToChain
  <2>2. Down(Right(p))
    BY <1>7, <2>1 DEF PollMaybeDone
  <2>3. Takes(p)
    BY <1>3, <1>6, <1>11, <2>1 DEF Takes
  <2> QED BY <1>1, <1>2, <1>4, <1>5, <2>2, <2>3, CallWaits
<1>12. CASE ret = "ok" /\ at = Right(p)
  <2>1. Up(p, "ok") /\ slot' = [slot EXCEPT ![Left(p)] = "gone", ![at] = "gone"]
    BY <1>2, <1>5, <1>8, <1>12 DEF ReturnToChain
  <2>2. Takes(p) /\ slot'[Left(p)] = "gone"
    BY <1>3, <1>5, <1>6, <1>12, <2>1 DEF Takes
  <2> QED BY <1>1, <1>4, <1>5, <2>1, <2>2, ReturnWaits
<1> QED BY <1>3, <1>4, <1>9, <1>10, <1>11, <1>12

\* `or` waits for what it still has.
LEMMA ReturnToOrWaits == WakeInv /\ ReturnToOr => LeavesWait' /\ StageWaits'
<1> SUFFICES ASSUME WakeInv, ReturnToOr PROVE LeavesWait' /\ StageWaits'
  OBVIOUS
<1>1. IInv /\ pc = "up" /\ at # <<>> /\ shape[owner] = "or" /\ LeavesLeaves
  BY DEF WakeInv, ReturnToOr, Returned
<1>2. PICK p \in nodes : p = owner
  BY <1>1, OwnerOf
<1>3. /\ shape \in Shapes /\ at \in nodes /\ nodes \subseteq Paths
      /\ DOMAIN slot = nodes /\ ret \in {"wait", "ok", "err"}
  BY <1>1, Whereabouts
<1>4. /\ at \in {Left(p), Right(p)} /\ AtOrBelow(p) /\ slot[at] = "future" /\ shape[p] = "or"
  BY <1>1, <1>2, OwnerOf DEF AtOrBelow
<1>5. Left(p) \in nodes /\ Right(p) \in nodes /\ Left(p) # Right(p) /\ shape[p] \in Combinator
  BY <1>1, <1>2, <1>3, TreeNodes, Siblings DEF Combinator
<1>6. slot \in [nodes -> {"future", "output", "gone"}]
  BY <1>1 DEF IInv, TypeOK
<1>7. PICK other \in nodes : other = IF at = Left(p) THEN Right(p) ELSE Left(p)
  BY <1>5
<1>8. CASE ret = "err" /\ slot[other] = "future"
  <2>1. /\ slot' = [slot EXCEPT ![at] = "gone"]
        /\ IF at = Left(p) THEN Down(other) ELSE Up(p, "wait")
    BY <1>2, <1>7, <1>8 DEF ReturnToOr
  <2>2. Takes(p) /\ slot'[at] = "gone"
    BY <1>3, <1>4, <1>6, <2>1 DEF Takes
  <2>3. CASE at = Left(p)
    BY <1>1, <1>4, <1>7, <2>1, <2>2, <2>3, CallWaits
  <2>4. CASE at # Left(p)
    BY <1>1, <1>4, <1>5, <2>1, <2>2, <2>4, ReturnWaits
  <2> QED BY <2>3, <2>4
<1>9. CASE ret = "wait" /\ slot[other] = "future" /\ at = Left(p)
  <2>1. Down(other) /\ UNCHANGED slot
    BY <1>2, <1>7, <1>9 DEF ReturnToOr
  <2>2. Takes(p)
    BY <1>1, <2>1, TakesNothing
  <2> QED BY <1>1, <1>4, <1>7, <1>9, <2>1, <2>2, CallWaits
<1>10. CASE ~(ret = "err" /\ slot[other] = "future")
           /\ ~(ret = "wait" /\ slot[other] = "future" /\ at = Left(p))
  <2>1. Up(p, ret) /\ UNCHANGED slot
    BY <1>2, <1>7, <1>10 DEF ReturnToOr
  <2>2. Takes(p)
    BY <1>1, <2>1, TakesNothing
  <2>3. ASSUME ret = "wait", NEW c \in nodes \cap {Left(p), Right(p)}, slot[c] = "future"
        PROVE  at = c \/ (at = Right(p) /\ c = Left(p))
    BY <1>4, <1>7, <1>10, <2>3
  <2> QED BY <1>1, <1>3, <1>4, <1>5, <2>1, <2>2, <2>3, ReturnWaits
<1> QED BY <1>8, <1>9, <1>10

\* `optional`, `fallible` and `map` wait for what they wrap.
LEMMA ReturnToUnaryWaits == WakeInv /\ ReturnToUnary => LeavesWait' /\ StageWaits'
<1> SUFFICES ASSUME WakeInv, ReturnToUnary PROVE LeavesWait' /\ StageWaits'
  OBVIOUS
<1> DEFINE res == IF shape[owner] = "optional" /\ ret = "err" THEN "ok" ELSE ret
<1>1. /\ IInv /\ pc = "up" /\ at # <<>> /\ LeavesLeaves /\ Up(owner, res) /\ UNCHANGED slot
      /\ shape[owner] \in {"optional", "map"}
  BY DEF WakeInv, ReturnToUnary, Returned
<1>2. PICK p \in nodes : p = owner
  BY <1>1, OwnerOf
<1>3. at = Left(p) /\ Right(p) \notin nodes /\ AtOrBelow(p) /\ res \in {"wait", "ok", "err"}
  <2>1. /\ shape \in Shapes /\ at \in nodes /\ at \in {Left(p), Right(p)}
        /\ ret \in {"wait", "ok", "err"}
    BY <1>1, <1>2, OwnerOf, Whereabouts
  <2>2. Right(p) \notin nodes
    BY <1>1, <1>2, <2>1, TreeNodes
  <2> QED BY <1>1, <2>1, <2>2 DEF AtOrBelow
<1>4. res = "wait" => ret = "wait"
  OBVIOUS
<1>5. Takes(p) /\ shape[p] \in Combinator /\ shape[p] # "chain"
  BY <1>1, <1>2, TakesNothing DEF Combinator
<1> HIDE DEF res
<1> QED BY <1>1, <1>2, <1>3, <1>4, <1>5, ReturnWaits

\* A leaf that is not through waits for something that will notify the task.
LEMMA LeafHears ==
  ASSUME WakeInv, PollLeaf, NEW res \in {"wait", "ok", "err"}, Up(at, res)
  PROVE  /\ waiting \subseteq waiting'
         /\ \A n \in nodes : n # at => leaf'[n] = leaf[n]
         /\ res = "wait" => Heard(at)'
<1>1. /\ pc = "down" /\ LeavesRest /\ UNCHANGED <<shape, source, notified>>
      /\ at \in nodes /\ shape[at] \notin Combinator
      /\ DOMAIN said = nodes /\ DOMAIN leaf = nodes
  BY LeafReturns, Whereabouts DEF WakeInv, LeavesRest, endpoint, outside
<1>2. said'[at] = res /\ at' = at
  BY <1>1 DEF Up
<1>3. ASSUME NEW s \in Sources(shape), Await(s)
      PROVE  /\ waiting \subseteq waiting'
             /\ \A n \in nodes : n # at => leaf'[n] = leaf[n]
             /\ res = "wait" => s \in waiting' /\ source'[s] = "open" /\ UNCHANGED leaf
  <2>1. source[s] \in {"open", "ok", "err"}
    BY DEF WakeInv, IInv, TypeOK
  <2>2. CASE source[s] = "open"
    BY <1>1, <1>3, <2>2 DEF Await
  <2>3. CASE source[s] # "open"
    <3>1. Up(at, source[s]) /\ UNCHANGED waiting /\ Spend
      BY <1>3, <2>3 DEF Await
    <3>2. res = source[s]
      BY <1>1, <1>2, <3>1 DEF Up
    <3> QED BY <1>1, <2>1, <2>3, <3>1, <3>2 DEF Spend
  <2> QED BY <2>2, <2>3
<1>4. ASSUME NEW u \in {"ok", "err"}, Up(at, u)
      PROVE  res # "wait"
  BY <1>1, <1>2, <1>4 DEF Up
<1>5. CASE PollReady
  <2>1. res # "wait"
    BY <1>4, <1>5 DEF PollReady
  <2> QED BY <1>5, <2>1 DEF PollReady
<1>6. CASE PollValue
  <2>1. leaf[at] # "spent"
    BY <1>1, <1>6, Whereabouts DEF WakeInv, Ready, PollValue, Called
  <2>2. Up(at, "ok") /\ Spend /\ UNCHANGED waiting
    BY <1>6, <2>1 DEF PollValue
  <2>3. res # "wait"
    BY <1>4, <2>2
  <2> QED BY <1>1, <2>2, <2>3 DEF Spend
<1>7. CASE PollIo
  <2>1. shape[at] = "io" /\ leaf[at] # "spent"
    BY <1>1, <1>7, Whereabouts DEF WakeInv, Ready, PollIo, Called
  <2>2. Await(at) /\ at \in Sources(shape)
    BY <1>1, <1>7, <2>1 DEF PollIo, Sources
  <2>3. res = "wait" => at \in waiting' /\ source'[at] = "open"
    BY <1>3, <2>2
  <2>4. res = "wait" => Heard(at)'
    BY <1>1, <1>2, <2>1, <2>3 DEF Heard, Awaited
  <2> QED BY <1>3, <2>2, <2>4
<1>8. CASE TakeBody
  <2>1. shape[at] \in {"decode", "read_all", "stream"} /\ UNCHANGED waiting
        /\ \A n \in nodes : n # at => leaf'[n] = leaf[n]
    BY <1>1, <1>8 DEF TakeBody, Called
  <2>2. Up(at, "err") \/ Up(at, "ok")
    BY <1>1, <1>8 DEF TakeBody, Enter, Up
  <2>3. res # "wait"
    BY <1>4, <2>2
  <2> QED BY <2>1, <2>3
<1>9. CASE ReadBody
  <2>1. shape[at] \in {"decode", "read_all"} /\ leaf[at] \notin {"init", "spent"}
    BY <1>1, <1>9, Whereabouts DEF WakeInv, Ready, ReadBody, Called
  <2>2. leaf[at] = "reading" /\ Data \in Sources(shape)
    BY <1>1, <2>1 DEF WakeInv, IInv, TypeOK, Sources
  <2>3. CASE Await(Data)
    <3>1. res = "wait" => Data \in waiting' /\ source'[Data] = "open" /\ leaf'[at] = "reading"
      BY <1>3, <2>2, <2>3
    <3>2. res = "wait" => Heard(at)'
      BY <1>1, <1>2, <2>1, <3>1 DEF Heard, Awaited
    <3> QED BY <1>3, <2>2, <2>3, <3>2
  <2>4. CASE Up(at, "err") /\ Spend /\ UNCHANGED waiting
    <3>1. res # "wait"
      BY <1>4, <2>4
    <3> QED BY <1>1, <2>4, <3>1 DEF Spend
  <2> QED BY <1>9, <2>1, <2>3, <2>4 DEF ReadBody
<1> QED BY <1>5, <1>6, <1>7, <1>8, <1>9 DEF PollLeaf

\* So the leaves that were passed still wait, and this one is another.
LEMMA LeafWaits == WakeInv /\ PollLeaf => LeavesWait' /\ StageWaits'
<1> SUFFICES ASSUME WakeInv, PollLeaf PROVE LeavesWait' /\ StageWaits'
  OBVIOUS
<1>1. /\ pc = "down" /\ stage = "extract" /\ UNCHANGED <<shape, stage, slot, source, notified>>
      /\ shape \in Shapes /\ at \in nodes /\ nodes \subseteq Paths /\ DOMAIN said = nodes
      /\ shape[at] \notin Combinator
      /\ (\E res \in {"wait", "ok", "err"} : Up(at, res)) \/ Enter("down")
  BY LeafReturns, Whereabouts DEF WakeInv, LeavesRest, endpoint, outside
<1>2. at' = at /\ pc' \in {"down", "up"}
  BY <1>1 DEF Up, Enter
<1>3. ASSUME NEW n \in nodes, BesideOr(n) PROVE n # at
  BY <1>1, <1>3, Diverge DEF BesideOr
<1>4. ASSUME NEW n \in nodes, Demanded(n), BesideOr(n) PROVE Heard(n)
  BY <1>1, <1>4 DEF WakeInv, LeavesWait, Passed, Over
<1>5. ASSUME waiting \subseteq waiting', \A n \in nodes : n # at => leaf'[n] = leaf[n],
             NEW n \in nodes, Demanded(n), BesideOr(n)
      PROVE  Heard(n)'
  BY <1>1, <1>3, <1>4, <1>5 DEF Heard, Awaited
<1>6. ASSUME NEW n \in nodes, IsPrefix(at, n) PROVE n = at
  <2>1. nodes \cap {Left(at), Right(at)} = {}
    <3>1. ASSUME NEW c \in nodes \cap {Left(at), Right(at)} PROVE FALSE
      <4>1. c # <<>> /\ Front(c) = at
        BY <1>1, Children
      <4> QED BY <1>1, <4>1, TreeNodes
    <3> QED BY <3>1
  <2> QED BY <1>1, <1>6, <2>1, BelowChild
<1>7. \A n \in nodes : (Demanded(n)' <=> Demanded(n)) /\ (BesideOr(n)' <=> BesideOr(n))
  BY <1>1, <1>2 DEF Demanded, BesideOr
<1>8. ASSUME NEW res \in {"wait", "ok", "err"}, Up(at, res) PROVE LeavesWait'
  <2>1. pc' = "up" /\ said'[at] = res
    BY <1>1, <1>8 DEF Up
  <2>2. ASSUME NEW n \in nodes, Demanded(n)', Passed(n)', ~Over(n)' PROVE Heard(n)'
    <3>1. CASE IsPrefix(at, n)
      <4>1. n = at
        BY <1>6, <3>1
      <4>2. res = "wait"
        BY <1>2, <2>1, <2>2, <3>1 DEF Over
      <4>3. Heard(at)'
        BY <1>8, <4>2, LeafHears
      <4> QED BY <1>2, <4>1, <4>3 DEF Heard
    <3>2. CASE ~IsPrefix(at, n)
      <4>1. BesideOr(n) /\ Demanded(n)
        BY <1>2, <1>7, <2>1, <2>2, <3>2 DEF Passed
      <4> QED BY <1>5, <1>8, <4>1, LeafHears
    <3> QED BY <3>1, <3>2
  <2> QED BY <1>1, <2>2 DEF LeavesWait
<1>9. ASSUME Enter("down") PROVE LeavesWait'
  <2>1. UNCHANGED waiting /\ \A n \in nodes : n # at => leaf'[n] = leaf[n]
    <3>1. TakeBody
      <4>1. ~PollReady /\ ~PollValue /\ ~PollIo /\ ~ReadBody
        <5>1. pc' = "down"
          BY <1>9 DEF Enter
        <5>2. shape[at] \in {"value", "io", "decode", "read_all"} => leaf[at] # "spent"
          BY <1>1, Whereabouts DEF WakeInv, Ready
        <5> QED BY <5>1, <5>2 DEF PollReady, PollValue, PollIo, ReadBody, Called, Await, Up, Panic, Enter
      <4> QED BY <4>1 DEF PollLeaf
    <3>2. DOMAIN leaf = nodes
      BY DEF WakeInv, IInv, TypeOK
    <3> QED BY <3>1, <3>2 DEF TakeBody
  <2>2. ASSUME NEW n \in nodes, Demanded(n)', Passed(n)' PROVE Heard(n)'
    <3>1. BesideOr(n) /\ Demanded(n)
      BY <1>7, <1>9, <2>2 DEF Passed, Enter
    <3> QED BY <1>5, <2>1, <3>1
  <2> QED BY <1>1, <2>2 DEF LeavesWait
<1>10. StageWaits'
  BY <1>2 DEF StageWaits
<1> QED BY <1>1, <1>8, <1>9, <1>10

\* The stages, each of which parks the task with what it waits for.
LEMMA OutsideWaits == WakeInv /\ Outside => LeavesWait' /\ StageWaits'
<1> SUFFICES ASSUME WakeInv, Outside PROVE LeavesWait' /\ StageWaits'
  OBVIOUS
<1>1. shape \in Shapes /\ nodes \subseteq Paths
  BY TreeNodes DEF WakeInv, IInv, TypeOK
<1>2. ASSUME UNCHANGED shape, Down(<<>>) PROVE LeavesWait' /\ StageWaits'
  <2>1. \A o \in nodes : ~IsPrefix(Right(o), <<>>)
    BY <1>1, Children, PrefixOrder
  <2>2. \A n \in nodes : ~Passed(n)'
    BY <1>2, <2>1 DEF Passed, BesideOr, Down
  <2> QED BY <1>2, <2>2 DEF LeavesWait, StageWaits, Down
<1>3. CASE Poll
  <2>1. CASE stage = "extract"
    BY <1>2, <1>3, <2>1 DEF Poll, endpoint
  <2>2. CASE stage # "extract"
    BY <1>3, <2>2 DEF Poll, Enter, LeavesWait, StageWaits
  <2> QED BY <2>1, <2>2
<1>4. CASE Dispatch
  <2>1. CASE Finish
    BY <2>1 DEF Finish, Enter, LeavesWait, StageWaits
  <2>2. CASE Down(<<>>)
    BY <1>2, <1>4, <2>2 DEF Dispatch, endpoint
  <2> QED BY <1>4, <2>1, <2>2 DEF Dispatch
<1>5. CASE Extracted
  <2>1. pc = "up" /\ at = <<>> /\ UNCHANGED <<shape, slot, leaf, waiting, source, notified>>
    BY <1>5 DEF Extracted, endpoint, outside
  <2>2. ret \in {"wait", "ok", "err"} /\ args = "here" /\ stage = "extract"
    BY <2>1, Whereabouts DEF WakeInv
  <2>3. CASE ret = "wait"
    <3>1. pc' = "idle" /\ stage' = "extract"
      BY <1>5, <2>2, <2>3 DEF Extracted, Enter
    <3>2. ASSUME NEW n \in nodes, Demanded(n) PROVE Heard(n)
      <4>1. Passed(n) /\ ~Over(n)
        BY <1>1, <2>1, <2>3, PrefixOrder DEF Passed, Over
      <4> QED BY <2>2, <3>2, <4>1 DEF WakeInv, LeavesWait
    <3>3. LeavesWait'
      BY <2>1, <3>2 DEF LeavesWait, Demanded, Heard, Awaited
    <3> QED BY <3>1, <3>3 DEF StageWaits
  <2>4. CASE ret = "err"
    BY <1>5, <2>4 DEF Extracted, Finish, Enter, LeavesWait, StageWaits
  <2>5. CASE ret = "ok"
    <3>1. stage' \in {"action", "respond"} /\ pc' = "stage"
      BY <1>5, <2>2, <2>5 DEF Extracted, Enter
    <3> QED BY <3>1 DEF LeavesWait, StageWaits
  <2> QED BY <2>2, <2>3, <2>4, <2>5
<1>6. CASE PollAction
  BY <1>6 DEF PollAction, Park, Finish, Enter, outside, LeavesWait, StageWaits, Awaited
<1>7. CASE PollRespond
  BY <1>7 DEF PollRespond, Park, Finish, Enter, outside, LeavesWait, StageWaits, Awaited
<1> QED BY <1>3, <1>4, <1>5, <1>6, <1>7 DEF Outside

\* What arrives notifies the task of who waits for it.
LEMMA ArriveWaits ==
  ASSUME WakeInv, NEW s \in DOMAIN source, Arrive(s)
  PROVE  LeavesWait' /\ StageWaits'
<1>1. /\ UNCHANGED <<shape, stage, pc, at, said, slot, leaf, waiting>>
      /\ notified' = (notified \/ s \in waiting)
      /\ \A x : x # s => source'[x] = source[x]
  BY DEF Arrive, endpoint
<1>2. \A x : Awaited(x) => Awaited(x)'
  BY <1>1 DEF Awaited
<1>3. \A n \in nodes : Heard(n) => Heard(n)'
  BY <1>1, <1>2 DEF Heard
<1>4. LeavesWait'
  BY <1>1, <1>3 DEF WakeInv, LeavesWait, Demanded, Passed, Over, BesideOr
<1>5. StageWaits'
  BY <1>1, <1>2 DEF WakeInv, StageWaits
<1> QED BY <1>4, <1>5

\* WakeInv is inductive: every step keeps it,
LEMMA NextWake == WakeInv /\ [Next]_vars => WakeInv'
<1> SUFFICES ASSUME WakeInv, [Next]_vars PROVE WakeInv'
  OBVIOUS
<1>1. IInv'
  BY NextInv DEF WakeInv
<1>2. CASE Outside
  BY <1>1, <1>2, OutsideWaits DEF WakeInv
<1>3. CASE PollLeaf
  BY <1>1, <1>3, LeafWaits DEF WakeInv
<1>4. CASE \/ CallChain \/ CallOr \/ CallUnary
           \/ ReturnToChain \/ ReturnToOr \/ ReturnToUnary
  BY <1>1, <1>4, CallStepWaits, ReturnToChainWaits, ReturnToOrWaits, ReturnToUnaryWaits DEF WakeInv
<1>5. CASE \E s \in DOMAIN source : Arrive(s)
  BY <1>1, <1>5, ArriveWaits DEF WakeInv
<1>6. CASE UNCHANGED vars
  BY <1>1, <1>6 DEF vars, WakeInv, LeavesWait, StageWaits, Demanded, Passed, Over, BesideOr, Heard, Awaited
<1> QED BY <1>2, <1>3, <1>4, <1>5, <1>6 DEF Next, Turn, Outside, PollLeaf

\* and it holds before the first poll.
LEMMA InitWake == Init => WakeInv
BY InitInv DEF Init, WakeInv, LeavesWait, StageWaits

\* Blocked, one step: what a poll of n waits for when b is what one of its
\* children does.
Waits(b, n) ==
  CASE shape[n] = "chain" -> b[IF slot[Left(n)] = "output" THEN Right(n) ELSE Left(n)]
    [] shape[n] = "or"    -> \A m \in {Left(n), Right(n)} : slot[m] = "future" => b[m]
    [] shape[n] \in {"optional", "map"} -> b[Left(n)]
    [] shape[n] = "io"    -> Unheard(n)
    [] shape[n] \in {"decode", "read_all"} -> leaf[n] = "reading" /\ Unheard(Data)
    [] OTHER -> FALSE

\* It rests on the children,
LEMMA WaitsOfChildren ==
  ASSUME shape \in Shapes, NEW f, NEW g, NEW n \in nodes,
         \A c \in nodes \cap {Left(n), Right(n)} : f[c] = g[c]
  PROVE  Waits(f, n) = Waits(g, n)
<1>1. /\ shape[n] \in {"chain", "or"} => f[Left(n)] = g[Left(n)] /\ f[Right(n)] = g[Right(n)]
      /\ shape[n] \in {"optional", "map"} => f[Left(n)] = g[Left(n)]
  BY TreeNodes
<1>2. CASE shape[n] = "chain"
  BY <1>1, <1>2 DEF Waits
<1>3. CASE shape[n] = "or"
  BY <1>1, <1>3 DEF Waits
<1>4. CASE shape[n] \in {"optional", "map"}
  BY <1>1, <1>4 DEF Waits
<1>5. CASE shape[n] \notin {"chain", "or", "optional", "map"}
  BY <1>5 DEF Waits
<1> QED BY <1>2, <1>3, <1>4, <1>5

\* so that there is such a function,
LEMMA WaitsExist ==
  ASSUME shape \in Shapes
  PROVE  \E f : f = [n \in nodes |-> Waits(f, n)]
<1>1. PICK d \in Nat : \A n \in nodes : Len(n) \in 0..d
  BY Depth
<1> DEFINE Solves(f, k) == \A n \in nodes : Len(n) + k > d => f[n] = Waits(f, n)
           S == {k \in Nat : \E f : f = [n \in nodes |-> f[n]] /\ Solves(f, k)}
<1>2. 0 \in S
  <2> DEFINE f == [n \in nodes |-> FALSE]
  <2>1. f = [n \in nodes |-> f[n]]
    OBVIOUS
  <2>2. Solves(f, 0)
    BY <1>1
  <2> QED BY <2>1, <2>2
<1>3. ASSUME NEW k \in Nat, k \in S PROVE k + 1 \in S
  <2>1. PICK f : Solves(f, k)
    BY <1>3
  <2> DEFINE g == [n \in nodes |-> Waits(f, n)]
  <2>2. ASSUME NEW n \in nodes, Len(n) + (k + 1) > d PROVE g[n] = Waits(g, n)
    <3>1. ASSUME NEW c \in nodes \cap {Left(n), Right(n)} PROVE f[c] = g[c]
      <4>1. Len(c) = Len(n) + 1
        BY TreeNodes DEF Left, Right, Paths
      <4>2. Len(n) \in Nat
        BY <1>1
      <4>3. Len(c) + k > d
        BY <2>2, <4>1, <4>2
      <4> QED BY <2>1, <4>3
    <3>2. Waits(f, n) = Waits(g, n)
      <4> HIDE DEF g
      <4> QED BY <3>1, WaitsOfChildren
    <3> QED BY <3>2
  <2>3. g = [n \in nodes |-> g[n]]
    OBVIOUS
  <2> HIDE DEF g
  <2>4. Solves(g, k + 1)
    BY <2>2
  <2> QED BY <2>3, <2>4
<1>4. d + 1 \in S
  <2> HIDE DEF S
  <2> QED BY <1>2, <1>3, Counting
<1>5. PICK f : f = [n \in nodes |-> f[n]] /\ Solves(f, d + 1)
  BY <1>4
<1>6. \A n \in nodes : f[n] = Waits(f, n)
  BY <1>1, <1>5
<1> QED BY <1>5, <1>6

\* and Blocked is what it says it is.
LEMMA BlockedOfNode ==
  ASSUME shape \in Shapes, NEW n \in nodes
  PROVE  Blocked[n] = Waits(Blocked, n)
<1> DEFINE P(g) == g = [m \in nodes |-> Waits(g, m)]
<1>1. Blocked = CHOOSE g : P(g)
  BY DEF Blocked, Waits
<1>2. \E g : P(g)
  BY WaitsExist
<1> HIDE DEF P
<1>3. P(Blocked)
  BY <1>1, <1>2
<1> QED BY <1>3 DEF P

\* Where no poll is on its way and the task is not notified, all that the next
\* poll will come to waits for what has not arrived.
LEMMA DemandedIsBlocked ==
  ASSUME WakeInv, pc = "idle", ~notified, stage = "extract", NEW n \in nodes, Demanded(n)
  PROVE  Blocked[n]
<1> DEFINE U == {m \in nodes : Demanded(m) => Blocked[m]}
<1>1. shape \in Shapes /\ nodes \subseteq Paths /\ DOMAIN slot = nodes
  BY TreeNodes DEF WakeInv, IInv, TypeOK
<1>2. ASSUME NEW m \in nodes, nodes \cap {Left(m), Right(m)} \subseteq U, Demanded(m)
      PROVE  Blocked[m]
  <2>1. Heard(m)
    BY <1>2 DEF WakeInv, LeavesWait, Passed, Over
  <2>2. Ready(shape, slot, leaf, m)
    BY <1>2 DEF WakeInv, IInv, Extracting, AllReady, Over, Demanded
  <2>3. ASSUME NEW c \in nodes \cap {Left(m), Right(m)}, slot[c] = "future",
               shape[m] = "chain" /\ c = Right(m) => slot[Left(m)] = "output"
        PROVE  Blocked[c]
    <3>1. Demanded(c)
      BY <1>1, <1>2, <2>3, MayGoDown DEF Demanded
    <3> QED BY <1>2, <3>1
  <2>4. /\ shape[m] \in {"chain", "or"} => Left(m) \in nodes /\ Right(m) \in nodes
        /\ shape[m] \in {"optional", "map"} => Left(m) \in nodes
        /\ Left(m) # Right(m)
    BY <1>1, TreeNodes, Siblings
  <2>5. Blocked[m] = Waits(Blocked, m)
    BY <1>1, BlockedOfNode
  <2>6. CASE shape[m] = "chain"
    <3> DEFINE c == IF slot[Left(m)] = "output" THEN Right(m) ELSE Left(m)
    <3>1. c \in nodes \cap {Left(m), Right(m)} /\ slot[c] = "future"
          /\ (c = Right(m) => slot[Left(m)] = "output")
      BY <2>2, <2>4, <2>6 DEF Ready
    <3>2. Waits(Blocked, m) = Blocked[c]
      BY <2>6 DEF Waits
    <3> HIDE DEF c
    <3> QED BY <2>3, <2>5, <3>1, <3>2
  <2>7. CASE shape[m] = "or"
    <3>1. \A c \in {Left(m), Right(m)} : slot[c] = "future" => Blocked[c]
      BY <2>3, <2>4, <2>7
    <3>2. Waits(Blocked, m) = (\A c \in {Left(m), Right(m)} : slot[c] = "future" => Blocked[c])
      BY <2>7 DEF Waits
    <3> QED BY <2>5, <3>1, <3>2
  <2>8. CASE shape[m] \in {"optional", "map"}
    <3>1. slot[Left(m)] = "future"
      BY <2>2, <2>8 DEF Ready
    <3>2. Waits(Blocked, m) = Blocked[Left(m)]
      BY <2>8 DEF Waits
    <3> QED BY <2>3, <2>4, <2>5, <2>8, <3>1, <3>2
  <2>9. CASE shape[m] \notin Combinator
    <3>1. CASE shape[m] = "io"
      <4>1. Waits(Blocked, m) = Unheard(m)
        BY <3>1 DEF Waits
      <4> QED BY <2>1, <2>5, <3>1, <4>1 DEF Heard, Combinator, Awaited, Unheard
    <3>2. CASE shape[m] \in {"decode", "read_all"}
      <4>1. Waits(Blocked, m) = (leaf[m] = "reading" /\ Unheard(Data))
        BY <3>2 DEF Waits
      <4> QED BY <2>1, <2>5, <3>2, <4>1 DEF Heard, Combinator, Awaited, Unheard
    <3> QED BY <2>1, <2>9, <3>1, <3>2 DEF Heard
  <2> QED BY <2>6, <2>7, <2>8, <2>9 DEF Combinator
<1>3. \A m \in nodes : nodes \cap {Left(m), Right(m)} \subseteq U => m \in U
  BY <1>2
<1>4. nodes \subseteq U
  <2> HIDE DEF U
  <2> QED BY <1>1, <1>3, BottomUp
<1> QED BY <1>4

\* Whatever the tree, and whenever things arrive: a task that is not to be
\* polled waits for something that has not arrived and will notify it.
THEOREM WakeupsAreKept == Spec => []NoLostWakeup
<1>1. WakeInv => NoLostWakeup
  <2> SUFFICES ASSUME WakeInv, pc = "idle", ~notified
               PROVE  CASE stage = "extract" -> Blocked[<<>>]
                        [] stage = "action"  -> Unheard(Action)
                        [] stage = "respond" -> Unheard(Respond)
                        [] OTHER -> stage = "done"
    BY DEF NoLostWakeup
  <2>1. /\ stage \in {"init", "extract", "action", "respond", "done"} /\ stage # "init"
        /\ stage = "action" => Unheard(Action)
        /\ stage = "respond" => Unheard(Respond)
    BY DEF WakeInv, IInv, TypeOK, StageWaits, Awaited, Unheard
  <2>2. stage = "extract" => Blocked[<<>>]
    <3>1. shape \in Shapes /\ DOMAIN slot = nodes
      BY DEF WakeInv, IInv, TypeOK
    <3>2. <<>> \in nodes
      BY <3>1, ShapesAssumption DEF IsTree
    <3>3. Demanded(<<>>)
      BY <3>1, MayStart DEF Demanded
    <3> QED BY <3>2, <3>3, DemandedIsBlocked
  <2> QED BY <2>1, <2>2
<1> QED BY <1>1, InitWake, NextWake, PTL DEF Spec
=============================================================================
