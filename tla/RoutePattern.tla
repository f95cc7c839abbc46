---------------------------- MODULE RoutePattern ----------------------------
(***************************************************************************)
(* The vocabulary of routes, and what it means for a request path to match *)
(* one: the reference that the radix tree of RouteTree is held against.    *)
(*                                                                         *)
(* A route is a sequence of tokens: the slash, a letter of static text, or *)
(* a whole parameter, ":" for `:name` and "*" for `*name`.  The names of   *)
(* the parameters are left out, the tree ignores them.  A request path is  *)
(* a sequence of letters and slashes.                                      *)
(***************************************************************************)
EXTENDS Integers, FiniteSets, SequencesExt

CONSTANT Letters

Slash == "/"
Wild  == {":", "*"}
Char  == Letters \cup {Slash}
Token == Char \cup Wild

\* The letters are none of the reserved tokens.
ASSUME LettersAreStatic == Letters \cap (Wild \cup {Slash}) = {}

\* One shape for both kinds of parameter: the tree tells `:id` and `*id`
\* apart only by the kind of the node, never by the place.
Shape(tok) == IF tok \in Wild THEN ":" ELSE tok

SamePrefix(p, q, k) ==
  /\ k <= Len(p) /\ k <= Len(q)
  /\ \A j \in 1..k : Shape(p[j]) = Shape(q[j])

SameShape(p, q) == Len(p) = Len(q) /\ SamePrefix(p, q, Len(p))

\* A parameter name extends to the next slash, so no letter follows one.
WellNamed(p) ==
  \A k \in 1..Len(p) - 1 : p[k] \in Wild => p[k + 1] \notin Letters

-----------------------------------------------------------------------------
(***************************************************************************)
(* Matching.  `:name` stands for the text up to the next slash, which may  *)
(* be empty; `*name` for the rest of the path.                             *)
(***************************************************************************)
SlashFree(r, i, j) == \A k \in i..j : r[k] # Slash

\* The token may stand for the text of r between the offsets d and e.
Covers(tok, r, d, e) ==
  \/ tok = ":" /\ d <= e /\ SlashFree(r, d + 1, e)
  \/ tok = "*" /\ e = Len(r)
  \/ tok \notin Wild /\ e = d + 1 /\ r[e] = tok

\* The offsets into r where the first i tokens of p may end.
Ends(p, r) ==
  LET ends[i \in 0..Len(p)] ==
        IF i = 0 THEN {0}
        ELSE UNION {{e \in 0..Len(r) : Covers(p[i], r, d, e)} : d \in ends[i - 1]}
  IN ends

Matches(p, r) == Len(r) \in Ends(p, r)[Len(p)]

\* Some text can be put after r to make it match p.
Extendable(p, r) == \E k \in 0..Len(p) : Len(r) \in Ends(p, r)[k]

\* How many of the first k tokens of p are tok
Count(p, k, tok) == Cardinality({j \in 1..k : p[j] = tok})

\* The text a route spells when the spans of a match (pairs <<from, to>> of
\* offsets into r) are put in the places of its parameters.
Fill(p, r, params, wildcard) ==
  LET span(s) == SubSeq(r, s[1] + 1, s[2]) IN
  FlattenSeq([i \in 1..Len(p) |->
                CASE p[i] = ":" -> span(params[Count(p, i, ":")])
                  [] p[i] = "*" -> span(wildcard)
                  [] OTHER      -> <<p[i]>>])
=============================================================================
