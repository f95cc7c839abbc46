----------------------------- MODULE Extraction -----------------------------
(***************************************************************************)
(* One request on its way through AppFuture: the extractors of its         *)
(* endpoint, put together with `and`, `or`, `optional`, `fallible`, `map`  *)
(* (extractor/ext.rs), the handler's own future and the responder.  All of *)
(* them are polled: a poll goes down the tree of futures, comes up with a  *)
(* result, "wait" for NotReady, and may have to be repeated when something *)
(* that was waited for has arrived.                                        *)
(*                                                                         *)
(* The tree of futures is a function from its nodes to what they are; the  *)
(* children of node n are Append(n, 1) and Append(n, 2), its root is <<>>. *)
(* One action is one turn of a `poll_ready`, up to the next call of        *)
(* another or to its return.                                               *)
(***************************************************************************)
EXTENDS Integers, Sequences, FiniteSets, SequencesExt

CONSTANTS
  Shapes,    \* trees of extractors
  Asyncs     \* does the endpoint use call_async? a set of BOOLEAN

Combinator == {"chain", "or", "optional", "map"}
Leaf == {"unit", "value", "ready", "io", "decode", "read_all", "stream"}

\* What is waited for besides the "io" leaves: the body, the future of
\* call_async and that of the responder.
Data    == <<0, 1>>
Action  == <<0, 2>>
Respond == <<0, 3>>

\* No node is deeper than one of them: a Rust type is a finite tree.
IsTree(t) ==
  /\ <<>> \in DOMAIN t
  /\ \E n \in DOMAIN t : \A m \in DOMAIN t : Len(m) <= Len(n)
  /\ \A n \in DOMAIN t :
       /\ n # <<>> => Front(n) \in DOMAIN t
       /\ t[n] \in Combinator \cup Leaf
       /\ {i \in 1..2 : Append(n, i) \in DOMAIN t} =
            CASE t[n] \in {"chain", "or"} -> 1..2
              [] t[n] \in {"optional", "map"} -> {1}
              [] OTHER -> {}

ASSUME ShapesAssumption ==
  /\ \A t \in Shapes : DOMAIN t \subseteq Seq(1..2) /\ IsTree(t)
  /\ Asyncs \subseteq BOOLEAN

VARIABLES
  shape, async,  \* the endpoint
  stage,     \* of the AppFuture and the futures it holds
  pc, at,    \* a poll on its way: "idle", "down" to a node, "up" from one
  said,      \* node -> what its poll_ready returned last
  slot,      \* node -> what its owner has of it: the future, its output, nothing
  leaf,      \* node -> the state of a leaf's own future
  args,      \* CallFuture::args
  body,      \* the RequestBody in `locals`
  source,    \* what may be waited for -> is it there?
  waiting,   \* those that will notify the task
  notified   \* and whether the task is to be polled

vars == <<shape, async, stage, pc, at, said, slot, leaf, args, body, source, waiting, notified>>
endpoint == <<shape, async>>
outside  == <<source, notified>>

nodes == DOMAIN shape
Sources(t) == {n \in DOMAIN t : t[n] = "io"} \cup {Data, Action, Respond}

Left(n)  == Append(n, 1)
Right(n) == Append(n, 2)

ret         == said[at]
Down(n)     == pc' = "down" /\ at' = n /\ UNCHANGED said
Up(n, res)  == pc' = "up" /\ at' = n /\ said' = [said EXCEPT ![n] = res]
Enter(next) == pc' = next /\ UNCHANGED <<at, said>>
Panic       == Enter("panic")

-----------------------------------------------------------------------------
(* AppFuture::poll, and the futures of which it holds one at a time *)

\* The executor polls a task that was notified, or one whose connection has
\* other reasons.
Poll ==
  /\ pc = "idle" /\ stage # "done"
  /\ notified' = FALSE
  /\ IF stage = "extract" THEN Down(<<>>) ELSE Enter("stage")
  /\ UNCHANGED <<endpoint, stage, slot, leaf, args, body, source, waiting>>

Finish == stage' = "done" /\ Enter("idle")

\* Init: no endpoint and no default handler, a parameter that does not parse,
\* or a method that is not allowed end the request; else the future is made.
Dispatch ==
  /\ pc = "stage" /\ stage = "init"
  /\ Finish \/ (stage' = "extract" /\ Down(<<>>))
  /\ UNCHANGED <<endpoint, slot, leaf, args, body, waiting, outside>>

\* CallFuture and CallAsyncFuture: the extractors have returned.
Extracted ==
  /\ pc = "up" /\ at = <<>>
  /\ CASE ret = "wait" -> Enter("idle") /\ UNCHANGED <<stage, args>>
       [] ret = "err"  -> Finish /\ UNCHANGED args
       [] ret = "ok" /\ args = "gone" -> Panic /\ UNCHANGED <<stage, args>>
       [] ret = "ok" /\ args # "gone" ->
            /\ args' = "gone"
            /\ stage' = IF async THEN "action" ELSE "respond"
            /\ Enter("stage")
  /\ UNCHANGED <<endpoint, slot, leaf, body, waiting, outside>>

Park(s) == source[s] = "open" /\ waiting' = waiting \cup {s} /\ Enter("idle") /\ UNCHANGED stage

\* CallAsyncFuture in State::Second: the future the handler returned.
PollAction ==
  /\ pc = "stage" /\ stage = "action"
  /\ \/ Park(Action)
     \/ source[Action] = "ok" /\ stage' = "respond" /\ Enter("stage") /\ UNCHANGED waiting
     \/ source[Action] = "err" /\ Finish /\ UNCHANGED waiting
  /\ UNCHANGED <<endpoint, slot, leaf, args, body, outside>>

\* BoxedHandler in State::Second: the future of the responder.
PollRespond ==
  /\ pc = "stage" /\ stage = "respond"
  /\ Park(Respond) \/ (source[Respond] # "open" /\ Finish /\ UNCHANGED waiting)
  /\ UNCHANGED <<endpoint, slot, leaf, args, body, outside>>

-----------------------------------------------------------------------------
(* Combinators *)

Called(op)       == pc = "down" /\ shape[at] = op
Returned(op)     == pc = "up" /\ at # <<>> /\ shape[Front(at)] = op
owner            == Front(at)
LeavesLeaves     == UNCHANGED <<endpoint, stage, leaf, args, body, waiting, outside>>

\* MaybeDone::poll_ready: a future that is Ready is not polled again.
PollMaybeDone(n) == IF slot[n] = "future" THEN Down(n) ELSE Panic

CallChain ==
  /\ Called("chain")
  /\ PollMaybeDone(IF slot[Left(at)] = "output" THEN Right(at) ELSE Left(at))
  /\ UNCHANGED slot /\ LeavesLeaves

\* Mutant: the right future is left for the next poll.
ReturnToChainYields ==
  /\ Returned("chain")
  /\ CASE ret = "wait" -> Up(owner, "wait") /\ UNCHANGED slot
       [] ret = "err"  -> Up(owner, "err") /\ slot' = [slot EXCEPT ![Left(owner)] = "gone", ![Right(owner)] = "gone"]
       [] ret = "ok" /\ at = Left(owner) -> slot' = [slot EXCEPT ![at] = "output"] /\ Up(owner, "wait")
       [] ret = "ok" /\ at = Right(owner) -> slot' = [slot EXCEPT ![Left(owner)] = "gone", ![at] = "gone"] /\ Up(owner, "ok")
  /\ LeavesLeaves

\* ChainFuture::poll_ready: left, then right, then both outputs are taken.
ReturnToChain ==
  /\ Returned("chain")
  /\ CASE ret = "wait" -> Up(owner, "wait") /\ UNCHANGED slot
       [] ret = "err"  -> Up(owner, "err") /\ slot' = [slot EXCEPT ![Left(owner)] = "gone", ![Right(owner)] = "gone"]
       [] ret = "ok" /\ at = Left(owner) ->
            slot' = [slot EXCEPT ![at] = "output"] /\ PollMaybeDone(Right(owner))
       [] ret = "ok" /\ at = Right(owner) ->
            IF slot[Left(owner)] = "output"
            THEN slot' = [slot EXCEPT ![Left(owner)] = "gone", ![at] = "gone"] /\ Up(owner, "ok")
            ELSE Panic /\ UNCHANGED slot
  /\ LeavesLeaves

CallOr ==
  /\ Called("or")
  /\ IF slot[Left(at)] = "future" THEN Down(Left(at))
     ELSE IF slot[Right(at)] = "future" THEN Down(Right(at))
     ELSE Panic
  /\ UNCHANGED slot /\ LeavesLeaves

\* Mutants: the right future is not polled while the left one waits; a future
\* that failed is kept; the first failure is the result.
ReturnToOrOneByOne ==
  /\ Returned("or")
  /\ IF ret = "err" /\ at = Left(owner) /\ slot[Right(owner)] = "future"
     THEN slot' = [slot EXCEPT ![at] = "gone"] /\ Down(Right(owner))
     ELSE Up(owner, ret) /\ UNCHANGED slot
  /\ LeavesLeaves
ReturnToOrKeeps ==
  /\ Returned("or")
  /\ LET other == IF at = Left(owner) THEN Right(owner) ELSE Left(owner) IN
     CASE ret # "ok" /\ at = Left(owner) /\ slot[other] = "future" -> Down(other)
       [] ret = "err" /\ at = Right(owner) /\ slot[other] = "future" -> Up(owner, "wait")
       [] OTHER -> Up(owner, ret)
  /\ UNCHANGED slot /\ LeavesLeaves
ReturnToOrFails ==
  /\ Returned("or")
  /\ IF ret = "wait" /\ at = Left(owner) /\ slot[Right(owner)] = "future"
     THEN Down(Right(owner))
     ELSE Up(owner, ret)
  /\ UNCHANGED slot /\ LeavesLeaves

\* OrFuture::poll_ready: while both are there the left one is polled first, the
\* right one when it is not ready; one that fails is dropped, the last is all.
ReturnToOr ==
  /\ Returned("or")
  /\ LET other == IF at = Left(owner) THEN Right(owner) ELSE Left(owner)
         both  == slot[other] = "future"
     IN CASE ret = "err" /\ both ->
               /\ slot' = [slot EXCEPT ![at] = "gone"]
               /\ IF at = Left(owner) THEN Down(other) ELSE Up(owner, "wait")
          [] ret = "wait" /\ both /\ at = Left(owner) -> Down(other) /\ UNCHANGED slot
          [] OTHER -> Up(owner, ret) /\ UNCHANGED slot
  /\ LeavesLeaves

\* Optional and Fallible, Map and MapErr.
CallUnary ==
  /\ Called("optional") \/ Called("map")
  /\ Down(Left(at))
  /\ UNCHANGED slot /\ LeavesLeaves

ReturnToUnary ==
  /\ Returned("optional") \/ Returned("map")
  /\ Up(owner, IF shape[owner] = "optional" /\ ret = "err" THEN "ok" ELSE ret)
  /\ UNCHANGED slot /\ LeavesLeaves

-----------------------------------------------------------------------------
(* Leaves *)

LeavesRest == UNCHANGED <<endpoint, stage, slot, args, outside>>
Spend == leaf' = [leaf EXCEPT ![at] = "spent"]

\* `()` and `ready(f)`: f reads the request, and may refuse it.
PollReady ==
  /\ Called("unit") \/ Called("ready")
  /\ \E res \in IF shape[at] = "unit" THEN {"ok"} ELSE {"ok", "err"} : Up(at, res)
  /\ UNCHANGED <<leaf, body, waiting>> /\ LeavesRest

\* `value(x)` gives x away once.
PollValue ==
  /\ Called("value")
  /\ IF leaf[at] = "spent" THEN Panic ELSE Up(at, "ok")
  /\ Spend
  /\ UNCHANGED <<body, waiting>> /\ LeavesRest

\* Any other future must not be polled again once it returned.
Await(s) ==
  IF source[s] = "open"
  THEN Up(at, "wait") /\ waiting' = waiting \cup {s} /\ UNCHANGED leaf
  ELSE Up(at, source[s]) /\ UNCHANGED waiting /\ Spend

PollIo ==
  /\ Called("io")
  /\ IF leaf[at] = "spent" THEN Panic /\ UNCHANGED <<leaf, waiting>> ELSE Await(at)
  /\ UNCHANGED body /\ LeavesRest

\* Mutant: the body stays in `locals`.
TakeBodyLeaves ==
  /\ Called("decode") \/ Called("read_all") \/ Called("stream")
  /\ leaf[at] = "init"
  /\ \/ shape[at] = "decode" /\ Up(at, "err") /\ UNCHANGED leaf
     \/ leaf' = [leaf EXCEPT ![at] = "reading"]
        /\ IF shape[at] = "stream" THEN Up(at, "ok") ELSE Enter("down")
  /\ UNCHANGED <<body, waiting>> /\ LeavesRest

\* RequestBody::take_from(locals), after `decode` has looked at the MIME type.
TakeBody ==
  /\ Called("decode") \/ Called("read_all") \/ Called("stream")
  /\ leaf[at] = "init"
  /\ \/ shape[at] = "decode" /\ Up(at, "err") /\ UNCHANGED <<leaf, body>>
     \/ body = "gone" /\ Up(at, "err") /\ UNCHANGED <<leaf, body>>
     \/ /\ body = "here" /\ body' = "gone"
        /\ leaf' = [leaf EXCEPT ![at] = "reading"]
        /\ IF shape[at] = "stream" THEN Up(at, "ok") ELSE Enter("down")
  /\ UNCHANGED waiting /\ LeavesRest

\* `concat2` collects it; what was read may still not decode.
ReadBody ==
  /\ Called("decode") \/ Called("read_all")
  /\ leaf[at] # "init"
  /\ IF leaf[at] = "spent" THEN Panic /\ UNCHANGED <<leaf, waiting>>
     ELSE \/ Await(Data)
          \/ shape[at] = "decode" /\ source[Data] = "ok" /\ Up(at, "err") /\ Spend /\ UNCHANGED waiting
  /\ UNCHANGED body /\ LeavesRest

-----------------------------------------------------------------------------

\* Something that may be waited for arrives, or fails.
Arrive(s) ==
  /\ source[s] = "open"
  /\ \E res \in {"ok", "err"} : source' = [source EXCEPT ![s] = res]
  /\ notified' = (notified \/ s \in waiting)
  /\ UNCHANGED <<endpoint, stage, pc, at, said, slot, leaf, args, body, waiting>>

Init ==
  /\ shape \in Shapes /\ async \in Asyncs
  /\ stage = "init" /\ pc = "idle" /\ at = <<>> /\ said = [n \in nodes |-> "none"]
  /\ slot = [n \in nodes |-> "future"] /\ leaf = [n \in nodes |-> "init"]
  /\ args = "here" /\ body = "here"
  /\ source = [s \in Sources(shape) |-> "open"]
  /\ waiting = {} /\ notified = TRUE

Turn ==
  \/ Dispatch \/ Extracted \/ PollAction \/ PollRespond
  \/ CallChain \/ ReturnToChain \/ CallOr \/ ReturnToOr \/ CallUnary \/ ReturnToUnary
  \/ PollReady \/ PollValue \/ PollIo \/ TakeBody \/ ReadBody

Next == Poll \/ Turn \/ \E s \in DOMAIN source : Arrive(s)

Spec == Init /\ [][Next]_vars

-----------------------------------------------------------------------------
(* Properties. *)

TypeOK ==
  /\ shape \in Shapes /\ async \in Asyncs
  /\ stage \in {"init", "extract", "action", "respond", "done"}
  /\ pc \in {"idle", "stage", "down", "up", "panic"} /\ at \in nodes
  /\ said \in [nodes -> {"none", "wait", "ok", "err"}]
  /\ slot \in [nodes -> {"future", "output", "gone"}]
  /\ leaf \in [nodes -> {"init", "reading", "spent"}]
  /\ args \in {"here", "gone"} /\ body \in {"here", "gone"}
  /\ source \in [Sources(shape) -> {"open", "ok", "err"}]
  /\ waiting \subseteq Sources(shape) /\ notified \in BOOLEAN

\* No future is polled after it returned, no output is taken twice or before
\* it is there, and `(None, None) => unreachable!()` is: none of the panics of
\* future.rs, ext.rs, endpoint.rs and extractor.rs is reached, whatever the
\* tree and the order in which things arrive.
NoPanic == pc # "panic"

\* At every step of a poll: the types, and no panic.
PollInv == TypeOK /\ NoPanic

\* `RequestBody::take_from` gives the body to one extractor only: of those that
\* read it, as many as there are, the others were refused before they read.
HasBody(n) == \/ leaf[n] = "reading"
              \/ leaf[n] = "spent" /\ shape[n] \in {"decode", "read_all"}
BodyTakenOnce == Cardinality({n \in nodes : HasBody(n)}) <= 1

\* What the combinators promise, however often and in whatever order their
\* futures were polled: `and` succeeds when both do and fails with the first to
\* fail, `or` succeeds when one does and fails when both have, `optional` and
\* `fallible` never fail.
Outcome[n \in nodes] ==
  CASE shape[n] = "chain" -> IF Outcome[Left(n)] = "ok" THEN Outcome[Right(n)] ELSE Outcome[Left(n)]
    [] shape[n] = "or" ->
         LET both == {Outcome[Left(n)], Outcome[Right(n)]} IN
         IF "ok" \in both THEN "ok" ELSE IF both = {"err"} THEN "err" ELSE "wait"
    [] shape[n] = "optional" -> IF Outcome[Left(n)] = "err" THEN "ok" ELSE Outcome[Left(n)]
    [] shape[n] = "map" -> Outcome[Left(n)]
    [] OTHER -> said[n]

OutcomeOfLeaves == pc = "up" => ret = Outcome[at]

\* No wakeup is lost: a task that is not to be polled waits for something that
\* has not arrived and will notify it, wherever an answer might come from.
Unheard(s) == source[s] = "open" /\ s \in waiting

\* What a poll of the tree would wait for, from the leaves up.
Blocked[n \in nodes] ==
  CASE shape[n] = "chain" -> Blocked[IF slot[Left(n)] = "output" THEN Right(n) ELSE Left(n)]
    [] shape[n] = "or"    -> \A m \in {Left(n), Right(n)} : slot[m] = "future" => Blocked[m]
    [] shape[n] \in {"optional", "map"} -> Blocked[Left(n)]
    [] shape[n] = "io"    -> Unheard(n)
    [] shape[n] \in {"decode", "read_all"} -> leaf[n] = "reading" /\ Unheard(Data)
    [] OTHER -> FALSE

NoLostWakeup ==
  pc = "idle" /\ ~notified =>
    CASE stage = "extract" -> Blocked[<<>>]
      [] stage = "action"  -> Unheard(Action)
      [] stage = "respond" -> Unheard(Respond)
      [] OTHER -> stage = "done"

\* Every request is answered, once everything that may be waited for arrives
\* and the executor polls the tasks that were notified.
FairSpec ==
  /\ Spec /\ WF_vars(Turn) /\ WF_vars(Poll /\ notified)
  /\ WF_vars(\E s \in DOMAIN source : Arrive(s))

Answered == <>(stage = "done")
=============================================================================
