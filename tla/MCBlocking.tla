------------------------------ MODULE MCBlocking ------------------------------
EXTENDS Blocking

CONSTANTS t1, t2

Entry(name, is, utf8) == [name |-> name, is |-> is, utf8 |-> utf8]

File    == <<Entry("f", "file", TRUE)>>
Dir     == <<Entry("g", "file", TRUE), Entry("d", "dir", TRUE)>>
Socket  == <<Entry("f", "file", TRUE), Entry("s", "other", TRUE)>>
Garbled == <<Entry("f", "file", FALSE)>>

Get(payload) == [method |-> "GET", mime |-> "none", stolen |-> FALSE, payload |-> payload]
Post(mime, payload) == [method |-> "POST", mime |-> mime, stolen |-> FALSE, payload |-> payload]

Single(op) == [is |-> "single", ops |-> <<op>>]
Batch(ops) == [is |-> "batch", ops |-> ops]
Nothing(is) == [is |-> is, ops |-> <<>>]

MCRequests ==
  {Get(Single("ok")), Get(Nothing("none")),
   Post("json", Single("bad")), Post("json", Batch(<<>>)), Post("json", Nothing("garbled")),
   Post("json", Batch(<<"ok", "bad", "ok">>)), Post("graphql", Batch(<<"ok", "ok">>)),
   Post("garbled", Single("ok")), Post("none", Single("ok")),
   [Post("json", Single("ok")) EXCEPT !.stolen = TRUE],
   [Get(Single("ok")) EXCEPT !.method = "PUT"]}

Both(a, b) == (t1 :> a) @@ (t2 :> b)

\* A client and those who write to the file it wants, alone with the server
Alone == [kind |-> Both("file", "none"), pooled |-> TRUE, captured |-> FALSE,
          zone |-> 0, chunk |-> 1, dir |-> File, first |-> 3, spent |-> 0]

\* Two connections and one thread: fewer writes and one request for a file each
Shared(a, b) == [Alone EXCEPT !.kind = Both(a, b), !.captured = TRUE,
                              !.chunk = 2, !.first = MaxTick - 1, !.spent = MaxFetches - 1]

MCScenes ==
  {Alone, [Alone EXCEPT !.zone = 1, !.chunk = 0, !.dir = Dir],
   [Alone EXCEPT !.dir = Socket], [Alone EXCEPT !.dir = Garbled],
   Shared("file", "file"), [Shared("file", "query") EXCEPT !.first = MaxTick],
   Shared("query", "query"), [Shared("query", "none") EXCEPT !.captured = FALSE, !.spent = 0],
   [Shared("file", "query") EXCEPT !.pooled = FALSE, !.captured = FALSE, !.first = MaxTick]}
===============================================================================
