------------------------------ MODULE MCServer ------------------------------
EXTENDS Server, TLC

CONSTANTS c1, c2

Right == [upgrade |-> "right", connection |-> "right", version |-> "right", key |-> "right"]

NoFields == [f \in DOMAIN Right |-> "none"]

Ws == [http |-> "1.1", route |-> "ws", fields |-> Right,
       stolen |-> FALSE, finishes |-> FALSE, mapped |-> FALSE]

MCRequests ==
  {Ws, [Ws EXCEPT !.http = "1.0"], [Ws EXCEPT !.stolen = TRUE], [Ws EXCEPT !.finishes = TRUE],
   [Ws EXCEPT !.mapped = TRUE], [Ws EXCEPT !.fields.connection = "wrong"],
   [Ws EXCEPT !.fields = NoFields],
   [Ws EXCEPT !.route = "plain", !.fields = NoFields],
   [Ws EXCEPT !.route = "plain", !.finishes = TRUE],
   [Ws EXCEPT !.route = "panic", !.fields = NoFields]}

Runtime(is, own) == [is |-> is, own |-> own]
App(modifier) == [is |-> "app", modifier |-> modifier]

Setup == [runtime |-> Runtime("pool", TRUE), listener |-> "tokio", acceptor |-> "none",
          factory |-> App("none"), background |-> FALSE,
          spent |-> (c1 :> 1) @@ (c2 :> 1)]

One == (c1 :> 0) @@ (c2 :> MaxRequests)  \* the other only connects

MCSetups ==
  {[Setup EXCEPT !.listener = "address", !.acceptor = "tls", !.factory = App("function")],
   [Setup EXCEPT !.runtime = Runtime("pool", FALSE), !.background = TRUE, !.spent = One],
   [Setup EXCEPT !.runtime = Runtime("current", TRUE), !.factory.is = "function"],
   [Setup EXCEPT !.runtime = Runtime("current", FALSE), !.listener = "std",
                 !.background = TRUE, !.spent = One]}
=============================================================================
