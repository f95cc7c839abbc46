---------------------------- MODULE MCRouteTree -----------------------------
(* Small instances of RouteTree: sets of routes and of requests. *)
EXTENDS RouteTree

\* Static text that splits, parameters in the middle and at the end, a
\* catch-all, a catch-all that is not last ("/a/*path/", which Uri::parse
\* lets through), and conflicts of static text with parameters and of `:name`
\* with `*name`.
Patterns1 == {
  <<"/">>, <<"/", "a">>, <<"/", "b", "/", "*">>,
  <<"/", "a", "/", ":">>, <<"/", "a", "/", ":", "/", "b">>,
  <<"/", "b", "/", ":", "/", "*", "/">>, <<"/", ":", "/", "a">>, <<"/", "*">>}

\* Requests that end inside static text, at a slash, in an empty segment, in a
\* segment of two letters, and past every route.
Some(text) == {<<"/">> \o t : t \in text}
Requests1 == {<<>>} \cup Some({
  <<>>, <<"a">>, <<"b">>, <<"b", "a">>, <<"a", "/">>, <<"a", "b">>, <<"b", "/">>,
  <<"a", "/", "b">>, <<"b", "/", "a", "b">>, <<"b", "/", "a", "/", "a">>,
  <<"a", "/", "b", "/", "b">>, <<"a", "/", "/", "b">>, <<"b", "/", "a">> })
\* A request that may stop inside "/a/:" or "/a/:/b".
Short == {<<"/", "a">>}
=============================================================================
