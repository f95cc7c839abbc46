------------------------------- MODULE MCApp --------------------------------
(* Small instances of App: routes and prefixes to configure, and requests. *)
EXTENDS App

\* Routes that share text and one with a parameter, in every kind of nesting: a
\* prefix with a parameter cannot be mounted under itself nor take that route.
Routes2 == { <<"/">>, <<"/", "a">>, <<"/", ":">> }
Mounts2 == { <<"/", "a">>, <<"/", ":">> }
Asked2 == { <<"/", "a">>, <<"/", "a", "/">>, <<"/", "a", "/", "c">>, <<"/", "b", "/", "c">> }
=============================================================================
