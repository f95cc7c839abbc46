----------------------------- MODULE MCHandlers -----------------------------
EXTENDS Handlers

O == "https://a.example"
Q == "https://b.example"

Policies == {
  NewBuilder,
  MaxAge(AllowOrigins(AllowMethods(NewBuilder, {"GET", "PUT"}), {O})),
  AllowCredentials(AllowHeaders(NewBuilder, {"x-a"})),
  AllowHeaders(AllowOrigins(AllowOrigins(NewBuilder, {O}), {Q}), {"x-a", "x-b"})}

Call(ms, async) == [by |-> "only", methods |-> ms, async |-> async]
AnyCall(async)  == [by |-> "any", async |-> async]
CorsEndpoint(b) == [by |-> "cors", policy |-> b]

EndpointLists ==
  {<<AnyCall(TRUE)>>, <<Call(<<"GET">>, TRUE)>>,
   <<Call(<<"GET">>, FALSE), Call(<<"PUT", "GET">>, TRUE)>>,
   <<Call(<<"PUT">>, FALSE), AnyCall(FALSE)>>,
   <<Call(<<"GET", "garbled">>, FALSE)>>}
  \cup {<<Call(<<"GET">>, FALSE), CorsEndpoint(b)>> : b \in Policies}

Options == [is |-> "options"]
Map     == [is |-> "map"]
Cors(b) == [is |-> "cors", policy |-> b]

ModifierLists ==
  {<<>>, <<Options>>, <<Map, Options>>}
  \cup UNION {{<<Cors(b)>>, <<Options, Cors(b)>>, <<Cors(b), Map, Options>>} : b \in Policies}
  \cup {<<Cors(b), Cors(c)>> : b, c \in Policies}

MCSites == [endpoints : EndpointLists, modifiers : ModifierLists]

MCWants ==
  [method : {"GET", "PUT", "HEAD"}, origin : {O, Q}, headers : {{}, {"x-a"}, {"x-a", "x-b"}}]

MCRequests ==
  [method : {"GET", "PUT", "OPTIONS"}, origin : {Absent, "null", O, Q},
   ask : {Absent}, lists : {{}}]
  \cup [method : {"OPTIONS"}, origin : {O, Q}, ask : {Absent, "garbled", "PUT"},
        lists : {{}, {{}}, {{"x-a"}}, {{"x\ta"}}}]
=============================================================================
