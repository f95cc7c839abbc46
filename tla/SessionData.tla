---------------------------- MODULE SessionData -----------------------------
(***************************************************************************)
(* The session a handler works on: `Inner` and the RawSession methods,     *)
(* which backend/redis.rs and backend/cookie.rs write out alike.           *)
(***************************************************************************)
CONSTANTS Fields, Values, NoValue

ASSUME NoValueIsNone == NoValue \notin Values

NoFields == [f \in Fields |-> NoValue]

Empty   == [kind |-> "empty", map |-> NoFields]
Some(m) == [kind |-> "some",  map |-> m]
Cleared == [kind |-> "clear", map |-> NoFields]

Map   == [Fields -> Values \cup {NoValue}]
Inner == {s \in [kind : {"empty", "some", "clear"}, map : Map] :
            s.kind # "some" => s.map = NoFields}

\* Only `Inner::Some` has fields.
Get(s, f) == s.map[f]

\* After `clear` a value that is set is dropped.
Set(s, f, v) == IF s.kind = "clear" THEN s ELSE Some([s.map EXCEPT ![f] = v])

Remove(s, f) == IF s.kind = "some" THEN Some([s.map EXCEPT ![f] = NoValue]) ELSE s

Clear(s) == Cleared
=============================================================================
