--------------------------- MODULE MCRedisSession ---------------------------
(* Small instances of RedisSession: values carry the client that set them. *)
EXTENDS RedisSession, TLC

CONSTANTS Contents

OwnValues == Clients \X Contents

Interchangeable == Permutations(Ids) \cup Permutations(Requests)
=============================================================================
