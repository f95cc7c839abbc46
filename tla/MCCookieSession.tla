-------------------------- MODULE MCCookieSession ---------------------------
(* Small instances of CookieSession: requests are interchangeable. *)
EXTENDS CookieSession, TLC

Interchangeable == Permutations(Requests)
=============================================================================
