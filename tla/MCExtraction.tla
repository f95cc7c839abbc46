---------------------------- MODULE MCExtraction ----------------------------
(* Small instances of Extraction: endpoints with several extractors. *)
EXTENDS Extraction, TLC

One(op) == <<>> :> op
Graft(i, t) == [n \in {<<i>> \o m : m \in DOMAIN t} |-> t[Tail(n)]]
Of(op, t) == One(op) @@ Graft(1, t)
Two(op, t, u) == One(op) @@ Graft(1, t) @@ Graft(2, u)

\* The endpoints of the examples and tests, and the combinations in which one
\* future has to wait while another one returned, failed or took the body.
Endpoints == {
  Two("chain", One("unit"), One("decode")),
  Two("or", One("decode"), One("read_all")),
  Two("or", Of("map", One("io")), One("io")),
  Two("or", Two("or", One("io"), One("decode")), One("value")),
  Two("or", Two("chain", One("ready"), One("io")), Two("chain", One("io"), One("stream"))),
  Two("chain", Of("optional", Two("or", One("io"), One("ready"))), One("read_all")),
  Two("chain", Two("or", One("io"), One("io")), Two("chain", One("value"), One("io"))),
  Two("or", Of("optional", One("decode")), Two("or", One("io"), One("stream"))) }
=============================================================================
