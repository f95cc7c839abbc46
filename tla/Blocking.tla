------------------------------ MODULE Blocking ------------------------------
(***************************************************************************)
(* Replies that block, together: connections that ask for files and others *)
(* that ask GraphQL queries, on one pool of threads.                       *)
(***************************************************************************)
EXTENDS Files, Queries

\* What the connections are for and how the server is set up:
\* [kind, pooled, captured, zone, chunk, dir, first, spent]
CONSTANT Scenes

\* The files were written before the clock starts; local time may be behind UTC.
ASSUME ScenesAssumption ==
  \A s \in Scenes :
    /\ s.kind \in [Tasks -> {"file", "query", "none"}] /\ s.pooled \in BOOLEAN
    /\ s.first \in 1..MaxTick /\ \A i \in Inodes : i < s.first
    /\ s.zone \in Int /\ s.chunk \in Nat /\ s.spent \in 0..MaxQueries

VARIABLE kind

vars == <<kind, fileVars, queryVars, poolVars>>

Init ==
  /\ PoolInit
  /\ \E s \in Scenes : FilesInit(s) /\ QueriesInit(s) /\ kind = s.kind /\ pooled = s.pooled

Next ==
  /\ \/ (ConfigureFiles \/ Change) /\ UNCHANGED <<poolVars, queryVars>>
     \/ \E t \in Tasks : kind[t] = "file" /\ FileStep(t) /\ UNCHANGED queryVars
     \/ \E t \in Tasks : kind[t] = "query" /\ QueryStep(t) /\ UNCHANGED fileVars
  /\ UNCHANGED kind

\* The runtime polls a task that was notified, one a thread is kept for among
\* them, and what runs on a thread comes to its end.  Nothing is assumed of the
\* clients, nor of those who write to the file.
Fairness ==
  \A t \in Tasks :
    /\ WF_vars(slot[t] # "none" /\ PollFile(t) /\ UNCHANGED <<kind, queryVars>>)
    /\ WF_vars(PollJob(t) /\ UNCHANGED <<kind, fileVars>>)
    /\ WF_vars(PollQuery(t) /\ UNCHANGED <<kind, fileVars, poolVars>>)

Spec == Init /\ [][Next]_vars /\ Fairness
-----------------------------------------------------------------------------
\* Properties

TypeOK == PoolTypeOK /\ FilesTypeOK /\ QueriesTypeOK

\* The types, and that a batch runs as a whole or not at all, with files that
\* take the same threads in between.
BlockingInv == TypeOK /\ WholeOrNothing

\* Nobody waits for a thread in vain: who has asked for one gets it or leaves,
\* with a single thread for all files and queries.
WaitersServed == \A t \in Tasks : slot[t] = "waiting" ~> slot[t] # "waiting"

\* A query that was handed to a task of its own is answered, unless its client
\* leaves; and that task ends, also if nobody waits for it any more.
QueriesAnswered ==
  \A t \in Tasks : query[t].job # "none" ~> query[t].job = "none" /\ query[t].state # "spawned"
=============================================================================
