---------------------------- MODULE BlockingPool ----------------------------
(***************************************************************************)
(* The threads on which tokio_threadpool lets a task block: `blocking_io`  *)
(* of fs.rs and `blocking` of rt.rs both ask for one of them through       *)
(* poll_blocking, in the middle of a poll, and give it back when that poll *)
(* ends.  A task that finds none left is queued and polled again when one  *)
(* has been kept for it.  A runtime of a single thread has none: there     *)
(* poll_blocking fails.                                                    *)
(***************************************************************************)
EXTENDS Integers, FiniteSets, SequencesExt

CONSTANTS
  Tasks,  \* the tasks of the instance, one for each connection
  Slots   \* blocking_threads of the runtime

ASSUME PoolAssumption == Slots \in Nat \ {0} /\ IsFiniteSet(Tasks)

VARIABLES
  pooled,  \* tokio::runtime::Runtime, and not current_thread::Runtime
  slot,    \* what each task has of the pool
  queue    \* the tasks that wait for a thread

poolVars == <<pooled, slot, queue>>

PoolTypeOK ==
  /\ pooled \in BOOLEAN
  /\ slot \in [Tasks -> {"none", "waiting", "kept", "held"}]
  /\ queue \in Seq(Tasks)

PoolInit ==
  /\ slot = [t \in Tasks |-> "none"]
  /\ queue = <<>>

Free == Cardinality({t \in Tasks : slot[t] \in {"kept", "held"}}) < Slots

\* poll_blocking begins to run the closure of task t ...
Enter(t) ==
  /\ pooled
  /\ slot[t] = "kept" \/ (slot[t] = "none" /\ Free)
  /\ slot' = [slot EXCEPT ![t] = "held"]
  /\ UNCHANGED <<pooled, queue>>

\* ... or returns NotReady.
Wait(t) ==
  /\ pooled
  /\ slot[t] = "none" /\ ~Free
  /\ slot' = [slot EXCEPT ![t] = "waiting"]
  /\ queue' = Append(queue, t)
  /\ UNCHANGED pooled

\* A poll of t ends that had, or was offered, a thread: the task that has
\* waited longest is next.
Leave(t) ==
  /\ slot[t] \in {"kept", "held"}
  /\ IF queue = <<>>
     THEN slot' = [slot EXCEPT ![t] = "none"] /\ UNCHANGED queue
     ELSE slot' = [slot EXCEPT ![t] = "none", ![Head(queue)] = "kept"] /\ queue' = Tail(queue)
  /\ UNCHANGED pooled

\* Task t is dropped between two polls.
Dropped(t) ==
  \/ slot[t] = "none" /\ UNCHANGED poolVars
  \/ slot[t] = "kept" /\ Leave(t)
  \/ /\ slot[t] = "waiting"
     /\ slot' = [slot EXCEPT ![t] = "none"]
     /\ \E n \in DOMAIN queue : queue[n] = t /\ queue' = RemoveAt(queue, n)
     /\ UNCHANGED pooled
=============================================================================
