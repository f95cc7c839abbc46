--------------------------- MODULE Blocking_proofs ---------------------------
(***************************************************************************)
(* Theorems about replies that block: whatever the number of connections,  *)
(* threads and files, a client's copy of a file is whole, it is told that  *)
(* it is current only if it is, a batch of queries runs as a whole, and no *)
(* more threads are lent than there are.                                   *)
(***************************************************************************)
EXTENDS Blocking, SequenceTheorems, FiniteSetTheorems, TLAPS

-----------------------------------------------------------------------------
(* The invariants of the parts. *)

Lent == {t \in Tasks : slot[t] \in {"kept", "held"}}

\* Who waits is in the queue, once, and nobody else is.
Queued ==
  /\ \A t \in Tasks : slot[t] = "waiting" <=> \E n \in DOMAIN queue : queue[n] = t
  /\ \A m, n \in DOMAIN queue : queue[m] = queue[n] => m = n

\* No more threads are lent, or kept for a task, than there are.
ThreadsBounded == Cardinality(Lent) <= Slots

PoolInv == PoolTypeOK /\ Queued /\ ThreadsBounded

FetchFields == {"state", "count", "cond", "found", "fd", "meta", "pos", "status", "body"}

\* Since the file was opened and looked at, either it was written to, and has a
\* time that this reply's has not, or what was read so far is its beginning.
InStep(f, d) ==
  \A m \in f.meta, i \in f.fd, j \in Inodes :
    d[j].mtime = m.mtime =>
      j = i /\ f.pos <= Len(d[j].data) /\ f.body = SubSeq(d[j].data, 1, f.pos)

\* A request at its work on the disk d, at the time now, with the copies its
\* client has
FetchOK(f, d, now, copies) ==
  /\ DOMAIN f = FetchFields
  /\ f.state \in {"idle", "open", "opening", "opened", "read", "reading"}
  /\ f.status \in {0, 200, 304, 400, 403, 404, 500}
  /\ f.body \in Seq(Nat) /\ f.pos = Len(f.body)
  /\ f.fd \subseteq Inodes /\ \A i, j \in f.fd : i = j
  /\ \A m, n \in f.meta : m = n
  /\ \A m \in f.meta : m.len \in Nat /\ m.mtime \in Nat /\ m.mtime < now
  /\ f.state \in {"read", "reading"} => f.fd # {} /\ f.meta # {} /\ InStep(f, d)
  /\ f.state \in {"open", "opening", "opened"} =>
       /\ f.cond \in Conditions(copies)
       /\ f.pos = 0 /\ f.status = 0

\* A copy is what its tag and its date say, in the server's local time.
CopyOK(c, d, now, ahead) ==
  /\ c.mtime \in Nat /\ c.mtime < now
  /\ c.etag = FromMetadata([len |-> c.etag.tag[1], mtime |-> c.mtime])
  /\ c.date = (c.mtime \div Second) + ahead
  /\ \A i \in Inodes : d[i].mtime = c.mtime => d[i].data = c.data

\* No two files have the same time, and none is of the future.
TimesDiffer(d, now) ==
  /\ \A i \in Inodes : d[i].mtime < now
  /\ \A i, j \in Inodes : d[i].mtime = d[j].mtime => i = j

Disks == [Inodes -> [mtime : 0..MaxTick, data : BoundedSeq(0..MaxTick, MaxLen)]]

FilesInv ==
  /\ disk \in Disks /\ TimesDiffer(disk, clock)
  /\ at \subseteq Inodes /\ \A i, j \in at : i = j
  /\ clock \in 1..MaxTick /\ zone \in Int /\ chunk \in Nat
  /\ DOMAIN site = {"state", "dir", "routes"}
  /\ site.state \in {"setup", "built", "misconfigured"}
  /\ DOMAIN fetch = Tasks /\ DOMAIN cache = Tasks
  /\ \A t \in Tasks :
       /\ FetchOK(fetch[t], disk, clock, cache[t])
       /\ \A b, c \in cache[t] : b = c
       /\ \A c \in cache[t] : CopyOK(c, disk, clock, zone)

QueryFields == {"state", "count", "req", "job", "ops", "done", "raised", "reply"}

\* A reply tells what was done of the query q.
TrueOf(q, r) ==
  /\ r.status = 200 => /\ q.done = q.ops
                       /\ \A i \in DOMAIN q.ops : Succeeds(q.ops[i])
  /\ q.raised # {} => q.done = <<>> /\ (r = Panicked \/ r.status >= 400)

\* What is executed, an operation or not
Texts == STRING \cup {"nonsense"}

\* A query at its work
QueryOK(q) ==
  /\ DOMAIN q = QueryFields
  /\ q.state \in {"idle", "init", "receive", "call", "spawned"}
  /\ q.job \in {"none", "queued", "running", "finished", "failed"}
  /\ q.count \in 0..MaxQueries /\ q.req \subseteq QueryRequests
  /\ q.ops \in Seq(Texts) /\ q.done \in Seq(Texts) /\ IsPrefix(q.done, q.ops)
  /\ q.state \in {"init", "receive", "call"} => q.job = "none" /\ q.done = <<>>
  /\ q.state \in {"init", "receive"} => q.ops = <<>>
  /\ q.state # "idle" \/ q.job # "none" => q.raised = {} /\ q.reply = {}
  /\ q.job \in {"queued", "failed"} => q.done = <<>>
  /\ q.job = "finished" => q.done = q.ops
  /\ q.job = "none" => q.done \in {<<>>, q.ops}
  /\ \A r \in q.reply : TrueOf(q, r)

QueriesInv == DOMAIN query = Tasks /\ \A t \in Tasks : QueryOK(query[t])

IInv == PoolInv /\ FilesInv /\ QueriesInv

-----------------------------------------------------------------------------
(* The pool of threads. *)

\* A sequence without its n-th element
LEMMA RemoveKeeps ==
  ASSUME NEW S, NEW q \in Seq(S), NEW n \in 1..Len(q)
  PROVE  /\ RemoveAt(q, n) \in Seq(S) /\ Len(RemoveAt(q, n)) = Len(q) - 1
         /\ \A k \in 1..Len(q)-1 : RemoveAt(q, n)[k] = IF k < n THEN q[k] ELSE q[k + 1]
<1> DEFINE a == SubSeq(q, 1, n - 1)
           b == SubSeq(q, n + 1, Len(q))
<1>1. Len(q) \in Nat /\ \A k \in 1..Len(q) : q[k] \in S
  BY ElementOfSeq, LenProperties
<1>2. a \in Seq(S) /\ Len(a) = n - 1 /\ \A k \in 1..n-1 : a[k] = q[k]
  <2>1. n - 1 \in Int /\ \A k \in 1..n-1 : q[k] \in S
    BY <1>1
  <2> QED BY <2>1, SubSeqProperties
<1>3. b \in Seq(S) /\ Len(b) = Len(q) - n /\ \A k \in 1..Len(q)-n : b[k] = q[n + k]
  <2>1. n + 1 \in Int /\ Len(q) \in Int /\ \A k \in n+1..Len(q) : q[k] \in S
    BY <1>1
  <2>2. /\ b \in Seq(S) /\ Len(b) = IF n + 1 <= Len(q) THEN Len(q) - (n + 1) + 1 ELSE 0
        /\ \A k \in 1..Len(q)-(n+1)+1 : b[k] = q[n + 1 + k - 1]
    BY <2>1, SubSeqProperties
  <2> QED BY <1>1, <2>2
<1> HIDE DEF a, b
<1>4. /\ a \o b \in Seq(S) /\ Len(a \o b) = Len(a) + Len(b)
      /\ \A k \in 1..Len(a)+Len(b) : (a \o b)[k] = IF k <= Len(a) THEN a[k] ELSE b[k - Len(a)]
  BY <1>2, <1>3, ConcatProperties
<1>5. RemoveAt(q, n) = a \o b
  BY DEF RemoveAt, a, b
<1>6. Len(a) + Len(b) = Len(q) - 1
  BY <1>1, <1>2, <1>3
<1>7. ASSUME NEW k \in 1..Len(q)-1
      PROVE  (a \o b)[k] = IF k < n THEN q[k] ELSE q[k + 1]
  <2>1. (a \o b)[k] = IF k <= Len(a) THEN a[k] ELSE b[k - Len(a)]
    BY <1>4, <1>6, <1>7
  <2>2. CASE k < n
    BY <1>1, <1>2, <2>1, <2>2
  <2>3. CASE ~(k < n)
    <3>1. PICK l \in 1..Len(q)-n : l = k - (n - 1)
      BY <1>1, <2>3
    <3>2. (a \o b)[k] = b[l] /\ n + l = k + 1
      BY <1>1, <1>2, <2>1, <2>3, <3>1
    <3> QED BY <1>3, <2>3, <3>2
  <2> QED BY <2>2, <2>3
<1> QED BY <1>4, <1>5, <1>6, <1>7

\* The queue, and what is finite
LEMMA PoolFacts ==
  ASSUME PoolInv
  PROVE  /\ Len(queue) \in Nat /\ DOMAIN queue = 1..Len(queue)
         /\ \A n \in 1..Len(queue) : queue[n] \in Tasks
         /\ IsFiniteSet(Lent) /\ Cardinality(Lent) \in Nat /\ Slots \in Nat
<1>1. Len(queue) \in Nat /\ DOMAIN queue = 1..Len(queue) /\ \A n \in 1..Len(queue) : queue[n] \in Tasks
  BY ElementOfSeq, LenProperties DEF PoolInv, PoolTypeOK
<1>2. IsFiniteSet(Lent)
  <2>1. Lent \in SUBSET Tasks BY DEF Lent
  <2> QED BY <2>1, PoolAssumption, FS_Subset
<1> QED BY <1>1, <1>2, FS_CardinalityType, PoolAssumption

\* A thread is lent if it was kept for the task, or if one is free.
LEMMA EnterStep ==
  ASSUME PoolInv, NEW t \in Tasks, Enter(t)
  PROVE  PoolInv'
<1>1. /\ slot \in [Tasks -> {"none", "waiting", "kept", "held"}]
      /\ slot' = [slot EXCEPT ![t] = "held"] /\ UNCHANGED <<pooled, queue>>
      /\ slot[t] = "kept" \/ (slot[t] = "none" /\ Cardinality(Lent) < Slots)
  BY DEF PoolInv, PoolTypeOK, Enter, Free, Lent
<1>2. PoolTypeOK'
  BY <1>1 DEF PoolInv, PoolTypeOK
<1>3. Queued'
  BY <1>1 DEF PoolInv, Queued
<1>4. Lent' = Lent \cup {t}
  BY <1>1 DEF Lent
<1>5. Cardinality(Lent') <= Slots
  <2>1. CASE slot[t] = "kept"
    <3>1. Lent' = Lent BY <1>4, <2>1 DEF Lent
    <3> QED BY <3>1 DEF PoolInv, ThreadsBounded
  <2>2. CASE slot[t] = "none" /\ Cardinality(Lent) < Slots
    <3>1. Cardinality(Lent \cup {t}) \in {Cardinality(Lent), Cardinality(Lent) + 1}
      BY PoolFacts, FS_AddElement
    <3> QED BY <1>4, <2>2, <3>1, PoolFacts
  <2> QED BY <1>1, <2>1, <2>2
<1> QED BY <1>2, <1>3, <1>5 DEF PoolInv, ThreadsBounded

\* A task that finds none waits at the end of the queue.
LEMMA WaitStep ==
  ASSUME PoolInv, NEW t \in Tasks, Wait(t)
  PROVE  PoolInv'
<1>1. /\ slot \in [Tasks -> {"none", "waiting", "kept", "held"}] /\ queue \in Seq(Tasks)
      /\ slot' = [slot EXCEPT ![t] = "waiting"] /\ queue' = Append(queue, t)
      /\ UNCHANGED pooled /\ slot[t] = "none"
  BY DEF PoolInv, PoolTypeOK, Wait
<1>2. /\ queue' \in Seq(Tasks) /\ Len(queue') = Len(queue) + 1
      /\ \A n \in 1..Len(queue) : queue'[n] = queue[n]
      /\ queue'[Len(queue) + 1] = t
      /\ DOMAIN queue' = 1..Len(queue)+1
  BY <1>1, AppendProperties, LenProperties
<1>3. PoolTypeOK'
  BY <1>1, <1>2 DEF PoolInv, PoolTypeOK
<1>4. \A n \in 1..Len(queue) : queue[n] # t
  BY <1>1, PoolFacts DEF PoolInv, Queued
<1>5. Queued'
  <2>1. ASSUME NEW u \in Tasks
        PROVE  slot'[u] = "waiting" <=> \E n \in DOMAIN queue' : queue'[n] = u
    <3>1. CASE u = t
      BY <1>1, <1>2, <3>1, PoolFacts
    <3>2. CASE u # t
      <4>1. slot'[u] = slot[u] BY <1>1, <3>2
      <4>2. (\E n \in DOMAIN queue' : queue'[n] = u) <=> \E n \in DOMAIN queue : queue[n] = u
        BY <1>2, <3>2, PoolFacts
      <4> QED BY <4>1, <4>2 DEF PoolInv, Queued
    <3> QED BY <3>1, <3>2
  <2>2. \A m, n \in DOMAIN queue' : queue'[m] = queue'[n] => m = n
    <3> SUFFICES ASSUME NEW m \in 1..Len(queue)+1, NEW n \in 1..Len(queue)+1, queue'[m] = queue'[n]
                 PROVE  m = n
      BY <1>2
    <3>1. CASE m \in 1..Len(queue) /\ n \in 1..Len(queue)
      BY <1>2, <3>1, PoolFacts DEF PoolInv, Queued
    <3>2. CASE m \notin 1..Len(queue) \/ n \notin 1..Len(queue)
      BY <1>2, <1>4, <3>2, PoolFacts
    <3> QED BY <3>1, <3>2
  <2> QED BY <2>1, <2>2 DEF Queued
<1>6. Lent' = Lent
  BY <1>1 DEF Lent
<1> QED BY <1>3, <1>5, <1>6 DEF PoolInv, ThreadsBounded

\* A thread that is given back is kept for the first task of the queue.
LEMMA LeaveStep ==
  ASSUME PoolInv, NEW t \in Tasks, Leave(t)
  PROVE  PoolInv'
<1>1. /\ slot \in [Tasks -> {"none", "waiting", "kept", "held"}] /\ queue \in Seq(Tasks)
      /\ slot[t] \in {"kept", "held"} /\ UNCHANGED pooled
  BY DEF PoolInv, PoolTypeOK, Leave
<1>2. CASE queue = <<>>
  <2>1. slot' = [slot EXCEPT ![t] = "none"] /\ UNCHANGED queue
    BY <1>2 DEF Leave
  <2>2. PoolTypeOK' /\ Queued'
    BY <1>1, <2>1 DEF PoolInv, PoolTypeOK, Queued
  <2>3. Lent' = Lent \ {t}
    BY <1>1, <2>1 DEF Lent
  <2>4. Cardinality(Lent \ {t}) <= Cardinality(Lent)
    <3>1. IsFiniteSet(Lent) /\ Lent \ {t} \in SUBSET Lent BY PoolFacts
    <3> QED BY <3>1, FS_Subset
  <2>5. Cardinality(Lent') \in Nat
    BY <2>3, PoolFacts, FS_RemoveElement, FS_CardinalityType
  <2> QED BY <2>2, <2>3, <2>4, <2>5, PoolFacts DEF PoolInv, ThreadsBounded
<1>3. CASE queue # <<>>
  <2>1. PICK h : h = Head(queue)
    OBVIOUS
  <2>2. slot' = [slot EXCEPT ![t] = "none", ![h] = "kept"] /\ queue' = Tail(queue)
    BY <1>3, <2>1 DEF Leave
  <2>3. /\ Len(queue) \in Nat \ {0} /\ h = queue[1] /\ h \in Tasks
        /\ Tail(queue) \in Seq(Tasks) /\ Len(Tail(queue)) = Len(queue) - 1
        /\ \A n \in 1..Len(queue)-1 : Tail(queue)[n] = queue[n + 1]
        /\ DOMAIN Tail(queue) = 1..Len(queue)-1
    <3>1. Len(queue) \in Nat \ {0}
      BY <1>1, <1>3, EmptySeq
    <3>2. h = queue[1] /\ h \in Tasks
      <4>1. Head(queue) \in Tasks BY <1>1, <1>3, HeadTailProperties
      <4>2. Head(queue) = queue[1] BY <1>1
      <4> QED BY <2>1, <4>1, <4>2
    <3>3. /\ Tail(queue) \in Seq(Tasks) /\ Len(Tail(queue)) = Len(queue) - 1
          /\ \A n \in 1..Len(Tail(queue)) : Tail(queue)[n] = queue[n + 1]
      BY <1>1, <1>3, HeadTailProperties
    <3>4. DOMAIN Tail(queue) = 1..Len(Tail(queue))
      BY <3>3, LenProperties
    <3> QED BY <3>1, <3>2, <3>3, <3>4
  <2>4. slot[h] = "waiting" /\ h # t
    BY <1>1, <2>3 DEF PoolInv, Queued
  <2>5. slot' \in [Tasks -> {"none", "waiting", "kept", "held"}] /\ slot'[t] = "none" /\ slot'[h] = "kept"
        /\ \A u \in Tasks \ {t, h} : slot'[u] = slot[u]
    BY <1>1, <2>2, <2>3, <2>4
  <2>6. PoolTypeOK'
    BY <1>1, <2>2, <2>3, <2>5 DEF PoolInv, PoolTypeOK
  <2>7. ASSUME NEW n \in 2..Len(queue) PROVE queue[n] # h /\ queue[n] # t
    <3>1. n \in DOMAIN queue /\ 1 \in DOMAIN queue /\ n # 1
      BY <2>3, PoolFacts
    <3>2. queue[n] # h
      BY <2>3, <3>1 DEF PoolInv, Queued
    <3>3. queue[n] # t
      BY <1>1, <3>1 DEF PoolInv, Queued
    <3> QED BY <3>2, <3>3
  <2>8. Queued'
    <3>1. ASSUME NEW u \in Tasks
          PROVE  slot'[u] = "waiting" <=> \E n \in DOMAIN queue' : queue'[n] = u
      <4>1. CASE u \in {t, h}
        <5>1. slot'[u] # "waiting" BY <2>5, <4>1
        <5>2. \A n \in 1..Len(queue)-1 : queue'[n] # u
          BY <2>2, <2>3, <2>7, <4>1
        <5> QED BY <2>2, <2>3, <5>1, <5>2
      <4>2. CASE u \notin {t, h}
        <5>1. slot'[u] = slot[u] BY <2>5, <4>2
        <5>2. ASSUME NEW n \in 1..Len(queue)-1, queue'[n] = u
              PROVE  n + 1 \in 1..Len(queue) /\ queue[n + 1] = u
          BY <2>2, <2>3, <5>2
        <5>3. ASSUME NEW n \in 1..Len(queue), queue[n] = u
              PROVE  n - 1 \in 1..Len(queue)-1 /\ queue'[n - 1] = u
          <6>1. n # 1 BY <2>3, <4>2, <5>3
          <6>2. n - 1 \in 1..Len(queue)-1 /\ n = (n - 1) + 1 BY <2>3, <6>1
          <6> QED BY <2>2, <2>3, <5>3, <6>2
        <5>4. DOMAIN queue' = 1..Len(queue)-1 /\ DOMAIN queue = 1..Len(queue)
          BY <2>2, <2>3, PoolFacts
        <5> QED BY <5>1, <5>2, <5>3, <5>4 DEF PoolInv, Queued
      <4> QED BY <4>1, <4>2
    <3>2. \A m, n \in DOMAIN queue' : queue'[m] = queue'[n] => m = n
      <4> SUFFICES ASSUME NEW m \in 1..Len(queue)-1, NEW n \in 1..Len(queue)-1, queue'[m] = queue'[n]
                   PROVE  m = n
        BY <2>2, <2>3
      <4>1. /\ m + 1 \in DOMAIN queue /\ n + 1 \in DOMAIN queue
            /\ queue[m + 1] = queue[n + 1]
        BY <2>2, <2>3, PoolFacts
      <4>2. m + 1 = n + 1 BY <4>1 DEF PoolInv, Queued
      <4> QED BY <4>2
    <3> QED BY <3>1, <3>2 DEF Queued
  <2>9. ThreadsBounded'
    <3>1. Lent' = (Lent \ {t}) \cup {h} /\ t \in Lent /\ h \notin Lent
      BY <1>1, <2>3, <2>4, <2>5 DEF Lent
    <3>2. IsFiniteSet(Lent \ {t}) /\ Cardinality(Lent \ {t}) = Cardinality(Lent) - 1
      BY <3>1, PoolFacts, FS_RemoveElement
    <3>3. Cardinality((Lent \ {t}) \cup {h}) = Cardinality(Lent \ {t}) + 1
      BY <3>1, <3>2, FS_AddElement
    <3> QED BY <3>1, <3>2, <3>3, PoolFacts DEF PoolInv, ThreadsBounded
  <2> QED BY <2>6, <2>8, <2>9 DEF PoolInv
<1> QED BY <1>2, <1>3

\* A task that is dropped while it waits goes from the queue.
LEMMA DroppedStep ==
  ASSUME PoolInv, NEW t \in Tasks, Dropped(t)
  PROVE  PoolInv'
<1>1. CASE UNCHANGED poolVars
  BY <1>1 DEF poolVars, PoolInv, PoolTypeOK, Queued, ThreadsBounded, Lent
<1>2. CASE Leave(t)
  BY <1>2, LeaveStep
<1>3. ASSUME slot[t] = "waiting", slot' = [slot EXCEPT ![t] = "none"], UNCHANGED pooled,
             NEW n \in DOMAIN queue, queue[n] = t, queue' = RemoveAt(queue, n)
      PROVE  PoolInv'
  <2>1. /\ slot \in [Tasks -> {"none", "waiting", "kept", "held"}] /\ queue \in Seq(Tasks)
        /\ Len(queue) \in Nat /\ DOMAIN queue = 1..Len(queue)
    BY PoolFacts DEF PoolInv, PoolTypeOK
  <2>2. /\ queue' \in Seq(Tasks) /\ Len(queue') = Len(queue) - 1
        /\ \A k \in 1..Len(queue)-1 : queue'[k] = IF k < n THEN queue[k] ELSE queue[k + 1]
    <3>1. PICK q \in Seq(Tasks) : q = queue
      BY <2>1
    <3>2. n \in 1..Len(q) /\ queue' = RemoveAt(q, n)
      BY <1>3, <2>1, <3>1
    <3> QED BY <3>1, <3>2, RemoveKeeps
  <2>3. DOMAIN queue' = 1..Len(queue)-1
    BY <2>2, LenProperties
  <2>4. PoolTypeOK'
    BY <1>3, <2>1, <2>2 DEF PoolInv, PoolTypeOK
  <2>5. \A k \in 1..Len(queue) : queue[k] = t => k = n
    BY <1>3, <2>1 DEF PoolInv, Queued
  <2>6. ASSUME NEW u \in Tasks
        PROVE  slot'[u] = "waiting" <=> \E k \in DOMAIN queue' : queue'[k] = u
    <3>1. CASE u = t
      <4>1. slot'[u] # "waiting" BY <1>3, <2>1, <3>1
      <4>2. \A k \in 1..Len(queue)-1 : queue'[k] # t
        BY <2>1, <2>2, <2>5, <1>3
      <4> QED BY <2>3, <3>1, <4>1, <4>2
    <3>2. CASE u # t
      <4>1. slot'[u] = slot[u] BY <1>3, <2>1, <3>2
      <4>2. ASSUME NEW k \in 1..Len(queue)-1, queue'[k] = u
            PROVE  \E l \in DOMAIN queue : queue[l] = u
        <5>1. CASE k < n BY <2>1, <2>2, <4>2, <5>1
        <5>2. CASE ~(k < n)
          <6>1. k + 1 \in DOMAIN queue /\ queue[k + 1] = u BY <2>1, <2>2, <4>2, <5>2
          <6> QED BY <6>1
        <5> QED BY <5>1, <5>2
      <4>3. ASSUME NEW l \in 1..Len(queue), queue[l] = u
            PROVE  \E k \in DOMAIN queue' : queue'[k] = u
        <5>1. CASE l < n
          <6>1. l \in 1..Len(queue)-1 BY <1>3, <2>1, <5>1
          <6> QED BY <2>2, <2>3, <4>3, <5>1, <6>1
        <5>2. CASE l > n
          <6>1. l - 1 \in 1..Len(queue)-1 /\ ~(l - 1 < n) /\ (l - 1) + 1 = l
            BY <1>3, <2>1, <5>2
          <6> QED BY <2>2, <2>3, <4>3, <6>1
        <5>3. l # n BY <1>3, <3>2, <4>3
        <5> QED BY <1>3, <2>1, <5>1, <5>2, <5>3
      <4> QED BY <2>1, <2>3, <4>1, <4>2, <4>3 DEF PoolInv, Queued
    <3> QED BY <3>1, <3>2
  <2>7. ASSUME NEW k \in 1..Len(queue)-1, NEW l \in 1..Len(queue)-1, queue'[k] = queue'[l]
        PROVE  k = l
    <3>1. PICK i \in 1..Len(queue) : i = IF k < n THEN k ELSE k + 1
      BY <2>1
    <3>2. PICK j \in 1..Len(queue) : j = IF l < n THEN l ELSE l + 1
      BY <2>1
    <3>3. queue[i] = queue[j]
      BY <2>2, <2>7, <3>1, <3>2
    <3>4. i = j
      BY <2>1, <3>3 DEF PoolInv, Queued
    <3> QED BY <1>3, <2>1, <3>1, <3>2, <3>4
  <2>8. Queued'
    BY <2>3, <2>6, <2>7 DEF Queued
  <2>9. Lent' = Lent
    BY <1>3, <2>1 DEF Lent
  <2> QED BY <2>4, <2>8, <2>9 DEF PoolInv, ThreadsBounded
<1> QED BY <1>1, <1>2, <1>3 DEF Dropped

\* Nothing of the pool changes.
LEMMA PoolStays == ASSUME PoolInv, UNCHANGED poolVars PROVE PoolInv'
BY DEF poolVars, PoolInv, PoolTypeOK, Queued, ThreadsBounded, Lent

-----------------------------------------------------------------------------
(* Queries. *)

Errors == [is : {"GraphQLParseError", "other"}, status : {400, 401, 500}]

\* What an extractor makes of a request
Parsed(p) ==
  \/ p.is = "receive"
  \/ p.is = "err" /\ p.err \in Errors
  \/ p.is = "ops" /\ p.ops \in Seq(Texts)

\* The extractor parses a request, refuses it or receives its body,
LEMMA ExtractParses ==
  ASSUME NEW r \in QueryRequests
  PROVE  Parsed(Extract(r))
<1>1. r.payload.ops \in Seq(Texts)
  BY QueriesAssumption, SeqMonotonic DEF Texts
<1>2. Parsed(ParseQueryStr(r.payload))
  BY <1>1 DEF ParseQueryStr, Ops, Err, ParseError, Parsed, Errors
<1>3. /\ Parsed(Receiving) /\ Parsed(Err(OtherError(500))) /\ Parsed(Err(OtherError(400)))
      /\ Parsed(Err(ParseError(400)))
  BY DEF Receiving, Err, ParseError, OtherError, Parsed, Errors
<1>4. Extract(r) \in {ParseQueryStr(r.payload), Receiving, Err(OtherError(500)),
                      Err(OtherError(400)), Err(ParseError(400))}
  <2>1. CASE r.method = "GET"
    BY <2>1 DEF Extract
  <2>2. CASE r.method = "POST" /\ r.mime \in {"json", "graphql"}
    BY <2>2 DEF Extract
  <2>3. CASE r.method = "POST" /\ r.mime = "garbled"
    BY <2>3 DEF Extract
  <2>4. CASE r.method # "GET" /\ ~(r.method = "POST" /\ r.mime \in {"json", "graphql", "garbled"})
    BY <2>4 DEF Extract
  <2> QED BY <2>1, <2>2, <2>3, <2>4
<1> QED BY <1>2, <1>3, <1>4

\* and what comes in is operations or an error.
LEMMA DecodeParses ==
  ASSUME NEW r \in QueryRequests
  PROVE  Parsed(Decode(r))
<1>1. r.payload.ops \in Seq(Texts)
  BY QueriesAssumption, SeqMonotonic DEF Texts
<1>2. <<"nonsense">> \in Seq(Texts)
  BY EmptySeq DEF Texts
<1> QED BY <1>1, <1>2 DEF Decode, Ops, Err, ParseError, Parsed, Errors

\* The reply of an error says that it is one, or there is none.
LEMMA ErrorTold ==
  ASSUME NEW e \in Errors
  PROVE  /\ ErrorReply(e).status >= 400
         /\ ErrorReply(Capture(e)) = Panicked \/ ErrorReply(Capture(e)).status >= 400
         /\ ErrorReply(e).status # 200 /\ ErrorReply(Capture(e)).status # 200
BY DEF Errors, ErrorReply, Capture, Panicked

\* A sequence is a prefix of itself, the empty one of every sequence, and one
\* that is not all of it with the next element.
LEMMA PrefixGrows ==
  ASSUME NEW S, NEW s \in Seq(S)
  PROVE  /\ IsPrefix(<<>>, s) /\ IsPrefix(s, s)
         /\ \A d \in Seq(S) : IsPrefix(d, s) /\ Len(d) < Len(s) =>
              s[Len(d) + 1] \in S /\ IsPrefix(Append(d, s[Len(d) + 1]), s)
<1>1. IsPrefix(s, s)
  BY LenProperties DEF IsPrefix
<1>2. IsPrefix(<<>>, s)
  <2>1. Len(<<>>) = 0 /\ Len(s) \in Nat
    BY LenProperties
  <2>2. SubSeq(<<>>, 1, 0) = <<>> /\ SubSeq(s, 1, 0) = <<>>
    BY SubSeqEmpty
  <2> QED BY <2>1, <2>2 DEF IsPrefix
<1>3. ASSUME NEW d \in Seq(S), IsPrefix(d, s), Len(d) < Len(s)
      PROVE  s[Len(d) + 1] \in S /\ IsPrefix(Append(d, s[Len(d) + 1]), s)
  <2>1. PICK n \in Nat : n = Len(d)
    BY LenProperties
  <2>2. n + 1 \in 1..Len(s) /\ Len(s) \in Nat /\ s[n + 1] \in S
    BY <1>3, <2>1, LenProperties, ElementOfSeq
  <2>3. PICK e : e = Append(d, s[n + 1])
    OBVIOUS
  <2>4. /\ e \in Seq(S) /\ Len(e) = n + 1 /\ e[n + 1] = s[n + 1]
        /\ \A i \in 1..n : e[i] = d[i]
    BY <2>1, <2>2, <2>3, AppendProperties
  <2>5. \A i \in 1..n : d[i] = s[i]
    <3>1. SubSeq(d, 1, n) = SubSeq(s, 1, n)
      BY <1>3, <2>1 DEF IsPrefix
    <3>2. \A i \in 1..n : SubSeq(d, 1, n)[i] = d[i]
      BY <2>1, SubSeqFull
    <3>3. \A i \in 1..n : s[i] \in S
      BY <2>2, ElementOfSeq
    <3>4. \A i \in 1..n : SubSeq(s, 1, n)[i] = s[i]
      <4>1. 1 \in Int /\ n \in Int /\ n - 1 + 1 = n /\ \A i \in 1..n : 1 + i - 1 = i
        BY <2>1
      <4>2. \A i \in 1..n-1+1 : SubSeq(s, 1, n)[i] = s[1 + i - 1]
        BY <3>3, <4>1, SubSeqProperties
      <4> QED BY <4>1, <4>2
    <3> QED BY <3>1, <3>2, <3>4
  <2>6. \A i \in 1..n+1 : e[i] = s[i]
    BY <2>4, <2>5
  <2>7. SubSeq(e, 1, n + 1) = e
    BY <2>4, SubSeqFull
  <2>8. SubSeq(s, 1, n + 1) = e
    <3>1. PICK u : u = SubSeq(s, 1, n + 1)
      OBVIOUS
    <3>2. \A i \in 1..n+1 : s[i] \in S
      BY <2>2, ElementOfSeq
    <3>3. /\ u \in Seq(S) /\ Len(u) = n + 1 /\ \A i \in 1..n+1 : u[i] = s[i]
      <4>1. /\ 1 \in Int /\ n + 1 \in Int /\ (n + 1) - 1 + 1 = n + 1 /\ 1 <= n + 1
            /\ \A i \in 1..n+1 : 1 + i - 1 = i
        BY <2>1
      <4>2. /\ SubSeq(s, 1, n + 1) \in Seq(S)
            /\ Len(SubSeq(s, 1, n + 1)) = IF 1 <= n + 1 THEN (n + 1) - 1 + 1 ELSE 0
            /\ \A i \in 1..(n + 1)-1+1 : SubSeq(s, 1, n + 1)[i] = s[1 + i - 1]
        BY <3>2, <4>1, SubSeqProperties
      <4> QED BY <3>1, <4>1, <4>2
    <3> QED BY <2>4, <2>6, <3>1, <3>3, SeqEqual
  <2>9. IsPrefix(e, s)
    <3>1. Len(e) <= Len(s) BY <2>2, <2>4
    <3> QED BY <2>4, <2>7, <2>8, <3>1 DEF IsPrefix
  <2> QED BY <2>1, <2>2, <2>3, <2>9
<1> QED BY <1>1, <1>2, <1>3

\* One query goes on, the others stay.
LEMMA OneQuery ==
  ASSUME QueriesInv, NEW t \in Tasks, DOMAIN query' = Tasks,
         \A u \in Tasks : u # t => query'[u] = query[u], QueryOK(query'[t])
  PROVE  QueriesInv'
<1>1. \A u \in Tasks : QueryOK(query'[u])
  <2> SUFFICES ASSUME NEW u \in Tasks, u # t PROVE QueryOK(query'[u])
    OBVIOUS
  <2> QED BY DEF QueriesInv
<1> QED BY <1>1 DEF QueriesInv

\* Steps of a query.  A client asks,
LEMMA AskStep == ASSUME QueriesInv, NEW t \in Tasks, Ask(t) PROVE QueriesInv'
<1>1. PICK r \in QueryRequests :
        query' = [query EXCEPT ![t] = [NoQuery EXCEPT !.state = "init", !.req = {r},
                                                      !.count = query[t].count + 1]]
  BY DEF Ask
<1>2. query[t].count < MaxQueries /\ QueryOK(query[t])
  BY DEF Ask, QueriesInv
<1>3. DOMAIN query' = Tasks /\ \A u \in Tasks : u # t => query'[u] = query[u]
  BY <1>1 DEF QueriesInv
<1>4. PICK n : n = [state |-> "init", count |-> query[t].count + 1, req |-> {r}, job |-> "none",
                    ops |-> <<>>, done |-> <<>>, raised |-> {}, reply |-> {}]
  OBVIOUS
<1>5. query'[t] = n
  BY <1>1, <1>4 DEF QueriesInv, NoQuery
<1>6. n.count \in 0..MaxQueries
  BY <1>2, <1>4, QueriesAssumption DEF QueryOK
<1>7. <<>> \in Seq(Texts) /\ IsPrefix(<<>>, <<>>)
  BY EmptySeq, PrefixGrows
<1>8. QueryOK(n)
  BY <1>4, <1>6, <1>7 DEF QueryOK, QueryFields
<1> QED BY <1>3, <1>5, <1>8, OneQuery

\* its handle returns an error before anything was executed,
LEMMA RaiseStep ==
  ASSUME QueriesInv, NEW t \in Tasks, NEW e \in Errors,
         query[t].state \in {"init", "receive", "call"}, Raise(t, e)
  PROVE  QueriesInv'
<1>1. PICK q : q = query[t]
  OBVIOUS
<1>2. PICK r : r = ErrorReply(IF captured THEN Capture(e) ELSE e)
  OBVIOUS
<1>3. PICK n : n = query'[t]
  OBVIOUS
<1>4. QueryOK(q) /\ DOMAIN q = QueryFields
  BY <1>1 DEF QueriesInv, QueryOK
<1>5. query' = [query EXCEPT ![t].state = "idle", ![t].raised = {e}, ![t].reply = {r}]
  BY <1>2 DEF Raise
<1>6. DOMAIN query' = Tasks /\ \A u \in Tasks : u # t => query'[u] = query[u]
  BY <1>5 DEF QueriesInv
<1>7. n = [[[q EXCEPT !.state = "idle"] EXCEPT !.raised = {e}] EXCEPT !.reply = {r}]
  BY <1>1, <1>3, <1>5 DEF QueriesInv
<1>8. /\ DOMAIN n = QueryFields /\ n.state = "idle" /\ n.raised = {e} /\ n.reply = {r}
      /\ n.count = q.count /\ n.req = q.req /\ n.job = q.job /\ n.ops = q.ops /\ n.done = q.done
  <2>1. DOMAIN n = QueryFields
    BY <1>4, <1>7
  <2>2. n.state = "idle" /\ n.raised = {e} /\ n.reply = {r}
    BY <1>4, <1>7 DEF QueryFields
  <2>3. /\ n.count = q.count /\ n.req = q.req /\ n.job = q.job
        /\ n.ops = q.ops /\ n.done = q.done
    BY <1>4, <1>7 DEF QueryFields
  <2> QED BY <2>1, <2>2, <2>3
<1>9. r.status # 200 /\ (r = Panicked \/ r.status >= 400)
  <2>1. CASE captured
    <3>1. r = ErrorReply(Capture(e)) BY <1>2, <2>1
    <3> QED BY <3>1, ErrorTold
  <2>2. CASE ~captured
    <3>1. r = ErrorReply(e) BY <1>2, <2>2
    <3> QED BY <3>1, ErrorTold
  <2> QED BY <2>1, <2>2
<1>10. q.job = "none" /\ q.done = <<>>
  BY <1>1, <1>4 DEF QueryOK
<1>11. QueryOK(n)
  BY <1>4, <1>8, <1>9, <1>10 DEF QueryOK, TrueOf
<1> QED BY <1>3, <1>6, <1>11, OneQuery

\* or it goes on with what the extractor made,
LEMMA ContinueStep ==
  ASSUME QueriesInv, NEW t \in Tasks, NEW p, Parsed(p),
         query[t].state \in {"init", "receive"}, Continue(t, p)
  PROVE  QueriesInv'
<1>1. PICK q : q = query[t]
  OBVIOUS
<1>2. QueryOK(q) /\ DOMAIN q = QueryFields
  BY <1>1 DEF QueriesInv, QueryOK
<1>3. PICK n : n = query'[t]
  OBVIOUS
<1>4. CASE p.is = "err" /\ Raise(t, p.err)
  BY <1>4, RaiseStep DEF Parsed
<1>5. CASE p.is = "ops" /\ query' = [query EXCEPT ![t].state = "call", ![t].ops = p.ops]
  <2>1. DOMAIN query' = Tasks /\ \A u \in Tasks : u # t => query'[u] = query[u]
    BY <1>5 DEF QueriesInv
  <2>2. n = [[q EXCEPT !.state = "call"] EXCEPT !.ops = p.ops]
    BY <1>1, <1>3, <1>5 DEF QueriesInv
  <2>3. /\ DOMAIN n = QueryFields /\ n.state = "call" /\ n.ops = p.ops /\ n.done = q.done
        /\ n.count = q.count /\ n.req = q.req /\ n.job = q.job /\ n.raised = q.raised /\ n.reply = q.reply
    BY <1>2, <2>2 DEF QueryFields
  <2>4. n.ops \in Seq(Texts) /\ IsPrefix(<<>>, n.ops)
    BY <1>5, <2>3, PrefixGrows DEF Parsed
  <2>5. q.job = "none" /\ q.done = <<>> /\ q.raised = {} /\ q.reply = {}
    BY <1>1, <1>2 DEF QueryOK
  <2>6. QueryOK(n)
    BY <1>2, <2>3, <2>4, <2>5 DEF QueryOK
  <2> QED BY <1>3, <2>1, <2>6, OneQuery
<1>6. CASE query' = [query EXCEPT ![t].state = "receive"]
  <2>1. DOMAIN query' = Tasks /\ \A u \in Tasks : u # t => query'[u] = query[u]
    BY <1>6 DEF QueriesInv
  <2>2. n = [q EXCEPT !.state = "receive"]
    BY <1>1, <1>3, <1>6 DEF QueriesInv
  <2>3. /\ DOMAIN n = QueryFields /\ n.state = "receive" /\ n.ops = q.ops /\ n.done = q.done
        /\ n.count = q.count /\ n.req = q.req /\ n.job = q.job /\ n.raised = q.raised /\ n.reply = q.reply
    BY <1>2, <2>2 DEF QueryFields
  <2>4. QueryOK(n)
    BY <1>1, <1>2, <2>3 DEF QueryOK
  <2> QED BY <1>3, <2>1, <2>4, OneQuery
<1> QED BY <1>4, <1>5, <1>6 DEF Continue

\* at once or when its body is in.
LEMMA ParseStep ==
  ASSUME QueriesInv, NEW t \in Tasks, PollInit(t) \/ Receive(t)
  PROVE  QueriesInv'
<1>1. query[t].req \subseteq QueryRequests
  BY DEF QueriesInv, QueryOK
<1>2. CASE PollInit(t)
  BY <1>1, <1>2, ExtractParses, ContinueStep DEF PollInit
<1>3. CASE Receive(t)
  <2>1. OtherError(500) \in Errors
    BY DEF OtherError, Errors
  <2> QED BY <1>1, <1>3, <2>1, DecodeParses, ContinueStep, RaiseStep DEF Receive
<1> QED BY <1>2, <1>3

\* The handler spawns a task that has executed nothing,
LEMMA CallHandlerStep == ASSUME QueriesInv, NEW t \in Tasks, CallHandler(t) PROVE QueriesInv'
<1>1. PICK q : q = query[t]
  OBVIOUS
<1>2. QueryOK(q) /\ DOMAIN q = QueryFields /\ q.state = "call"
  BY <1>1 DEF QueriesInv, QueryOK, CallHandler
<1>3. PICK n : n = query'[t]
  OBVIOUS
<1>4. CASE Raise(t, OtherError(401))
  <2>1. OtherError(401) \in Errors
    BY DEF OtherError, Errors
  <2> QED BY <1>1, <1>2, <1>4, <2>1, RaiseStep
<1>5. CASE query' = [query EXCEPT ![t].state = "spawned", ![t].job = "queued"]
  <2>1. DOMAIN query' = Tasks /\ \A u \in Tasks : u # t => query'[u] = query[u]
    BY <1>5 DEF QueriesInv
  <2>2. n = [[q EXCEPT !.state = "spawned"] EXCEPT !.job = "queued"]
    BY <1>1, <1>3, <1>5 DEF QueriesInv
  <2>3. /\ DOMAIN n = QueryFields /\ n.state = "spawned" /\ n.ops = q.ops /\ n.done = q.done
        /\ n.count = q.count /\ n.req = q.req /\ n.job = "queued" /\ n.raised = q.raised /\ n.reply = q.reply
    BY <1>2, <2>2 DEF QueryFields
  <2>4. QueryOK(n)
    BY <1>2, <2>3 DEF QueryOK
  <2> QED BY <1>3, <2>1, <2>4, OneQuery
<1> QED BY <1>4, <1>5 DEF CallHandler

\* which executes one operation after the other
LEMMA ExecuteStep == ASSUME QueriesInv, NEW t \in Tasks, Execute(t) PROVE QueriesInv'
<1>1. PICK q : q = query[t]
  OBVIOUS
<1>2. QueryOK(q) /\ DOMAIN q = QueryFields /\ q.job = "running" /\ Len(q.done) < Len(q.ops)
  BY <1>1 DEF QueriesInv, QueryOK, Execute
<1>3. PICK d : d = Append(q.done, q.ops[Len(q.done) + 1])
  OBVIOUS
<1>4. PICK n : n = query'[t]
  OBVIOUS
<1>5. query' = [query EXCEPT ![t].done = d]
  BY <1>1, <1>3 DEF Execute
<1>6. DOMAIN query' = Tasks /\ \A u \in Tasks : u # t => query'[u] = query[u]
  BY <1>5 DEF QueriesInv
<1>7. n = [q EXCEPT !.done = d]
  BY <1>1, <1>4, <1>5 DEF QueriesInv
<1>8. /\ DOMAIN n = QueryFields /\ n.state = q.state /\ n.ops = q.ops /\ n.done = d
      /\ n.count = q.count /\ n.req = q.req /\ n.job = q.job /\ n.raised = q.raised /\ n.reply = q.reply
  BY <1>2, <1>7 DEF QueryFields
<1>9. d \in Seq(Texts) /\ IsPrefix(d, q.ops)
  <2>1. q.ops \in Seq(Texts) /\ q.done \in Seq(Texts) /\ IsPrefix(q.done, q.ops)
    BY <1>2 DEF QueryOK
  <2>2. q.ops[Len(q.done) + 1] \in Texts /\ IsPrefix(d, q.ops)
    BY <1>2, <1>3, <2>1, PrefixGrows
  <2> QED BY <1>3, <2>1, <2>2, AppendProperties
<1>10. QueryOK(n)
  BY <1>2, <1>8, <1>9 DEF QueryOK
<1> QED BY <1>4, <1>6, <1>10, OneQuery

\* and begins, ends, is cancelled or fails.
LEMMA JobStep ==
  ASSUME QueriesInv, NEW t \in Tasks,
         StartJob(t) \/ FinishJob(t) \/ CancelJob(t) \/ FailJob(t)
  PROVE  QueriesInv'
<1>1. PICK q : q = query[t]
  OBVIOUS
<1>2. QueryOK(q) /\ DOMAIN q = QueryFields
  BY <1>1 DEF QueriesInv, QueryOK
<1>3. PICK n : n = query'[t]
  OBVIOUS
<1>4. PICK job : /\ JobTo(t, job) /\ q.job \in {"queued", "running"}
                 /\ \/ job = "running" /\ q.state = "spawned"
                    \/ job = "finished" /\ q.done = q.ops /\ q.state = "spawned"
                    \/ job = "none" /\ q.done \in {<<>>, q.ops}
                    \/ job = "failed" /\ q.done = <<>> /\ q.state = "spawned"
  <2>1. q.job = "queued" => q.done = <<>>
    BY <1>2 DEF QueryOK
  <2>2. CASE StartJob(t)
    BY <1>1, <2>2 DEF StartJob
  <2>3. CASE FinishJob(t)
    BY <1>1, <2>3 DEF FinishJob
  <2>4. CASE CancelJob(t)
    BY <1>1, <2>1, <2>4 DEF CancelJob
  <2>5. CASE FailJob(t)
    BY <1>1, <2>1, <2>5 DEF FailJob
  <2> QED BY <2>2, <2>3, <2>4, <2>5
<1>5. query' = [query EXCEPT ![t].job = job]
  BY <1>4 DEF JobTo
<1>6. DOMAIN query' = Tasks /\ \A u \in Tasks : u # t => query'[u] = query[u]
  BY <1>5 DEF QueriesInv
<1>7. n = [q EXCEPT !.job = job]
  BY <1>1, <1>3, <1>5 DEF QueriesInv
<1>8. /\ DOMAIN n = QueryFields /\ n.state = q.state /\ n.ops = q.ops /\ n.done = q.done
      /\ n.count = q.count /\ n.req = q.req /\ n.job = job /\ n.raised = q.raised /\ n.reply = q.reply
  BY <1>2, <1>7 DEF QueryFields
<1>9. q.raised = {} /\ q.reply = {} /\ q.state \in {"spawned", "idle"}
  BY <1>2, <1>4 DEF QueryOK
<1>10. QueryOK(n)
  BY <1>2, <1>4, <1>8, <1>9 DEF QueryOK
<1> QED BY <1>3, <1>6, <1>10, OneQuery

\* The handle is resolved, and what it replies is true.
LEMMA PollHandleStep == ASSUME QueriesInv, NEW t \in Tasks, PollHandle(t) PROVE QueriesInv'
<1>1. PICK q : q = query[t]
  OBVIOUS
<1>2. QueryOK(q) /\ DOMAIN q = QueryFields /\ q.job \in {"finished", "failed"}
  BY <1>1 DEF QueriesInv, QueryOK, PollHandle
<1>3. PICK r : r = IF q.job = "finished"
                   THEN [status |-> ExecutionStatus(q.done), json |-> TRUE]
                   ELSE ErrorReply(OtherError(500))
  OBVIOUS
<1>4. PICK n : n = query'[t]
  OBVIOUS
<1>5. query' = [query EXCEPT ![t].state = "idle", ![t].job = "none", ![t].reply = {r}]
  BY <1>1, <1>3 DEF PollHandle
<1>6. DOMAIN query' = Tasks /\ \A u \in Tasks : u # t => query'[u] = query[u]
  BY <1>5 DEF QueriesInv
<1>7. n = [[[q EXCEPT !.state = "idle"] EXCEPT !.job = "none"] EXCEPT !.reply = {r}]
  BY <1>1, <1>4, <1>5 DEF QueriesInv
<1>8. /\ DOMAIN n = QueryFields /\ n.state = "idle" /\ n.job = "none" /\ n.reply = {r}
      /\ n.count = q.count /\ n.req = q.req /\ n.raised = q.raised /\ n.ops = q.ops /\ n.done = q.done
  BY <1>2, <1>7 DEF QueryFields
<1>9. q.raised = {} /\ (q.job = "finished" => q.done = q.ops) /\ (q.job = "failed" => q.done = <<>>)
  BY <1>2 DEF QueryOK
<1>10. TrueOf(n, r)
  <2>1. CASE q.job = "finished"
    <3>1. r.status = 200 => \A i \in DOMAIN q.ops : Succeeds(q.ops[i])
      BY <1>3, <1>9, <2>1 DEF ExecutionStatus
    <3> QED BY <1>8, <1>9, <2>1, <3>1 DEF TrueOf
  <2>2. CASE q.job = "failed"
    <3>1. r.status = 500
      BY <1>3, <2>2 DEF ErrorReply, OtherError
    <3> QED BY <1>8, <1>9, <3>1 DEF TrueOf
  <2> QED BY <1>2, <2>1, <2>2
<1>11. QueryOK(n)
  BY <1>2, <1>8, <1>9, <1>10 DEF QueryOK
<1> QED BY <1>4, <1>6, <1>11, OneQuery

\* The client leaves, and what runs for it runs on.
LEMMA HangUpStep == ASSUME QueriesInv, NEW t \in Tasks, HangUp(t) PROVE QueriesInv'
<1>1. PICK q : q = query[t]
  OBVIOUS
<1>2. QueryOK(q) /\ DOMAIN q = QueryFields /\ q.state \in {"receive", "spawned"}
  BY <1>1 DEF QueriesInv, QueryOK, HangUp
<1>3. PICK job : job = IF q.job \in {"finished", "failed"} THEN "none" ELSE q.job
  OBVIOUS
<1>4. PICK n : n = query'[t]
  OBVIOUS
<1>5. query' = [query EXCEPT ![t].state = "idle", ![t].job = job]
  BY <1>1, <1>2, <1>3 DEF HangUp, QueriesInv, QueryFields
<1>6. DOMAIN query' = Tasks /\ \A u \in Tasks : u # t => query'[u] = query[u]
  BY <1>5 DEF QueriesInv
<1>7. n = [[q EXCEPT !.state = "idle"] EXCEPT !.job = job]
  BY <1>1, <1>4, <1>5 DEF QueriesInv
<1>8. /\ DOMAIN n = QueryFields /\ n.state = "idle" /\ n.ops = q.ops /\ n.done = q.done
      /\ n.count = q.count /\ n.req = q.req /\ n.job = job /\ n.raised = q.raised /\ n.reply = q.reply
  BY <1>2, <1>7 DEF QueryFields
<1>9. /\ q.raised = {} /\ q.reply = {} /\ (job = "none" => q.done \in {<<>>, q.ops})
      /\ job \in {"none", "queued", "running"} /\ (job = "queued" => q.done = <<>>)
  BY <1>2, <1>3 DEF QueryOK
<1>10. QueryOK(n)
  BY <1>2, <1>8, <1>9 DEF QueryOK
<1> QED BY <1>4, <1>6, <1>10, OneQuery

\* Every step of a query keeps the invariants of the queries and of the pool.
LEMMA QueryStepKeeps ==
  ASSUME QueriesInv, PoolInv, NEW t \in Tasks, QueryStep(t)
  PROVE  QueriesInv' /\ PoolInv'
<1>1. CASE (Ask(t) \/ PollQuery(t) \/ Receive(t) \/ HangUp(t)) /\ UNCHANGED poolVars
  BY <1>1, PoolStays, AskStep, ParseStep, CallHandlerStep, PollHandleStep, HangUpStep DEF PollQuery
<1>2. CASE PollJob(t)
  <2>1. UNCHANGED queryVars => QueriesInv'
    BY DEF queryVars, QueriesInv
  <2> QED BY <1>2, <2>1, PoolStays, EnterStep, WaitStep, LeaveStep, DroppedStep, JobStep, ExecuteStep
       DEF PollJob
<1> QED BY <1>1, <1>2 DEF QueryStep

-----------------------------------------------------------------------------
(* Files. *)

\* A sequence of bounded length is one whose length is bounded.
LEMMA Bounded ==
  ASSUME NEW S, NEW n \in Nat, NEW s
  PROVE  s \in BoundedSeq(S, n) <=> s \in Seq(S) /\ Len(s) <= n
<1>1. ASSUME s \in BoundedSeq(S, n) PROVE s \in Seq(S) /\ Len(s) <= n
  <2>1. PICK m \in 0..n : s \in [1..m -> S]
    BY <1>1 DEF BoundedSeq, SeqOf
  <2>2. s \in Seq(S)
    BY <2>1, SeqDef
  <2>3. DOMAIN s = 1..m /\ DOMAIN s = 1..Len(s) /\ Len(s) \in Nat
    BY <2>1, <2>2, LenProperties
  <2> QED BY <2>1, <2>2, <2>3
<1>2. ASSUME s \in Seq(S), Len(s) <= n PROVE s \in BoundedSeq(S, n)
  <2>1. Len(s) \in 0..n /\ s \in [1..Len(s) -> S]
    BY <1>2, LenProperties
  <2> QED BY <2>1 DEF BoundedSeq, SeqOf
<1> QED BY <1>1, <1>2

\* The bytes of a file
LEMMA DiskFacts ==
  ASSUME FilesInv, NEW i \in Inodes
  PROVE  /\ disk[i].mtime \in Nat /\ disk[i].mtime < clock
         /\ disk[i].data \in Seq(0..MaxTick) /\ disk[i].data \in Seq(Nat)
         /\ Len(disk[i].data) \in Nat /\ Len(disk[i].data) <= MaxLen
         /\ DOMAIN disk[i].data = 1..Len(disk[i].data)
         /\ MaxTick \in Nat /\ MaxLen \in Nat /\ clock \in Nat /\ clock <= MaxTick
<1>1. /\ disk[i].mtime \in 0..MaxTick /\ disk[i].data \in BoundedSeq(0..MaxTick, MaxLen)
      /\ disk[i].mtime < clock /\ clock \in 1..MaxTick /\ MaxTick \in Nat /\ MaxLen \in Nat
  BY FilesAssumption DEF FilesInv, Disks, TimesDiffer
<1>2. disk[i].data \in Seq(0..MaxTick) /\ Len(disk[i].data) <= MaxLen
  BY <1>1, Bounded
<1>3. disk[i].data \in Seq(Nat)
  <2>1. 0..MaxTick \subseteq Nat BY <1>1
  <2> QED BY <1>2, <2>1, SeqMonotonic
<1>4. Len(disk[i].data) \in Nat /\ DOMAIN disk[i].data = 1..Len(disk[i].data)
  BY <1>2, LenProperties
<1> QED BY <1>1, <1>2, <1>3, <1>4

\* A file is written to: what was told of its old time is told no more.
LEMMA WriteStep ==
  ASSUME FilesInv, NEW i \in Inodes, NEW data \in BoundedSeq(0..MaxTick, MaxLen), Tick,
         disk' = [disk EXCEPT ![i] = [mtime |-> clock, data |-> data]],
         UNCHANGED <<at, zone, chunk, site, fetch, cache>>
  PROVE  FilesInv'
<1>1. clock \in 1..MaxTick /\ clock' = clock + 1 /\ clock' \in 1..MaxTick /\ clock \in Nat
  BY FilesAssumption DEF FilesInv, Tick
<1>2. /\ disk'[i] = [mtime |-> clock, data |-> data]
      /\ \A j \in Inodes : j # i => disk'[j] = disk[j]
  BY DEF FilesInv, Disks
<1>3. disk' \in Disks
  BY <1>1, FilesAssumption DEF FilesInv, Disks
<1>4. \A j \in Inodes : disk[j].mtime \in Nat /\ disk[j].mtime < clock
  BY DiskFacts
<1>5. TimesDiffer(disk', clock')
  BY <1>1, <1>2, <1>4 DEF TimesDiffer, FilesInv
<1>6. \A j \in Inodes, k \in Nat : k < clock /\ disk'[j].mtime = k => j # i /\ disk[j].mtime = k
  BY <1>1, <1>2
<1>7. ASSUME NEW t \in Tasks
      PROVE  FetchOK(fetch[t], disk', clock', cache[t])
  <2>1. FetchOK(fetch[t], disk, clock, cache[t])
    BY DEF FilesInv
  <2>2. \A m \in fetch[t].meta : m.mtime \in Nat /\ m.mtime < clock /\ m.mtime < clock'
    BY <1>1, <2>1 DEF FetchOK
  <2>3. InStep(fetch[t], disk) => InStep(fetch[t], disk')
    BY <1>2, <1>6, <2>2 DEF InStep
  <2> QED BY <2>1, <2>2, <2>3 DEF FetchOK
<1>8. ASSUME NEW t \in Tasks, NEW c \in cache[t]
      PROVE  CopyOK(c, disk', clock', zone)
  <2>1. CopyOK(c, disk, clock, zone)
    BY DEF FilesInv
  <2>2. c.mtime \in Nat /\ c.mtime < clock /\ c.mtime < clock'
    BY <1>1, <2>1 DEF CopyOK
  <2>3. \A j \in Inodes : disk'[j].mtime = c.mtime => disk'[j].data = c.data
    BY <1>2, <1>6, <2>1, <2>2 DEF CopyOK
  <2> QED BY <2>1, <2>2, <2>3 DEF CopyOK
<1>9. \A t \in Tasks :
        /\ FetchOK(fetch'[t], disk', clock', cache'[t])
        /\ \A b, c \in cache'[t] : b = c
        /\ \A c \in cache'[t] : CopyOK(c, disk', clock', zone')
  BY <1>7, <1>8 DEF FilesInv
<1>10. /\ at' \subseteq Inodes /\ (\A k, j \in at' : k = j) /\ zone' \in Int /\ chunk' \in Nat
       /\ DOMAIN site' = {"state", "dir", "routes"}
       /\ site'.state \in {"setup", "built", "misconfigured"}
       /\ DOMAIN fetch' = Tasks /\ DOMAIN cache' = Tasks
  BY DEF FilesInv
<1> HIDE DEF Tick
<1> QED BY <1>1, <1>3, <1>5, <1>9, <1>10 DEF FilesInv

\* Time passes, and another file may be at the path.
LEMMA MoveStep ==
  ASSUME FilesInv, Tick, at' \subseteq Inodes, \A i, j \in at' : i = j,
         UNCHANGED <<disk, zone, chunk, site, fetch, cache>>
  PROVE  FilesInv'
<1>1. clock' \in 1..MaxTick /\ clock \in Nat /\ clock' = clock + 1
  BY FilesAssumption DEF FilesInv, Tick
<1>2. \A i \in Inodes : disk[i].mtime \in Nat /\ disk[i].mtime < clock
  BY DiskFacts
<1>3. TimesDiffer(disk', clock')
  BY <1>1, <1>2 DEF FilesInv, TimesDiffer
<1>4. ASSUME NEW t \in Tasks
      PROVE  FetchOK(fetch[t], disk, clock', cache[t])
  <2>1. FetchOK(fetch[t], disk, clock, cache[t])
    BY DEF FilesInv
  <2>2. \A m \in fetch[t].meta : m.mtime \in Nat /\ m.mtime < clock'
    BY <1>1, <2>1 DEF FetchOK
  <2> QED BY <2>1, <2>2 DEF FetchOK
<1>5. ASSUME NEW t \in Tasks, NEW c \in cache[t]
      PROVE  CopyOK(c, disk, clock', zone)
  <2>1. CopyOK(c, disk, clock, zone)
    BY DEF FilesInv
  <2>2. c.mtime \in Nat /\ c.mtime < clock'
    BY <1>1, <2>1 DEF CopyOK
  <2> QED BY <2>1, <2>2 DEF CopyOK
<1>6. \A t \in Tasks :
        /\ FetchOK(fetch'[t], disk', clock', cache'[t])
        /\ \A b, c \in cache'[t] : b = c
        /\ \A c \in cache'[t] : CopyOK(c, disk', clock', zone')
  BY <1>4, <1>5 DEF FilesInv
<1>7. /\ disk' \in Disks /\ zone' \in Int /\ chunk' \in Nat
      /\ DOMAIN site' = {"state", "dir", "routes"}
      /\ site'.state \in {"setup", "built", "misconfigured"}
      /\ DOMAIN fetch' = Tasks /\ DOMAIN cache' = Tasks
  BY DEF FilesInv
<1> HIDE DEF Tick
<1> QED BY <1>1, <1>3, <1>6, <1>7 DEF FilesInv

\* Whoever changes a file, what was read of it and the copies of it stay true.
LEMMA ChangeStep == FilesInv /\ Change => FilesInv'
<1> SUFFICES ASSUME FilesInv, Change PROVE FilesInv'
  OBVIOUS
<1>1. CASE Unlink
  BY <1>1, MoveStep DEF Unlink
<1>2. ASSUME NEW i \in Inodes, Truncate(i) \/ Extend(i) \/ Overwrite(i) \/ Move(i)
      PROVE  FilesInv'
  <2>0. /\ disk[i].data \in Seq(0..MaxTick) /\ Len(disk[i].data) \in Nat /\ Len(disk[i].data) <= MaxLen
        /\ DOMAIN disk[i].data = 1..Len(disk[i].data) /\ MaxLen \in Nat /\ clock \in 0..MaxTick
        /\ DOMAIN disk = Inodes /\ DOMAIN disk[i] = {"mtime", "data"}
    BY DiskFacts DEF FilesInv, Disks
  <2>1. CASE Truncate(i)
    <3>1. <<>> \in BoundedSeq(0..MaxTick, MaxLen)
      <4>1. <<>> \in Seq(0..MaxTick) /\ Len(<<>>) <= MaxLen
        BY <2>0, EmptySeq
      <4> QED BY <2>0, <4>1, Bounded
    <3> QED BY <2>1, <3>1, WriteStep DEF Truncate
  <2>2. CASE Extend(i)
    <3>1. PICK d : d = Append(disk[i].data, clock)
      OBVIOUS
    <3>2. d \in Seq(0..MaxTick) /\ Len(d) = Len(disk[i].data) + 1
      BY <2>0, <3>1, AppendProperties
    <3>3. d \in BoundedSeq(0..MaxTick, MaxLen)
      BY <2>0, <2>2, <3>2, Bounded DEF Extend
    <3>4. disk' = [disk EXCEPT ![i] = [mtime |-> clock, data |-> d]]
      BY <2>0, <2>2, <3>1 DEF Extend
    <3> QED BY <2>2, <3>3, <3>4, WriteStep DEF Extend
  <2>3. CASE Overwrite(i)
    <3>1. PICK n \in DOMAIN disk[i].data :
            disk' = [disk EXCEPT ![i] = [mtime |-> clock, data |-> [disk[i].data EXCEPT ![n] = clock]]]
      BY <2>0, <2>3 DEF Overwrite
    <3>2. PICK d : d = [disk[i].data EXCEPT ![n] = clock]
      OBVIOUS
    <3>3. d \in Seq(0..MaxTick) /\ Len(d) = Len(disk[i].data)
      BY <2>0, <3>1, <3>2, ExceptSeq
    <3>4. d \in BoundedSeq(0..MaxTick, MaxLen)
      BY <2>0, <3>3, Bounded
    <3> QED BY <2>3, <3>1, <3>2, <3>4, WriteStep DEF Overwrite
  <2>4. CASE Move(i)
    BY <2>4, MoveStep DEF Move
  <2> QED BY <1>2, <2>1, <2>2, <2>3, <2>4
<1> QED BY <1>1, <1>2 DEF Change

\* The directory becomes routes, or an error.
LEMMA ConfigureStep == FilesInv /\ ConfigureFiles => FilesInv'
<1> SUFFICES ASSUME FilesInv, ConfigureFiles PROVE FilesInv'
  OBVIOUS
<1>1. UNCHANGED <<disk, at, clock, zone, chunk, fetch, cache>>
  BY DEF ConfigureFiles
<1>2. DOMAIN site' = {"state", "dir", "routes"} /\ site'.state \in {"built", "misconfigured"}
  BY DEF FilesInv, ConfigureFiles
<1>3. \A t \in Tasks :
        /\ FetchOK(fetch'[t], disk', clock', cache'[t])
        /\ \A b, c \in cache'[t] : b = c
        /\ \A c \in cache'[t] : CopyOK(c, disk', clock', zone')
  BY <1>1 DEF FilesInv
<1>4. /\ disk' \in Disks /\ TimesDiffer(disk', clock') /\ at' \subseteq Inodes
      /\ (\A i, j \in at' : i = j) /\ clock' \in 1..MaxTick /\ zone' \in Int /\ chunk' \in Nat
      /\ DOMAIN fetch' = Tasks /\ DOMAIN cache' = Tasks
  BY <1>1 DEF FilesInv
<1> QED BY <1>2, <1>3, <1>4 DEF FilesInv

\* One request goes on, the others and the files stay.
LEMMA OneFetch ==
  ASSUME FilesInv, NEW t \in Tasks, DOMAIN fetch' = Tasks,
         \A u \in Tasks : u # t => fetch'[u] = fetch[u],
         FetchOK(fetch'[t], disk, clock, cache[t]),
         UNCHANGED <<disk, at, clock, zone, chunk, site, cache>>
  PROVE  FilesInv'
<1>1. \A u \in Tasks : FetchOK(fetch'[u], disk, clock, cache[u])
  <2> SUFFICES ASSUME NEW u \in Tasks, u # t PROVE FetchOK(fetch'[u], disk, clock, cache[u])
    OBVIOUS
  <2> QED BY DEF FilesInv
<1>2. \A u \in Tasks :
        /\ FetchOK(fetch'[u], disk', clock', cache'[u])
        /\ \A b, c \in cache'[u] : b = c
        /\ \A c \in cache'[u] : CopyOK(c, disk', clock', zone')
  BY <1>1 DEF FilesInv
<1>3. /\ disk' \in Disks /\ TimesDiffer(disk', clock') /\ at' \subseteq Inodes
      /\ (\A i, j \in at' : i = j) /\ clock' \in 1..MaxTick /\ zone' \in Int /\ chunk' \in Nat
      /\ DOMAIN site' = {"state", "dir", "routes"}
      /\ site'.state \in {"setup", "built", "misconfigured"} /\ DOMAIN cache' = Tasks
  BY DEF FilesInv
<1> QED BY <1>2, <1>3 DEF FilesInv

\* A request that is over
Over(count, how) == [Idle EXCEPT !.count = count, !.status = how]

\* is at no file.
LEMMA OverOK ==
  ASSUME NEW count, NEW how \in {0, 200, 304, 400, 403, 404, 500}, NEW d, NEW now, NEW copies
  PROVE  FetchOK(Over(count, how), d, now, copies) /\ Over(count, how).status = how
<1>0. PICK f : f = Over(count, how)
  OBVIOUS
<1>1. /\ DOMAIN f = FetchFields /\ f.state = "idle" /\ f.status = how /\ f.body = <<>>
      /\ f.fd = {} /\ f.meta = {} /\ f.pos = 0
  BY <1>0 DEF Over, Idle, FetchFields
<1>2. <<>> \in Seq(Nat) /\ Len(<<>>) = 0
  BY EmptySeq
<1> QED BY <1>0, <1>1, <1>2 DEF FetchOK

\* It ends, in whatever way.
LEMMA EndsStep ==
  ASSUME FilesInv, NEW t \in Tasks, NEW how \in {0, 200, 304, 400, 403, 404, 500}, Ends(t, how),
         UNCHANGED <<disk, at, clock, zone, chunk, site, cache>>
  PROVE  FilesInv'
<1>0. PICK count : count = fetch[t].count
  OBVIOUS
<1>1. PICK f : f = Over(count, how)
  OBVIOUS
<1>2. fetch' = [fetch EXCEPT ![t] = f]
  BY <1>0, <1>1 DEF Ends, Over
<1>3. DOMAIN fetch' = Tasks /\ fetch'[t] = f /\ \A u \in Tasks : u # t => fetch'[u] = fetch[u]
  BY <1>2 DEF FilesInv
<1>4. FetchOK(f, disk, clock, cache[t])
  BY <1>1, OverOK
<1> QED BY <1>3, <1>4, OneFetch

\* It begins with a condition that was made of the client's copy.
LEMMA FetchStep == ASSUME FilesInv, NEW t \in Tasks, Fetch(t) PROVE FilesInv'
<1>1. PICK cond \in Conditions(cache[t]), r \in site.routes, rest \in {"f", "g"} :
       fetch' = [fetch EXCEPT ![t] = [Idle EXCEPT
                   !.state = "open", !.count = fetch[t].count + 1, !.cond = cond,
                   !.found = Locate(r, rest) \in TheFile]]
  BY DEF Fetch
<1>2. PICK f : f = [Idle EXCEPT !.state = "open", !.count = fetch[t].count + 1, !.cond = cond,
                                !.found = Locate(r, rest) \in TheFile]
  OBVIOUS
<1>3. fetch' = [fetch EXCEPT ![t] = f]
  BY <1>1, <1>2
<1>4. DOMAIN fetch' = Tasks /\ fetch'[t] = f /\ \A u \in Tasks : u # t => fetch'[u] = fetch[u]
  BY <1>3 DEF FilesInv
<1>5. /\ DOMAIN f = FetchFields /\ f.state = "open" /\ f.status = 0 /\ f.body = <<>>
      /\ f.fd = {} /\ f.meta = {} /\ f.pos = 0 /\ f.cond = cond
  BY <1>2 DEF Idle, FetchFields
<1>6. <<>> \in Seq(Nat) /\ Len(<<>>) = 0
  BY EmptySeq
<1>7. FetchOK(f, disk, clock, cache[t])
  BY <1>5, <1>6 DEF FetchOK
<1> QED BY <1>4, <1>7, OneFetch DEF Fetch

\* It gets a thread.
LEMMA AskThreadStep ==
  ASSUME FilesInv, NEW t \in Tasks, AskThread(t, "open", "opening") \/ AskThread(t, "read", "reading")
  PROVE  FilesInv'
<1>1. PICK f : f = fetch[t]
  OBVIOUS
<1>2. FetchOK(f, disk, clock, cache[t]) /\ DOMAIN f = FetchFields
  BY <1>1 DEF FilesInv, FetchOK
<1>3. PICK to : /\ (f.state = "open" /\ to = "opening") \/ (f.state = "read" /\ to = "reading")
                /\ fetch' = [fetch EXCEPT ![t].state = to]
                /\ UNCHANGED <<disk, at, clock, zone, chunk, site, cache>>
  BY <1>1 DEF AskThread
<1>4. PICK g : g = fetch'[t]
  OBVIOUS
<1>5. DOMAIN fetch' = Tasks /\ \A u \in Tasks : u # t => fetch'[u] = fetch[u]
  BY <1>3 DEF FilesInv
<1>6. g = [f EXCEPT !.state = to]
  BY <1>1, <1>3, <1>4 DEF FilesInv
<1>7. /\ DOMAIN g = FetchFields /\ g.state = to /\ g.status = f.status /\ g.body = f.body
      /\ g.fd = f.fd /\ g.meta = f.meta /\ g.pos = f.pos /\ g.cond = f.cond
  BY <1>2, <1>6 DEF FetchFields
<1>8. FetchOK(g, disk, clock, cache[t])
  BY <1>2, <1>3, <1>7 DEF FetchOK, InStep
<1> QED BY <1>3, <1>4, <1>5, <1>8, OneFetch

\* The file is opened,
LEMMA OpenStep == ASSUME FilesInv, NEW t \in Tasks, Open(t) PROVE FilesInv'
<1>1. PICK f : f = fetch[t]
  OBVIOUS
<1>2. FetchOK(f, disk, clock, cache[t]) /\ DOMAIN f = FetchFields
  BY <1>1 DEF FilesInv, FetchOK
<1>3. /\ f.state = "opening" /\ at # {} /\ fetch' = [fetch EXCEPT ![t].state = "opened", ![t].fd = at]
      /\ UNCHANGED <<disk, at, clock, zone, chunk, site, cache>>
  BY <1>1 DEF Open
<1>4. PICK g : g = fetch'[t]
  OBVIOUS
<1>5. DOMAIN fetch' = Tasks /\ \A u \in Tasks : u # t => fetch'[u] = fetch[u]
  BY <1>3 DEF FilesInv
<1>6. g = [[f EXCEPT !.state = "opened"] EXCEPT !.fd = at]
  BY <1>1, <1>3, <1>4 DEF FilesInv
<1>7. /\ DOMAIN g = FetchFields /\ g.state = "opened" /\ g.status = f.status /\ g.body = f.body
      /\ g.fd = at /\ g.meta = f.meta /\ g.pos = f.pos /\ g.cond = f.cond
  BY <1>2, <1>6 DEF FetchFields
<1>8. at \subseteq Inodes /\ \A i, j \in at : i = j
  BY DEF FilesInv
<1>9. FetchOK(g, disk, clock, cache[t])
  BY <1>2, <1>3, <1>7, <1>8 DEF FetchOK
<1> QED BY <1>3, <1>4, <1>5, <1>9, OneFetch

\* A condition is answered by one of three statuses.
LEMMA StatusValues ==
  ASSUME NEW cond, NEW meta, NEW s \in Status(cond, meta)
  PROVE  s \in {200, 304, 400}
BY DEF Status, StatusByTag, StatusByDate

\* and looked at, and the body begins if the condition does not prevent it.
LEMMA StatStep == ASSUME FilesInv, NEW t \in Tasks, Stat(t) PROVE FilesInv'
<1>1. PICK f : f = fetch[t]
  OBVIOUS
<1>2. FetchOK(f, disk, clock, cache[t]) /\ DOMAIN f = FetchFields
  BY <1>1 DEF FilesInv, FetchOK
<1>0. PICK i \in f.fd : \E s \in Status(f.cond, Meta(i)) :
        IF s = 200
        THEN fetch' = [fetch EXCEPT ![t].state = "read", ![t].status = s, ![t].meta = {Meta(i)}]
        ELSE Ends(t, s)
  BY <1>1 DEF Stat
<1>3. PICK s \in Status(f.cond, Meta(i)) :
        IF s = 200
        THEN fetch' = [fetch EXCEPT ![t].state = "read", ![t].status = s, ![t].meta = {Meta(i)}]
        ELSE Ends(t, s)
  BY <1>0
<1>4. f.state = "opened" /\ UNCHANGED <<disk, at, clock, zone, chunk, site, cache>>
  BY <1>1 DEF Stat
<1>5. s \in {200, 304, 400} /\ i \in Inodes
  BY <1>2, StatusValues DEF FetchOK
<1>6. CASE s # 200
  BY <1>3, <1>4, <1>5, <1>6, EndsStep
<1>7. CASE s = 200
  <2>1. PICK m : m = Meta(i)
    OBVIOUS
  <2>2. m.len \in Nat /\ m.mtime \in Nat /\ m.mtime < clock /\ m.mtime = disk[i].mtime
    BY <1>5, <2>1, DiskFacts DEF Meta
  <2>3. PICK g : g = fetch'[t]
    OBVIOUS
  <2>4. fetch' = [fetch EXCEPT ![t].state = "read", ![t].status = s, ![t].meta = {m}]
    BY <1>3, <1>7, <2>1
  <2>5. DOMAIN fetch' = Tasks /\ \A u \in Tasks : u # t => fetch'[u] = fetch[u]
    BY <2>4 DEF FilesInv
  <2>6. g = [[[f EXCEPT !.state = "read"] EXCEPT !.status = s] EXCEPT !.meta = {m}]
    BY <1>1, <2>3, <2>4 DEF FilesInv
  <2>7. /\ DOMAIN g = FetchFields /\ g.state = "read" /\ g.status = s /\ g.body = f.body
        /\ g.fd = f.fd /\ g.meta = {m} /\ g.pos = f.pos /\ g.cond = f.cond
    BY <1>2, <2>6 DEF FetchFields
  <2>8. f.pos = 0 /\ f.pos = Len(f.body) /\ f.body \in Seq(Nat) /\ f.fd = {i}
    BY <1>2, <1>3, <1>4 DEF FetchOK
  <2>9. f.body = <<>>
    BY <2>8, EmptySeq
  <2>10. InStep(g, disk)
    <3> SUFFICES ASSUME NEW j \in Inodes, disk[j].mtime = m.mtime
                 PROVE  j = i /\ 0 <= Len(disk[j].data) /\ <<>> = SubSeq(disk[j].data, 1, 0)
      BY <2>7, <2>8, <2>9 DEF InStep
    <3>1. j = i
      BY <1>5, <2>2 DEF FilesInv, TimesDiffer
    <3> QED BY <3>1, DiskFacts, SubSeqEmpty
  <2>11. FetchOK(g, disk, clock, cache[t])
    BY <1>2, <1>5, <1>7, <2>2, <2>7, <2>8, <2>10 DEF FetchOK
  <2> QED BY <1>4, <2>3, <2>5, <2>11, OneFetch
<1> QED BY <1>6, <1>7

\* What one read returns: the bytes from where the reader is, up to its capacity,
\* and nothing only at the end.
LEMMA BytesRead ==
  ASSUME FilesInv, NEW t \in Tasks, fetch[t].state = "reading"
  PROVE  \E i \in fetch[t].fd : LET len == Len(disk[i].data) IN
           /\ fetch[t].fd = {i} /\ i \in Inodes
           /\ Bytes(t) \in Seq(Nat)
           /\ Bytes(t) = <<>> => len <= fetch[t].pos
           /\ \E end \in Nat :
                /\ Bytes(t) = SubSeq(disk[i].data, fetch[t].pos + 1, end) /\ end <= len
                /\ fetch[t].pos <= len => fetch[t].pos <= end
                                          /\ Len(Bytes(t)) = end - fetch[t].pos
<1>1. PICK f : f = fetch[t]
  OBVIOUS
<1>2. FetchOK(f, disk, clock, cache[t])
  BY <1>1 DEF FilesInv
<1>3. PICK i \in Inodes, m \in f.meta : f.fd = {i} /\ f.meta = {m}
  BY <1>1, <1>2 DEF FetchOK
<1>4. (CHOOSE j \in fetch[t].fd : TRUE) = i /\ (CHOOSE n \in fetch[t].meta : TRUE) = m
  BY <1>1, <1>3
<1>5. f.pos \in Nat
  <2>1. f.body \in Seq(Nat) /\ f.pos = Len(f.body) BY <1>2 DEF FetchOK
  <2> QED BY <2>1, LenProperties
<1>6. PICK d \in Seq(Nat) : d = disk[i].data /\ Len(d) \in Nat
  BY DiskFacts
<1>7. PICK c \in Nat : c = Capacity(m) /\ c > 0
  <2>1. m.len \in Nat /\ chunk \in Nat /\ MinCapacity \in Nat \ {0}
    BY <1>2, <1>3, FilesAssumption DEF FetchOK, FilesInv
  <2> QED BY <2>1 DEF Capacity
<1>8. PICK end \in Nat : end = IF f.pos + c < Len(d) THEN f.pos + c ELSE Len(d)
  BY <1>5, <1>6, <1>7
<1>9. Bytes(t) = SubSeq(d, f.pos + 1, end)
  <2> DEFINE ci == CHOOSE j \in fetch[t].fd : TRUE
             cm == CHOOSE n \in fetch[t].meta : TRUE
  <2>1. Bytes(t) = SubSeq(disk[ci].data, fetch[t].pos + 1,
          IF fetch[t].pos + Capacity(cm) < Len(disk[ci].data)
          THEN fetch[t].pos + Capacity(cm) ELSE Len(disk[ci].data))
    BY DEF Bytes
  <2>2. ci = i /\ cm = m
    BY <1>4
  <2> HIDE DEF ci, cm
  <2> QED BY <1>1, <1>6, <1>7, <1>8, <2>1, <2>2
<1>10. PICK b : b = SubSeq(d, f.pos + 1, end)
  OBVIOUS
<1>11. /\ b \in Seq(Nat)
       /\ Len(b) = IF f.pos + 1 <= end THEN end - (f.pos + 1) + 1 ELSE 0
  <2>1. f.pos + 1 \in Int /\ end \in Int
    BY <1>5
  <2>2. \A k \in f.pos+1..end : d[k] \in Nat
    <3>1. \A k \in 1..Len(d) : d[k] \in Nat
      BY ElementOfSeq
    <3>2. end <= Len(d)
      BY <1>5, <1>6, <1>7, <1>8
    <3> QED BY <1>5, <1>6, <3>1, <3>2
  <2> QED BY <1>10, <2>1, <2>2, SubSeqProperties
<1>12. b = <<>> => Len(d) <= f.pos
  <2>1. b = <<>> => Len(b) = 0
    BY EmptySeq
  <2> QED BY <1>5, <1>6, <1>7, <1>8, <1>11, <2>1
<1>13. /\ end <= Len(d)
       /\ f.pos <= Len(d) => f.pos <= end /\ Len(b) = end - f.pos
  <2>1. PICK pos \in Nat, len \in Nat : pos = f.pos /\ len = Len(d)
    BY <1>5, <1>6
  <2>2. end = (IF pos + c < len THEN pos + c ELSE len) /\ c \in Nat
    BY <1>7, <1>8, <2>1
  <2>3. end <= len /\ (pos <= len => pos <= end)
    BY <2>1, <2>2
  <2>4. Len(b) = IF pos + 1 <= end THEN end - (pos + 1) + 1 ELSE 0
    BY <1>11, <2>1
  <2>5. pos <= len => Len(b) = end - pos
    BY <2>3, <2>4
  <2> QED BY <2>1, <2>3, <2>5
<1> QED BY <1>1, <1>3, <1>6, <1>9, <1>10, <1>11, <1>12, <1>13

\* A chunk is read,
LEMMA ReadChunkStep == ASSUME FilesInv, NEW t \in Tasks, ReadChunk(t) PROVE FilesInv'
<1>1. PICK f : f = fetch[t]
  OBVIOUS
<1>2. FetchOK(f, disk, clock, cache[t]) /\ DOMAIN f = FetchFields
  BY <1>1 DEF FilesInv, FetchOK
<1>3. PICK b : b = Bytes(t)
  OBVIOUS
<1>4. /\ f.state = "reading" /\ UNCHANGED <<disk, at, clock, zone, chunk, site, cache>>
      /\ fetch' = [fetch EXCEPT ![t].state = "read", ![t].pos = @ + Len(b), ![t].body = @ \o b]
  BY <1>1, <1>3 DEF ReadChunk
<1>5. PICK g : g = fetch'[t]
  OBVIOUS
<1>6. DOMAIN fetch' = Tasks /\ \A u \in Tasks : u # t => fetch'[u] = fetch[u]
  BY <1>4 DEF FilesInv
<1>7. /\ DOMAIN g = FetchFields /\ g.state = "read" /\ g.status = f.status
      /\ g.body = f.body \o b /\ g.pos = f.pos + Len(b)
      /\ g.fd = f.fd /\ g.meta = f.meta /\ g.cond = f.cond
  <2>1. g = [[[f EXCEPT !.state = "read"] EXCEPT !.pos = @ + Len(b)] EXCEPT !.body = @ \o b]
    BY <1>1, <1>4, <1>5 DEF FilesInv
  <2> QED BY <1>2, <2>1 DEF FetchFields
<1>8. PICK i \in f.fd : LET len == Len(disk[i].data) IN
           /\ f.fd = {i} /\ i \in Inodes /\ b \in Seq(Nat)
           /\ \E end \in Nat :
                /\ b = SubSeq(disk[i].data, f.pos + 1, end) /\ end <= len
                /\ f.pos <= len => f.pos <= end /\ Len(b) = end - f.pos
  BY <1>1, <1>3, <1>4, BytesRead
<1>9. PICK end \in Nat :
        /\ b = SubSeq(disk[i].data, f.pos + 1, end) /\ end <= Len(disk[i].data)
        /\ f.pos <= Len(disk[i].data) => f.pos <= end /\ Len(b) = end - f.pos
  BY <1>8
<1>10. f.body \in Seq(Nat) /\ f.pos = Len(f.body) /\ f.pos \in Nat
  <2>1. f.body \in Seq(Nat) /\ f.pos = Len(f.body) BY <1>2 DEF FetchOK
  <2> QED BY <2>1, LenProperties
<1>11. g.body \in Seq(Nat) /\ g.pos = Len(g.body)
  BY <1>7, <1>8, <1>10, ConcatProperties
<1>12. InStep(g, disk)
  <2> SUFFICES ASSUME NEW m \in f.meta, NEW j \in Inodes, disk[j].mtime = m.mtime
               PROVE  j = i /\ g.pos <= Len(disk[j].data) /\ g.body = SubSeq(disk[j].data, 1, g.pos)
    BY <1>7, <1>8 DEF InStep
  <2>1. j = i /\ f.pos <= Len(disk[i].data) /\ f.body = SubSeq(disk[i].data, 1, f.pos)
    <3>1. InStep(f, disk)
      BY <1>2, <1>4 DEF FetchOK
    <3>2. j = i /\ f.pos <= Len(disk[j].data) /\ f.body = SubSeq(disk[j].data, 1, f.pos)
      BY <3>1 DEF InStep
    <3> QED BY <3>2
  <2>2. g.pos = end /\ f.pos <= end
    <3>1. f.pos <= end /\ Len(b) = end - f.pos
      BY <1>9, <2>1
    <3> QED BY <1>7, <1>10, <3>1
  <2>3. PICK d \in Seq(Nat) : d = disk[i].data /\ Len(d) \in Nat
    BY <1>8, DiskFacts
  <2>4. 1 \in 1..Len(d)+1 /\ f.pos \in 1-1..Len(d) /\ end \in f.pos..Len(d)
    BY <1>9, <1>10, <2>1, <2>2, <2>3
  <2>5. SubSeq(d, 1, f.pos) \o SubSeq(d, f.pos + 1, end) = SubSeq(d, 1, end)
    BY <2>3, <2>4, ConcatAdjacentSubSeq
  <2> QED BY <1>7, <1>9, <2>1, <2>2, <2>3, <2>5
<1>13. FetchOK(g, disk, clock, cache[t])
  BY <1>2, <1>4, <1>7, <1>11, <1>12 DEF FetchOK
<1> QED BY <1>4, <1>5, <1>6, <1>13, OneFetch

\* and when there is nothing left, the client has a copy, which is the file that
\* the reply's headers are about, if there still is one with its time.
LEMMA ReadEofStep == ASSUME FilesInv, NEW t \in Tasks, ReadEof(t) PROVE FilesInv'
<1>1. PICK f : f = fetch[t]
  OBVIOUS
<1>2. FetchOK(f, disk, clock, cache[t]) /\ DOMAIN f = FetchFields /\ f.state = "reading"
  BY <1>1 DEF FilesInv, FetchOK, ReadEof
<1>3. PICK m \in f.meta : f.meta = {m}
  BY <1>2 DEF FetchOK
<1>4. PICK c : c = [etag |-> FromMetadata(m), date |-> LastModified(m), mtime |-> m.mtime,
                    data |-> f.body]
  OBVIOUS
<1>5. /\ Bytes(t) = <<>> /\ Ends(t, 200) /\ cache' = [cache EXCEPT ![t] = {c}]
      /\ UNCHANGED <<disk, at, clock, zone, chunk, site>>
  <2>1. cache' = [cache EXCEPT ![t] =
          {[etag |-> FromMetadata(n), date |-> LastModified(n), mtime |-> n.mtime,
            data |-> f.body] : n \in f.meta}]
    BY <1>1 DEF ReadEof
  <2>2. {[etag |-> FromMetadata(n), date |-> LastModified(n), mtime |-> n.mtime,
          data |-> f.body] : n \in f.meta} = {c}
    BY <1>3, <1>4
  <2> QED BY <2>1, <2>2 DEF ReadEof
<1>6. PICK i \in Inodes : f.fd = {i} /\ Len(disk[i].data) <= f.pos
  BY <1>1, <1>2, <1>5, BytesRead
<1>7. CopyOK(c, disk, clock, zone)
  <2>1. /\ m.len \in Nat /\ m.mtime \in Nat /\ m.mtime < clock /\ InStep(f, disk)
        /\ f.pos = Len(f.body) /\ f.body \in Seq(Nat)
    BY <1>2 DEF FetchOK
  <2>2. /\ c.mtime = m.mtime /\ c.data = f.body /\ c.etag = FromMetadata(m)
        /\ c.date = (c.mtime \div Second) + zone
    BY <1>4 DEF LastModified
  <2>3. c.etag = FromMetadata([len |-> c.etag.tag[1], mtime |-> c.mtime])
    <3>1. FromMetadata(m).tag[1] = m.len
      BY DEF FromMetadata
    <3> QED BY <2>2, <3>1 DEF FromMetadata
  <2>4. ASSUME NEW j \in Inodes, disk[j].mtime = m.mtime PROVE disk[j].data = f.body
    <3>1. j = i /\ f.pos <= Len(disk[i].data) /\ f.body = SubSeq(disk[i].data, 1, f.pos)
      BY <1>6, <2>1, <2>4 DEF InStep
    <3>2. disk[i].data \in Seq(Nat) /\ Len(disk[i].data) \in Nat /\ f.pos \in Nat
      BY <2>1, DiskFacts, LenProperties
    <3>3. f.pos = Len(disk[i].data)
      BY <1>6, <3>1, <3>2
    <3> QED BY <3>1, <3>2, <3>3, SubSeqFull
  <2> QED BY <2>1, <2>2, <2>3, <2>4 DEF CopyOK
<1>8. PICK count : count = fetch[t].count
  OBVIOUS
<1>9. PICK g : g = Over(count, 200)
  OBVIOUS
<1>10. fetch' = [fetch EXCEPT ![t] = g]
  BY <1>5, <1>8, <1>9 DEF Ends, Over
<1>11. \A copies : FetchOK(g, disk, clock, copies)
  BY <1>9, OverOK
<1>12. /\ DOMAIN fetch' = Tasks /\ fetch'[t] = g /\ (\A u \in Tasks : u # t => fetch'[u] = fetch[u])
       /\ DOMAIN cache' = Tasks /\ cache'[t] = {c} /\ (\A u \in Tasks : u # t => cache'[u] = cache[u])
  BY <1>5, <1>10 DEF FilesInv
<1>13. ASSUME NEW u \in Tasks
       PROVE  /\ FetchOK(fetch'[u], disk', clock', cache'[u])
              /\ \A b, e \in cache'[u] : b = e
              /\ \A e \in cache'[u] : CopyOK(e, disk', clock', zone')
  <2>1. CASE u = t
    BY <1>5, <1>7, <1>11, <1>12, <2>1
  <2>2. CASE u # t
    BY <1>5, <1>12, <2>2 DEF FilesInv
  <2> QED BY <2>1, <2>2
<1>14. /\ disk' \in Disks /\ TimesDiffer(disk', clock') /\ at' \subseteq Inodes
       /\ (\A k, j \in at' : k = j) /\ clock' \in 1..MaxTick /\ zone' \in Int /\ chunk' \in Nat
       /\ DOMAIN site' = {"state", "dir", "routes"}
       /\ site'.state \in {"setup", "built", "misconfigured"}
  BY <1>5 DEF FilesInv
<1> QED BY <1>12, <1>13, <1>14 DEF FilesInv

\* Nothing of the files changes.
LEMMA FilesStay == ASSUME FilesInv, UNCHANGED fileVars PROVE FilesInv'
<1>1. UNCHANGED <<disk, at, clock, zone, chunk, site, fetch, cache>>
  BY DEF fileVars
<1>2. \A t \in Tasks :
        /\ FetchOK(fetch'[t], disk', clock', cache'[t])
        /\ \A b, c \in cache'[t] : b = c
        /\ \A c \in cache'[t] : CopyOK(c, disk', clock', zone')
  BY <1>1 DEF FilesInv
<1>3. /\ disk' \in Disks /\ TimesDiffer(disk', clock') /\ at' \subseteq Inodes
      /\ (\A i, j \in at' : i = j) /\ clock' \in 1..MaxTick /\ zone' \in Int /\ chunk' \in Nat
      /\ DOMAIN site' = {"state", "dir", "routes"}
      /\ site'.state \in {"setup", "built", "misconfigured"}
      /\ DOMAIN fetch' = Tasks /\ DOMAIN cache' = Tasks
  BY <1>1 DEF FilesInv
<1> QED BY <1>2, <1>3 DEF FilesInv

\* Every step of a request for a file keeps the invariants of the files and of
\* the pool.
LEMMA FileStepKeeps ==
  ASSUME FilesInv, PoolInv, NEW t \in Tasks, FileStep(t)
  PROVE  FilesInv' /\ PoolInv'
<1>1. CASE Fetch(t) /\ UNCHANGED poolVars
  BY <1>1, FetchStep, PoolStays
<1>2. CASE Disconnect(t) /\ Dropped(t)
  BY <1>2, EndsStep, DroppedStep DEF Disconnect
<1>3. CASE PollFile(t)
  <2>1. CASE Enter(t) /\ (AskThread(t, "open", "opening") \/ AskThread(t, "read", "reading"))
    BY <2>1, EnterStep, AskThreadStep
  <2>2. CASE Wait(t) /\ UNCHANGED fileVars
    BY <2>2, WaitStep, FilesStay
  <2>3. CASE NoThread(t) /\ UNCHANGED poolVars
    BY <2>3, PoolStays, EndsStep DEF NoThread
  <2>4. CASE Open(t) /\ UNCHANGED poolVars
    BY <2>4, PoolStays, OpenStep
  <2>5. CASE (OpenFails(t) \/ ReadFails(t)) /\ Leave(t)
    BY <2>5, EndsStep, LeaveStep DEF OpenFails, ReadFails
  <2>6. CASE (Stat(t) \/ ReadChunk(t) \/ ReadEof(t)) /\ Leave(t)
    BY <2>6, StatStep, ReadChunkStep, ReadEofStep, LeaveStep
  <2> QED BY <1>3, <2>1, <2>2, <2>3, <2>4, <2>5, <2>6 DEF PollFile
<1> QED BY <1>1, <1>2, <1>3 DEF FileStep

-----------------------------------------------------------------------------
(* The invariant and what follows from it. *)

\* At most one, counted
LEMMA AtMostOne ==
  ASSUME NEW S, \A x, y \in S : x = y
  PROVE  Cardinality(S) <= 1 /\ IsFiniteSet(S)
<1>1. CASE S = {}
  BY <1>1, FS_EmptySet
<1>2. CASE S # {}
  <2>1. PICK x : S = {x}
    BY <1>2
  <2>2. Cardinality({x}) = 1 /\ IsFiniteSet({x})
    BY FS_Singleton
  <2> QED BY <2>1, <2>2
<1> QED BY <1>1, <1>2

\* The invariant holds when the server is set up,
LEMMA InitInv == Init => IInv
<1> SUFFICES ASSUME Init PROVE IInv
  OBVIOUS
<1>1. PICK s \in Scenes : FilesInit(s) /\ QueriesInit(s) /\ pooled = s.pooled
  BY DEF Init
<1>2. /\ s.pooled \in BOOLEAN /\ s.first \in 1..MaxTick /\ (\A i \in Inodes : i < s.first)
      /\ s.zone \in Int /\ s.chunk \in Nat /\ s.spent \in 0..MaxQueries
  BY ScenesAssumption
<1>3. PoolInv
  <2>1. slot = [t \in Tasks |-> "none"] /\ queue = <<>>
    BY DEF Init, PoolInit
  <2>2. queue \in Seq(Tasks) /\ DOMAIN queue = {}
    BY <2>1, EmptySeq
  <2>3. Lent = {}
    BY <2>1 DEF Lent
  <2>4. Cardinality({}) = 0 /\ Slots \in Nat
    BY FS_EmptySet, PoolAssumption
  <2>5. PoolTypeOK
    BY <1>1, <1>2, <2>1, <2>2 DEF PoolTypeOK
  <2>6. Queued
    BY <2>1, <2>2 DEF Queued
  <2>7. ThreadsBounded
    BY <2>3, <2>4 DEF ThreadsBounded
  <2> QED BY <2>5, <2>6, <2>7 DEF PoolInv
<1>4. QueriesInv
  <2>1. PICK n : n = s.spent
    OBVIOUS
  <2>2. PICK q : q = [NoQuery EXCEPT !.count = n]
    OBVIOUS
  <2>3. query = [t \in Tasks |-> q]
    BY <1>1, <2>1, <2>2 DEF QueriesInit
  <2>4. /\ DOMAIN q = QueryFields /\ q.state = "idle" /\ q.job = "none" /\ q.count = n
        /\ q.req = {} /\ q.ops = <<>> /\ q.done = <<>> /\ q.raised = {} /\ q.reply = {}
    BY <2>2 DEF NoQuery, QueryFields
  <2>5. <<>> \in Seq(Texts) /\ IsPrefix(<<>>, <<>>)
    BY EmptySeq, PrefixGrows
  <2>6. QueryOK(q)
    BY <1>2, <2>1, <2>4, <2>5 DEF QueryOK
  <2> QED BY <2>3, <2>6 DEF QueriesInv
<1>5. FilesInv
  <2>1. /\ MaxTick \in Nat /\ MaxLen \in Nat /\ Inodes \subseteq Nat
        /\ \E i \in Inodes : \A j \in Inodes : j <= i
    BY FilesAssumption
  <2>2. \A i \in Inodes : i \in 0..MaxTick
    <3>1. PICK first : first = s.first
      OBVIOUS
    <3>2. first \in 1..MaxTick /\ \A i \in Inodes : i < first
      BY <1>2, <3>1
    <3>3. \A i \in Inodes : i \in Nat
      BY <2>1
    <3> SUFFICES ASSUME NEW i \in Inodes PROVE i \in 0..MaxTick
      OBVIOUS
    <3>4. i < first /\ i \in Nat
      BY <3>2, <3>3
    <3> QED BY <2>1, <3>2, <3>4
  <2>3. disk = [i \in Inodes |-> [mtime |-> i, data |-> [n \in 1..MaxLen |-> i]]]
    BY <1>1 DEF FilesInit
  <2>4. disk \in Disks
    <3> SUFFICES ASSUME NEW i \in Inodes
                 PROVE  [n \in 1..MaxLen |-> i] \in BoundedSeq(0..MaxTick, MaxLen)
      BY <2>2, <2>3 DEF Disks
    <3>1. [n \in 1..MaxLen |-> i] \in [1..MaxLen -> 0..MaxTick]
      BY <2>2
    <3> QED BY <2>1, <3>1 DEF BoundedSeq, SeqOf
  <2>5. TimesDiffer(disk, clock)
    BY <1>1, <1>2, <2>3 DEF FilesInit, TimesDiffer
  <2>6. PICK i \in Inodes : at = {i}
    BY <1>1, <2>1 DEF FilesInit
  <2>7. PICK n : n = s.spent
    OBVIOUS
  <2>8. PICK f : f = [Idle EXCEPT !.count = n]
    OBVIOUS
  <2>9. fetch = [t \in Tasks |-> f] /\ cache = [t \in Tasks |-> {}]
    BY <1>1, <2>7, <2>8 DEF FilesInit
  <2>10. FetchOK(f, disk, clock, {})
    <3>1. /\ DOMAIN f = FetchFields /\ f.state = "idle" /\ f.status = 0 /\ f.body = <<>>
          /\ f.fd = {} /\ f.meta = {} /\ f.pos = 0
      BY <2>8 DEF Idle, FetchFields
    <3>2. <<>> \in Seq(Nat) /\ Len(<<>>) = 0
      BY EmptySeq
    <3> QED BY <3>1, <3>2 DEF FetchOK
  <2>11. /\ clock \in 1..MaxTick /\ zone \in Int /\ chunk \in Nat
         /\ DOMAIN site = {"state", "dir", "routes"} /\ site.state = "setup"
    BY <1>1, <1>2 DEF FilesInit
  <2> QED BY <2>4, <2>5, <2>6, <2>9, <2>10, <2>11 DEF FilesInv
<1> QED BY <1>3, <1>4, <1>5 DEF IInv

\* and every step keeps it.
LEMMA NextInv == IInv /\ [Next]_vars => IInv'
<1> SUFFICES ASSUME IInv, [Next]_vars PROVE IInv'
  OBVIOUS
<1>1. UNCHANGED queryVars => QueriesInv'
  BY DEF queryVars, IInv, QueriesInv
<1>2. CASE (ConfigureFiles \/ Change) /\ UNCHANGED <<poolVars, queryVars>>
  BY <1>1, <1>2, PoolStays, ConfigureStep, ChangeStep DEF IInv
<1>3. ASSUME NEW t \in Tasks, FileStep(t), UNCHANGED queryVars PROVE IInv'
  BY <1>1, <1>3, FileStepKeeps DEF IInv
<1>4. ASSUME NEW t \in Tasks, QueryStep(t), UNCHANGED fileVars PROVE IInv'
  BY <1>4, QueryStepKeeps, FilesStay DEF IInv
<1>5. CASE UNCHANGED vars
  BY <1>1, <1>5, PoolStays, FilesStay DEF vars, IInv
<1> QED BY <1>2, <1>3, <1>4, <1>5 DEF Next

\* The inductive invariant holds at every step of every connection.
THEOREM Invariance == Spec => []IInv
BY InitInv, NextInv, PTL DEF Spec

\* No more threads block than the runtime has, and a task that waits for one is
\* in the queue, once.
THEOREM NoMoreThreadsThanSlots == Spec => [](ThreadsBounded /\ Queued)
<1>1. IInv => ThreadsBounded /\ Queued
  BY DEF IInv, PoolInv
<1> QED BY <1>1, Invariance, PTL

\* The types are kept, and a batch of operations is executed as a whole, in its
\* order, or not at all, whoever leaves and whoever else takes the threads.
THEOREM BatchesAreWhole == Spec => []BlockingInv
<1>1. IInv => PoolTypeOK
  BY DEF IInv, PoolInv
<1>2. IInv => QueriesTypeOK /\ WholeOrNothing
  <2> SUFFICES ASSUME IInv, NEW t \in Tasks
               PROVE  /\ query[t].state \in {"idle", "init", "receive", "call", "spawned"}
                      /\ query[t].job \in {"none", "queued", "running", "finished", "failed"}
                      /\ query[t].count \in 0..MaxQueries /\ query[t].req \subseteq QueryRequests
                      /\ IsPrefix(query[t].done, query[t].ops)
                      /\ query[t].job # "running" => query[t].done \in {<<>>, query[t].ops}
    BY DEF QueriesTypeOK, WholeOrNothing
  <2>1. QueryOK(query[t])
    BY DEF IInv, QueriesInv
  <2> QED BY <2>1 DEF QueryOK
<1>3. IInv => FilesTypeOK
  <2> SUFFICES ASSUME IInv PROVE FilesTypeOK
    OBVIOUS
  <2>1. Cardinality(at) <= 1
    <3>1. \A i, j \in at : i = j
      BY DEF IInv, FilesInv
    <3> QED BY <3>1, AtMostOne
  <2>2. ASSUME NEW t \in Tasks
        PROVE  /\ fetch[t].state \in {"idle", "open", "opening", "opened", "read", "reading"}
               /\ fetch[t].status \in {0, 200, 304, 400, 403, 404, 500}
               /\ fetch[t].pos = Len(fetch[t].body)
               /\ Cardinality(cache[t]) <= 1
    <3>1. FetchOK(fetch[t], disk, clock, cache[t]) /\ \A b, c \in cache[t] : b = c
      BY DEF IInv, FilesInv
    <3>2. Cardinality(cache[t]) <= 1
      BY <3>1, AtMostOne
    <3> QED BY <3>1, <3>2 DEF FetchOK
  <2>3. disk \in Disks /\ at \subseteq Inodes /\ clock \in 1..MaxTick
        /\ site.state \in {"setup", "built", "misconfigured"}
    BY DEF IInv, FilesInv
  <2> QED BY <2>1, <2>2, <2>3 DEF FilesTypeOK, Disks
<1>4. IInv => BlockingInv
  BY <1>1, <1>2, <1>3 DEF BlockingInv, TypeOK
<1> QED BY <1>4, Invariance, PTL

\* A reply to a query says 200 only if every operation was executed and
\* succeeded, and an error that was raised says truly that nothing was executed.
THEOREM RepliesAreTrue == Spec => []ReplyIsTrue
<1>1. ASSUME IInv PROVE ReplyIsTrue
  <2> SUFFICES ASSUME NEW t \in Tasks, NEW r \in query[t].reply PROVE TrueOf(query[t], r)
    BY DEF ReplyIsTrue, TrueOf
  <2>1. QueryOK(query[t])
    BY <1>1 DEF IInv, QueriesInv
  <2> QED BY <2>1 DEF QueryOK
<1> QED BY <1>1, Invariance, PTL

\* A copy that a client has is what its tag stands for: as long as a file has
\* the copy's time it has its bytes, whoever wrote to it while it was read.
THEOREM CopiesAreWhole == Spec => []CopyIsWhole
<1>1. ASSUME IInv PROVE CopyIsWhole
  <2> SUFFICES ASSUME NEW t \in Tasks, NEW c \in cache[t], NEW i \in Inodes,
                      disk[i].mtime = c.mtime
               PROVE  disk[i].data = c.data
    BY DEF CopyIsWhole
  <2>1. CopyOK(c, disk, clock, zone)
    BY <1>1 DEF IInv, FilesInv
  <2> QED BY <2>1 DEF CopyOK
<1> QED BY <1>1, Invariance, PTL

\* The seconds and the rest of them make the time.
LEMMA SecondsTell ==
  ASSUME NEW a \in Nat, NEW b \in Nat, NEW s \in Nat \ {0},
         a \div s = b \div s, a % s = b % s
  PROVE  a = b
OBVIOUS

\* What is not newer than a whole second is not newer than what that was cut from.
LEMMA SecondsCut ==
  ASSUME NEW a \in Nat, NEW b \in Nat, NEW s \in Nat \ {0}, NEW n \in Int,
         n <= b \div s, a <= n * s
  PROVE  a <= b
<1>1. (b \div s) * s <= b /\ b \div s \in Nat
  OBVIOUS
<1>2. n * s <= (b \div s) * s
  BY <1>1
<1> QED BY <1>1, <1>2

\* A tag that is found equal to a file's is that of a copy with the file's time.
LEMMA TagTells ==
  ASSUME NEW meta, NEW c, NEW h, meta.mtime \in Nat, c.mtime \in Nat,
         c.etag = FromMetadata([len |-> c.etag.tag[1], mtime |-> c.mtime]),
         h.form \in {"weak", "strong", "list", "garbled"}, h.tag = c.etag.tag,
         StatusByTag(h, meta) = 304
  PROVE  meta.mtime = c.mtime
<1>1. PICK e \in ParseTag(h) : TagEq(e, FromMetadata(meta))
  BY DEF StatusByTag
<1>2. FromMetadata(meta).weak /\ Second \in Nat \ {0}
  BY FilesAssumption DEF FromMetadata
<1>3. h.form # "strong" /\ h.form # "garbled"
  BY <1>1, <1>2 DEF ParseTag, TagEq
<1>4. PICK len : len = c.etag.tag[1]
  OBVIOUS
<1>5. h.tag = <<len, c.mtime \div Second, c.mtime % Second>>
  BY <1>4 DEF FromMetadata
<1>6. e.tag = <<meta.len, meta.mtime \div Second, meta.mtime % Second>>
  BY <1>1 DEF TagEq, FromMetadata
<1>7. h.form # "list"
  <2> SUFFICES ASSUME h.form = "list" PROVE FALSE
    OBVIOUS
  <2>1. e.tag = <<h.tag, h.tag>>
    BY <1>1 DEF ParseTag
  <2>2. Len(e.tag) = 2 /\ Len(e.tag) = 3
    BY <1>6, <2>1
  <2> QED BY <2>2
<1>8. e.tag = h.tag
  BY <1>1, <1>3, <1>7 DEF ParseTag
<1>9. meta.mtime \div Second = c.mtime \div Second /\ meta.mtime % Second = c.mtime % Second
  BY <1>5, <1>6, <1>8
<1> QED BY <1>2, <1>9, SecondsTell

\* A date that a file is not newer than is that of a copy as new, unless local
\* time is ahead.
LEMMA DateTells ==
  ASSUME NEW meta, NEW c, NEW h, NEW ahead \in Int, meta.mtime \in Nat, c.mtime \in Nat,
         c.date = (c.mtime \div Second) + ahead, h.sec = c.date,
         StatusByDate(h, meta) = 304
  PROVE  ahead > 0 \/ meta.mtime <= c.mtime
<1>1. /\ Second \in Nat \ {0} /\ c.mtime \div Second \in Nat
  BY FilesAssumption
<1>2. ~Newer(meta, h.sec)
  BY DEF StatusByDate, ParseDate
<1>3. meta.mtime <= c.date * Second
  BY <1>1, <1>2 DEF Newer
<1> QED BY <1>1, <1>3, SecondsCut

\* "Not modified" is told of a file that has the bytes of the client's copy.
LEMMA StatTells ==
  ASSUME IInv, NEW t \in Tasks, fetch[t].state = "opened", NEW c \in cache[t],
         NEW i \in fetch[t].fd, 304 \in Status(fetch[t].cond, Meta(i))
  PROVE  \/ disk[i].data = c.data
         \/ fetch[t].cond.inm = {} /\ (zone > 0 \/ disk[i].mtime < c.mtime)
<1>1. PICK cond : cond = fetch[t].cond
  OBVIOUS
<1>2. PICK meta : meta = Meta(i)
  OBVIOUS
<1>3. /\ FetchOK(fetch[t], disk, clock, cache[t]) /\ CopyOK(c, disk, clock, zone)
      /\ (\A b \in cache[t] : b = c) /\ zone \in Int /\ FilesInv
  BY DEF IInv, FilesInv
<1>4. i \in Inodes /\ cond \in Conditions(cache[t])
  BY <1>1, <1>3 DEF FetchOK
<1>5. meta.mtime = disk[i].mtime /\ meta.mtime \in Nat /\ c.mtime \in Nat
  BY <1>2, <1>3, <1>4, DiskFacts DEF Meta, CopyOK
<1>6. cache[t] = {c}
  BY <1>3
<1>7. disk[i].mtime = c.mtime => disk[i].data = c.data
  BY <1>3, <1>4 DEF CopyOK
<1>8. CASE cond.inm # {}
  <2>1. PICK h \in cond.inm : StatusByTag(h, meta) = 304
    BY <1>1, <1>2, <1>8 DEF Status
  <2>2. h.form \in {"weak", "strong", "list", "garbled"} /\ h.tag = c.etag.tag
    BY <1>4, <1>6, <2>1 DEF Conditions, NoCondition
  <2>3. meta.mtime = c.mtime
    BY <1>3, <1>5, <2>1, <2>2, TagTells DEF CopyOK
  <2> QED BY <1>5, <1>7, <2>3
<1>9. CASE cond.inm = {}
  <2>1. PICK h \in cond.ims : StatusByDate(h, meta) = 304
    BY <1>1, <1>2, <1>9 DEF Status
  <2>2. h.sec = c.date
    BY <1>4, <1>6, <2>1 DEF Conditions, NoCondition
  <2>3. zone > 0 \/ meta.mtime <= c.mtime
    BY <1>3, <1>5, <2>1, <2>2, DateTells DEF CopyOK
  <2> QED BY <1>1, <1>5, <1>7, <1>9, <2>3
<1> QED BY <1>8, <1>9

\* That reply is made by one step only, which looks at the file.
LEMMA ToldByStat ==
  ASSUME IInv, [Next]_vars, NEW t \in Tasks, fetch[t].state = "opened", fetch'[t].status = 304
  PROVE  \E i \in fetch[t].fd : 304 \in Status(fetch[t].cond, Meta(i))
<1>1. fetch[t].status = 0 /\ DOMAIN fetch = Tasks
  BY DEF IInv, FilesInv, FetchOK
<1>2. fetch' # fetch
  BY <1>1
<1>3. PICK u \in Tasks : FileStep(u)
  <2>1. ~UNCHANGED vars
    BY <1>2 DEF vars, fileVars
  <2>2. ~(ConfigureFiles \/ Change)
    BY <1>2 DEF ConfigureFiles, Change, Unlink, Truncate, Extend, Overwrite, Move
  <2>3. ~UNCHANGED fileVars
    BY <1>2 DEF fileVars
  <2> QED BY <2>1, <2>2, <2>3 DEF Next
<1>4. \/ Fetch(u) \/ Disconnect(u) \/ AskThread(u, "open", "opening") \/ AskThread(u, "read", "reading")
      \/ NoThread(u) \/ Open(u) \/ OpenFails(u) \/ Stat(u) \/ ReadChunk(u) \/ ReadEof(u) \/ ReadFails(u)
  BY <1>2, <1>3 DEF FileStep, PollFile, fileVars
<1>5. u = t
  <2> SUFFICES ASSUME u # t PROVE fetch'[t] = fetch[t]
    BY <1>1
  <2>1. ASSUME NEW s, Ends(u, s) PROVE fetch'[t] = fetch[t]
    BY <1>1, <2>1 DEF Ends
  <2>2. CASE Fetch(u)
    <3>1. PICK f : fetch' = [fetch EXCEPT ![u] = f]
      BY <2>2 DEF Fetch
    <3> QED BY <1>1, <3>1
  <2>3. CASE AskThread(u, "open", "opening") \/ AskThread(u, "read", "reading")
    BY <1>1, <2>3 DEF AskThread
  <2>4. CASE Disconnect(u) \/ NoThread(u) \/ OpenFails(u) \/ ReadEof(u) \/ ReadFails(u)
    BY <2>1, <2>4 DEF Disconnect, NoThread, OpenFails, ReadEof, ReadFails
  <2>5. CASE Open(u)
    BY <1>1, <2>5 DEF Open
  <2>6. CASE Stat(u)
    <3>1. PICK i \in fetch[u].fd : \E s \in Status(fetch[u].cond, Meta(i)) :
            IF s = 200
            THEN fetch' = [fetch EXCEPT ![u].state = "read", ![u].status = s, ![u].meta = {Meta(i)}]
            ELSE Ends(u, s)
      BY <2>6 DEF Stat
    <3>2. PICK s \in Status(fetch[u].cond, Meta(i)) :
            IF s = 200
            THEN fetch' = [fetch EXCEPT ![u].state = "read", ![u].status = s, ![u].meta = {Meta(i)}]
            ELSE Ends(u, s)
      BY <3>1
    <3> QED BY <1>1, <2>1, <3>2
  <2>7. CASE ReadChunk(u)
    BY <1>1, <2>7 DEF ReadChunk
  <2> QED BY <1>4, <2>2, <2>3, <2>4, <2>5, <2>6, <2>7
<1>6. Open(t) \/ Stat(t) \/ OpenFails(t)
  BY <1>4, <1>5 DEF Fetch, Disconnect, Between, AskThread, NoThread, ReadChunk, ReadEof, ReadFails
<1>7. Stat(t)
  <2>1. CASE OpenFails(t)
    <3>1. PICK status \in {403, 404, 500} : Ends(t, status)
      BY <2>1 DEF OpenFails
    <3>2. PICK f : f = Over(fetch[t].count, status)
      OBVIOUS
    <3>3. fetch'[t].status = status
      <4>1. fetch' = [fetch EXCEPT ![t] = f] /\ DOMAIN fetch = Tasks
        BY <1>1, <3>1, <3>2 DEF Ends, Over
      <4>2. f.status = status
        BY <3>2 DEF Over, Idle
      <4> QED BY <4>1, <4>2
    <3> QED BY <1>2, <3>3
  <2> QED BY <1>2, <1>6, <2>1 DEF Open
<1>8. PICK i \in fetch[t].fd : \E s \in Status(fetch[t].cond, Meta(i)) :
        IF s = 200
        THEN fetch' = [fetch EXCEPT ![t].state = "read", ![t].status = s, ![t].meta = {Meta(i)}]
        ELSE Ends(t, s)
  BY <1>7 DEF Stat
<1>9. PICK s \in Status(fetch[t].cond, Meta(i)) :
        IF s = 200
        THEN fetch' = [fetch EXCEPT ![t].state = "read", ![t].status = s, ![t].meta = {Meta(i)}]
        ELSE Ends(t, s)
  BY <1>8
<1>10. s \in {200, 304, 400}
  BY <1>9, StatusValues
<1>11. CASE s = 200
  <2>1. PICK f : f = fetch[t]
    OBVIOUS
  <2>2. PICK m : m = Meta(i)
    OBVIOUS
  <2>3. PICK g : g = [f EXCEPT !.state = "read"]
    OBVIOUS
  <2>4. fetch'[t] = [[g EXCEPT !.status = 200] EXCEPT !.meta = {m}]
    <3>1. fetch' = [fetch EXCEPT ![t].state = "read", ![t].status = 200, ![t].meta = {m}]
      BY <1>9, <1>11, <2>2
    <3> QED BY <1>1, <2>1, <2>3, <3>1
  <2>5. "status" \in DOMAIN f
    BY <2>1 DEF IInv, FilesInv, FetchOK, FetchFields
  <2>6. "status" \in DOMAIN g
    BY <2>3, <2>5
  <2>7. fetch'[t].status = 200
    BY <2>4, <2>6
  <2> QED BY <2>7
<1>12. CASE s # 200
  <2>1. PICK count : count = fetch[t].count
    OBVIOUS
  <2>2. fetch'[t] = Over(count, s)
    BY <1>1, <1>9, <1>12, <2>1 DEF Ends, Over
  <2>3. fetch'[t].status = s
    BY <1>10, <2>2, OverOK
  <2> QED BY <1>9, <2>3
<1> QED BY <1>11, <1>12

\* A client is told that its copy is current only if it is, with the two
\* exceptions that the date alone leaves.
THEOREM ToldOnlyIfCurrent == Spec => NotModifiedMeansCurrent
<1>1. IInv /\ [Next]_vars =>
        [\A t \in Tasks :
           fetch[t].state = "opened" /\ fetch'[t].status = 304 =>
             \A c \in cache[t], i \in fetch[t].fd :
               \/ disk[i].data = c.data
               \/ fetch[t].cond.inm = {} /\ (zone > 0 \/ disk[i].mtime < c.mtime)]_fileVars
  <2> SUFFICES ASSUME IInv, [Next]_vars, NEW t \in Tasks,
                      fetch[t].state = "opened", fetch'[t].status = 304,
                      NEW c \in cache[t], NEW i \in fetch[t].fd
               PROVE  \/ disk[i].data = c.data
                      \/ fetch[t].cond.inm = {} /\ (zone > 0 \/ disk[i].mtime < c.mtime)
    OBVIOUS
  <2>1. PICK j \in fetch[t].fd : 304 \in Status(fetch[t].cond, Meta(j))
    BY ToldByStat
  <2>2. i = j
    BY DEF IInv, FilesInv, FetchOK
  <2> QED BY <2>1, <2>2, StatTells
<1> QED BY <1>1, Invariance, PTL DEF Spec, NotModifiedMeansCurrent
=============================================================================
