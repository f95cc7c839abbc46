-------------------------------- MODULE Files --------------------------------
(***************************************************************************)
(* Static files (fs.rs): a directory turned into routes, a file opened,    *)
(* compared with the condition of the request and streamed chunk by chunk, *)
(* each system call on a thread of the pool.  Meanwhile others write to    *)
(* the file, truncate it, and move another file into its place.  A client  *)
(* keeps the copies it received in full and asks whether they are current. *)
(*                                                                         *)
(* Every write has a modification time of its own, the tick of `clock`;    *)
(* what it writes is that tick, so that a byte tells when it was written.  *)
(***************************************************************************)
EXTENDS BlockingPool

CONSTANTS
  Inodes,       \* the files that take turns at the path, by the ticks of their making
  MinCapacity,  \* the bytes a BytesMut holds inline, whatever it is asked for
  Second,       \* ticks of the clock of the file system in a second
  MaxTick,      \* bound on the changes to files
  MaxLen,       \* bound on the length of a file
  MaxFetches    \* bound on the requests of a client

ASSUME FilesAssumption ==
  /\ MinCapacity \in Nat \ {0} /\ Second \in Nat \ {0}
  /\ Inodes \subseteq Nat /\ (\E i \in Inodes : \A j \in Inodes : j <= i)
  /\ MaxTick \in Nat /\ MaxLen \in Nat /\ MaxFetches \in Nat

VARIABLES
  disk,    \* of each inode, the time of its modification and its bytes
  at,      \* Option: the inode the path leads to
  clock,   \* the tick of the next change
  zone,    \* what the server's local time is ahead of UTC, in seconds
  chunk,   \* OpenConfig::chunk_size, or the block size
  site,    \* the directory, and the routes made of it
  fetch,   \* of each task, the request it is at work on
  cache    \* of each task's client: Option of its copy of the file

fileVars == <<disk, at, clock, zone, chunk, site, fetch, cache>>

-----------------------------------------------------------------------------
\* Staticfiles

Leaf(name)   == [root |-> name, deep |-> FALSE]
Branch(name) == [root |-> name, deep |-> TRUE]

Servable(entry) == entry.is \in {"file", "dir"} /\ entry.utf8

RouteOf(entry) == IF entry.is = "file" THEN Leaf(entry.name) ELSE Branch(entry.name)

\* Staticfiles::configure: the first entry it can make no route of is an error.
ConfigureFiles ==
  /\ site.state = "setup"
  /\ site' = IF \A i \in DOMAIN site.dir : Servable(site.dir[i])
             THEN [site EXCEPT !.state = "built",
                               !.routes = {RouteOf(site.dir[i]) : i \in DOMAIN site.dir}]
             ELSE [site EXCEPT !.state = "misconfigured"]
  /\ UNCHANGED <<disk, at, clock, zone, chunk, fetch, cache>>

\* ServeFile::poll_ready: the path of the NamedFile
Locate(route, rest) == IF route.deep THEN <<route.root, rest>> ELSE <<route.root>>

\* The one file of the instance, at the top of the directory or in a part of it
TheFile == {<<"f">>, <<"d", "f">>}

-----------------------------------------------------------------------------
\* Others change the file.

Tick == clock < MaxTick /\ clock' = clock + 1

\* In place: the file is emptied, as an editor does it, ...
Truncate(i) ==
  /\ Tick /\ disk[i].data # <<>>
  /\ disk' = [disk EXCEPT ![i] = [mtime |-> clock, data |-> <<>>]]
  /\ UNCHANGED <<at, zone, chunk, site, fetch, cache>>

\* ... or grows, ...
Extend(i) ==
  /\ Tick /\ Len(disk[i].data) < MaxLen
  /\ disk' = [disk EXCEPT ![i] = [mtime |-> clock, data |-> Append(@.data, clock)]]
  /\ UNCHANGED <<at, zone, chunk, site, fetch, cache>>

\* ... or keeps its length.
Overwrite(i) ==
  /\ Tick
  /\ \E n \in DOMAIN disk[i].data :
       disk' = [disk EXCEPT ![i] = [mtime |-> clock, data |-> [@.data EXCEPT ![n] = clock]]]
  /\ UNCHANGED <<at, zone, chunk, site, fetch, cache>>

\* rename(2), of another file, an older one perhaps: its time goes with it.
Move(i) ==
  /\ Tick /\ at # {i} /\ at' = {i}
  /\ UNCHANGED <<disk, zone, chunk, site, fetch, cache>>

Unlink ==
  /\ Tick /\ at # {} /\ at' = {}
  /\ UNCHANGED <<disk, zone, chunk, site, fetch, cache>>

Change == Unlink \/ \E i \in Inodes : Truncate(i) \/ Extend(i) \/ Overwrite(i) \/ Move(i)

-----------------------------------------------------------------------------
\* Conditional requests

\* Mutant: a tag made of the length and the seconds alone.
FromMetadataCoarse(meta) ==
  [weak |-> TRUE, tag |-> <<meta.len, meta.mtime \div Second, 0>>]

\* ETag::from_metadata: the length, the seconds and the nanoseconds
FromMetadata(meta) ==
  [weak |-> TRUE, tag |-> <<meta.len, meta.mtime \div Second, meta.mtime % Second>>]

\* ETag::from_str, an Option; of a list of tags it makes a single tag that
\* equals no other.
ParseTag(sent) ==
  CASE sent.form = "weak"    -> {[weak |-> TRUE, tag |-> sent.tag]}
    [] sent.form = "strong"  -> {[weak |-> FALSE, tag |-> sent.tag]}
    [] sent.form = "list"    -> {[weak |-> TRUE, tag |-> <<sent.tag, sent.tag>>]}
    [] sent.form = "garbled" -> {}

TagEq(a, b) == a.tag = b.tag /\ (a.weak \/ ~b.weak)

\* NamedFileResponse::last_modified: local time without nanoseconds or a zone,
\* which parse_http_date takes for UTC
LastModified(meta) == meta.mtime \div Second + zone

\* parse_http_date, an Option
ParseDate(sent) == IF sent.form = "date" THEN {sent.sec} ELSE {}

\* FileTime's order: nanoseconds count.
Newer(meta, sec) == meta.mtime > sec * Second

StatusByTag(sent, meta) ==
  IF ParseTag(sent) = {} THEN 400
  ELSE IF \E e \in ParseTag(sent) : TagEq(e, FromMetadata(meta)) THEN 304 ELSE 200

StatusByDate(sent, meta) ==
  IF ParseDate(sent) = {} THEN 400
  ELSE IF \E sec \in ParseDate(sent) : Newer(meta, sec) THEN 200 ELSE 304

\* is_modified: If-None-Match decides alone, if it is there; what cannot be
\* parsed is a bad request.
Status(cond, meta) ==
  IF cond.inm # {} THEN {StatusByTag(h, meta) : h \in cond.inm}
  ELSE IF cond.ims # {} THEN {StatusByDate(h, meta) : h \in cond.ims}
  ELSE {200}

-----------------------------------------------------------------------------
\* A request for a file: the task of its connection polls the OpenNamedFile,
\* and then the ReadStream.

NoCondition == [inm |-> {}, ims |-> {}]

Idle == [state |-> "idle", count |-> 0, cond |-> NoCondition, found |-> TRUE,
         fd |-> {}, meta |-> {}, pos |-> 0, status |-> 0, body |-> <<>>]

\* What a client makes of the headers it kept, more or less faithfully.
Conditions(copies) ==
  {NoCondition}
  \cup {[inm |-> {[form |-> f, tag |-> c.etag.tag]}, ims |-> {}] :
          f \in {"weak", "strong", "list", "garbled"}, c \in copies}
  \cup {[inm |-> {}, ims |-> {[form |-> f, sec |-> c.date]}] :
          f \in {"date", "garbled"}, c \in copies}
  \cup {[inm |-> {[form |-> "weak", tag |-> c.etag.tag]},
         ims |-> {[form |-> "date", sec |-> c.date]}] : c \in copies}

Fetch(t) ==
  /\ site.state = "built"
  /\ fetch[t].state = "idle" /\ fetch[t].count < MaxFetches
  /\ \E cond \in Conditions(cache[t]), r \in site.routes, rest \in {"f", "g"} :
       fetch' = [fetch EXCEPT ![t] = [Idle EXCEPT
                   !.state = "open", !.count = fetch[t].count + 1, !.cond = cond,
                   !.found = Locate(r, rest) \in TheFile]]
  /\ UNCHANGED <<disk, at, clock, zone, chunk, site, cache>>

\* poll_blocking at the beginning of a poll of the stream or the future
AskThread(t, from, to) ==
  /\ fetch[t].state = from
  /\ fetch' = [fetch EXCEPT ![t].state = to]
  /\ UNCHANGED <<disk, at, clock, zone, chunk, site, cache>>

Ends(t, how) == fetch' = [fetch EXCEPT ![t] = [Idle EXCEPT !.count = fetch[t].count, !.status = how]]

Missing(t) == fetch[t].state = "opening" /\ (at = {} \/ ~fetch[t].found)

\* File::open or metadata fails, and io::Error as HttpError says how: the file is
\* not there, permission is denied, or it is something else.
OpenFails(t) ==
  /\ fetch[t].state \in {"opening", "opened"}
  /\ \/ Missing(t) /\ Ends(t, 404)
     \/ \E status \in {403, 500} : Ends(t, status)
  /\ UNCHANGED <<disk, at, clock, zone, chunk, site, cache>>

\* File::open; the descriptor stays with its inode.
Open(t) ==
  /\ fetch[t].state = "opening" /\ at # {} /\ fetch[t].found
  /\ fetch' = [fetch EXCEPT ![t].state = "opened", ![t].fd = at]
  /\ UNCHANGED <<disk, at, clock, zone, chunk, site, cache>>

Meta(i) == [len |-> Len(disk[i].data), mtime |-> disk[i].mtime]

\* File::metadata, and the reply, in the same poll
Stat(t) ==
  /\ fetch[t].state = "opened"
  /\ \E i \in fetch[t].fd : \E s \in Status(fetch[t].cond, Meta(i)) :
       IF s = 200
       THEN fetch' = [fetch EXCEPT ![t].state = "read", ![t].status = s, ![t].meta = {Meta(i)}]
       ELSE Ends(t, s)
  /\ UNCHANGED <<disk, at, clock, zone, chunk, site, cache>>

\* Mutant: as large as asked for, and no larger
CapacityExact(meta) == IF meta.len < chunk THEN meta.len ELSE chunk

\* finalize_block_size, and BytesMut::with_capacity
Capacity(meta) ==
  LET size == IF meta.len < chunk THEN meta.len ELSE chunk
  IN  IF size < MinCapacity THEN MinCapacity ELSE size

\* The bytes that one read(2) of task t returns
Bytes(t) ==
  LET f == fetch[t]
      i == CHOOSE i \in f.fd : TRUE
      m == CHOOSE m \in f.meta : TRUE
      data == disk[i].data
      end  == f.pos + Capacity(m)
  IN  SubSeq(data, f.pos + 1, IF end < Len(data) THEN end ELSE Len(data))

ReadChunk(t) ==
  /\ fetch[t].state = "reading" /\ Bytes(t) # <<>>
  /\ fetch' = [fetch EXCEPT ![t].state = "read", ![t].pos = @ + Len(Bytes(t)),
                            ![t].body = @ \o Bytes(t)]
  /\ UNCHANGED <<disk, at, clock, zone, chunk, site, cache>>

\* Nothing was read: State::Eof.  The client has a copy.
ReadEof(t) ==
  /\ fetch[t].state = "reading" /\ Bytes(t) = <<>>
  /\ Ends(t, 200)
  /\ cache' = [cache EXCEPT ![t] =
       {[etag |-> FromMetadata(m), date |-> LastModified(m), mtime |-> m.mtime,
         data |-> fetch[t].body] : m \in fetch[t].meta}]
  /\ UNCHANGED <<disk, at, clock, zone, chunk, site>>

\* A system call fails: the path is a directory, for example.  A body that has
\* begun is broken off, and the client does not keep what it has of it.
ReadFails(t) ==
  /\ fetch[t].state = "reading"
  /\ Ends(t, 0)
  /\ UNCHANGED <<disk, at, clock, zone, chunk, site, cache>>

\* There are no threads to block: before the reply that is an error of it.
NoThread(t) ==
  /\ fetch[t].state = "open"
  /\ Ends(t, 500)
  /\ UNCHANGED <<disk, at, clock, zone, chunk, site, cache>>

Between(t) == fetch[t].state \in {"open", "read"}

\* The client is gone, and hyper drops what the task was at.
Disconnect(t) ==
  /\ Between(t)
  /\ Ends(t, 0)
  /\ UNCHANGED <<disk, at, clock, zone, chunk, site, cache>>

\* A poll of task t: it asks for a thread, makes its system calls on it and
\* gives it back.
PollFile(t) ==
  \/ Enter(t) /\ (AskThread(t, "open", "opening") \/ AskThread(t, "read", "reading"))
  \/ Wait(t) /\ Between(t) /\ UNCHANGED fileVars
  \/ ~pooled /\ NoThread(t) /\ UNCHANGED poolVars
  \/ Open(t) /\ UNCHANGED poolVars
  \/ (OpenFails(t) \/ Stat(t) \/ ReadChunk(t) \/ ReadEof(t) \/ ReadFails(t)) /\ Leave(t)

FileStep(t) ==
  \/ Fetch(t) /\ UNCHANGED poolVars
  \/ PollFile(t)
  \/ Disconnect(t) /\ Dropped(t)

\* s: how the server is set up, and where the counts of changes and requests start
FilesInit(s) ==
  /\ disk = [i \in Inodes |-> [mtime |-> i, data |-> [n \in 1..MaxLen |-> i]]]
  /\ at = {CHOOSE i \in Inodes : \A j \in Inodes : j <= i}
  /\ clock = s.first /\ zone = s.zone /\ chunk = s.chunk
  /\ site = [state |-> "setup", dir |-> s.dir, routes |-> {}]
  /\ fetch = [t \in Tasks |-> [Idle EXCEPT !.count = s.spent]]
  /\ cache = [t \in Tasks |-> {}]
-----------------------------------------------------------------------------
\* Properties

FilesTypeOK ==
  /\ disk \in [Inodes -> [mtime : 0..MaxTick, data : BoundedSeq(0..MaxTick, MaxLen)]]
  /\ at \subseteq Inodes /\ Cardinality(at) <= 1
  /\ clock \in 1..MaxTick
  /\ site.state \in {"setup", "built", "misconfigured"}
  /\ \A t \in Tasks :
       /\ fetch[t].state \in {"idle", "open", "opening", "opened", "read", "reading"}
       /\ fetch[t].status \in {0, 200, 304, 400, 403, 404, 500}
       /\ fetch[t].pos = Len(fetch[t].body)
       /\ Cardinality(cache[t]) <= 1

\* What a client keeps is what the tag it keeps stands for: while a file has
\* the time of the copy, it has the bytes of the copy, although it may have been
\* written to and moved about between any two system calls of the reply.
CopyIsWhole ==
  \A t \in Tasks : \A c \in cache[t], i \in Inodes :
    disk[i].mtime = c.mtime => disk[i].data = c.data

\* "Not modified" is said of a file only if the client's copy has its bytes.
\* By the date alone two things go unseen: an older file that was moved into
\* place, and what was written in the hours by which local time is ahead of UTC.
NotModifiedMeansCurrent ==
  [][\A t \in Tasks :
       fetch[t].state = "opened" /\ fetch'[t].status = 304 =>
         \A c \in cache[t], i \in fetch[t].fd :
           \/ disk[i].data = c.data
           \/ fetch[t].cond.inm = {} /\ (zone > 0 \/ disk[i].mtime < c.mtime)]_fileVars
=============================================================================
