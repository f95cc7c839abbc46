------------------------------ MODULE Sessions ------------------------------
(***************************************************************************)
(* What a session backend promises a client that sends one request at a    *)
(* time (tsukuyomi-session/src/lib.rs): a request opens the session as the *)
(* last one left it, works on a copy, and leaves the session as the copy   *)
(* is, all at once, when it was finished, or else as it was.  A backend    *)
(* with a timeout may forget a session at any time.                        *)
(***************************************************************************)
EXTENDS SessionData

CONSTANTS
  Clients,
  Forgets,   \* may a session be forgotten?
  Loses      \* may a finished request have no effect?

VARIABLES
  session,   \* client -> the fields of its session
  work       \* client -> the copy a request works on, at most one

sessionVars == <<session, work>>

Draft(map, cleared, finished) == [map |-> map, cleared |-> cleared, finished |-> finished]

SInit ==
  /\ session = [c \in Clients |-> NoFields]
  /\ work = [c \in Clients |-> {}]

SOpen(c) ==
  /\ work[c] = {}
  /\ work' = [work EXCEPT ![c] = {Draft(session[c], FALSE, FALSE)}]
  /\ UNCHANGED session

SWork(c) ==
  /\ \E w \in work[c] :
       /\ ~w.finished
       /\ \/ \E f \in Fields, v \in Values \cup {NoValue} :
               /\ ~w.cleared
               /\ work' = [work EXCEPT ![c] = {Draft([w.map EXCEPT ![f] = v], FALSE, FALSE)}]
          \/ work' = [work EXCEPT ![c] = {Draft(NoFields, TRUE, FALSE)}]
  /\ UNCHANGED session

SFinish(c) ==
  /\ \E w \in work[c] : work' = [work EXCEPT ![c] = {Draft(w.map, w.cleared, TRUE)}]
  /\ UNCHANGED session

\* What is kept may be forgotten at once.
SCommit(c) ==
  /\ \E w \in work[c] :
       /\ w.finished
       /\ \E m \in {w.map} \cup (IF Forgets THEN {NoFields} ELSE {}) : session' = [session EXCEPT ![c] = m]
  /\ work' = [work EXCEPT ![c] = {}]

SAbandon(c) ==
  /\ \E w \in work[c] : ~w.finished \/ Loses
  /\ work' = [work EXCEPT ![c] = {}]
  /\ UNCHANGED session

SForget(c) ==
  /\ Forgets
  /\ session' = [session EXCEPT ![c] = NoFields]
  /\ UNCHANGED work

SNext == \E c \in Clients :
  SOpen(c) \/ SWork(c) \/ SFinish(c) \/ SCommit(c) \/ SAbandon(c) \/ SForget(c)

SSpec == SInit /\ [][SNext]_sessionVars
=============================================================================
