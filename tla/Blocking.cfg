SPECIFICATION Spec
CONSTANTS
  t1 = t1
  t2 = t2
  Tasks = {t1, t2}
  Slots = 1
  Inodes = {1, 2}
  MinCapacity = 1
  Second = 2
  MaxTick = 5
  MaxLen = 2
  MaxFetches = 2
  QueryRequests <- MCRequests
  MaxQueries = 2
  Scenes <- MCScenes
INVARIANTS
  BlockingInv
  CopyIsWhole
  ReplyIsTrue
PROPERTIES
  NotModifiedMeansCurrent
  WaitersServed
  QueriesAnswered
CHECK_DEADLOCK FALSE
