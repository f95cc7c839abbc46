SPECIFICATION FairSpec
CONSTANTS
  Shapes <- Endpoints
  Asyncs = {TRUE, FALSE}
INVARIANTS
  PollInv
  BodyTakenOnce
  OutcomeOfLeaves
  NoLostWakeup
PROPERTY Answered
CHECK_DEADLOCK FALSE
