SPECIFICATION FairSpec
CONSTANTS
  Clients = {c1, c2}
  m_size = 2
  Fds = {1}
  InLoop = TRUE
  Kept = {c1}
  None = none
CHECK_DEADLOCK FALSE
INVARIANTS
  PointersAlive
  PollerAgrees
PROPERTIES
  ErasedByOwner
  EndedIsClosed
  ClientAccepted
  StopTakesEffect
