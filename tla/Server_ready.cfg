SPECIFICATION FairSpec
CONSTANTS
  Clients = {c1}
  m_size = 2
  Fds = {1}
  InLoop = FALSE
  Kept = {c1}
  None = none
CHECK_DEADLOCK FALSE
PROPERTY
  ClientAccepted
