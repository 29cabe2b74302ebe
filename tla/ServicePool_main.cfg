SPECIFICATION FairSpec
CONSTANTS
  m_size = 3
  MaxHanded = 5
CHECK_DEADLOCK FALSE
INVARIANTS
  ServicesUsable
  Balanced
  OwnerWoken
PROPERTIES
  PoolComesUp
  QuitJoinsAll
