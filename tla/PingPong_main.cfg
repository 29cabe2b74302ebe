SPECIFICATION FairSpec
CONSTANTS
  block_size = 2
  Endpoints = 2
  Room = 2
  read_size = 1023
  write_size = 1023
CHECK_DEADLOCK FALSE
INVARIANTS
  BuffersApart
  StorageSuffices
  SessionOutlivesOps
  RingIntact
  TotalsClose
PROPERTIES
  TimeoutEndsRun
  SessionFreed
  Circulates
