SPECIFICATION Spec
CONSTANTS
  Buffers = {b1, b2}
  Byte = {0, 1}
  Nul = 0
  Data <- MCData
  UintSizes = {1, 2}
  k_system_byteorder = "lite_endian"
  InitSize = 1
  MaxStorage = 10
  SizeMod = 64
VIEW MCView
INVARIANTS
  SpaceEnsured
  IntegerRoundTrip
PROPERTIES
  OnlyResizeCuts
  ImplementsByteQueue
