SPECIFICATION FairSpec
CONSTANTS
  SendOutcomes = {"again"}
  UserActs = {"write"}
  RemoteActs = {"write", "shutdown", "release"}
  MsgLen = 1
  MaxAsked = 2
  MaxRemote = 1
  MaxIn = 2
INVARIANTS
  TypeOK
  NoHandlerAfterClose
  BacklogArmed
  WatchedAlive
  StreamIntact
PROPERTIES
  BacklogDrains
  PeerCloseSeen
