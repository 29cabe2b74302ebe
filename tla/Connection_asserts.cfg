SPECIFICATION Spec
CONSTANTS
  SendOutcomes = {"again"}
  UserActs = {"write"}
  RemoteActs = {"shutdown"}
  MsgLen = 1
  MaxAsked = 1
  MaxRemote = 0
  MaxIn = 1
PROPERTY
  AssertsHold
