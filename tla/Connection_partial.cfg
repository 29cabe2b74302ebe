SPECIFICATION Spec
CONSTANTS
  SendOutcomes = {"part"}
  UserActs = {"write"}
  RemoteActs = {}
  MsgLen = 2
  MaxAsked = 2
  MaxRemote = 0
  MaxIn = 1
INVARIANT
  StreamIntact
