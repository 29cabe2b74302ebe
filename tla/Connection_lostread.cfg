SPECIFICATION FairSpec
CONSTANTS
  SendOutcomes = {"again"}
  UserActs = {"write"}
  RemoteActs = {}
  MsgLen = 1
  MaxAsked = 1
  MaxRemote = 0
  MaxIn = 1
PROPERTY
  PeerCloseHandled
