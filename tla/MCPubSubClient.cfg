SPECIFICATION Spec
CONSTANTS
  BrokerDelay = 1
  QueueCap = 2
  SilenceCap = 12
  MsgIds = {1, 2}
  BrokerQos = {0, 1}
  BrokerFits = {TRUE, FALSE}
  RefusalCodes = {5}
  KeepAlive = 8
  SocketTimeout = 2
  MaxGap = 1
  CallbackTime = 1
  IdSpace = 3
INVARIANTS ConnectedMeansAccepted PingAccounting AckConservation SilenceBounded
PROPERTIES OnlyHungIsDropped ImplementsSession
