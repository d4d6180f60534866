SPECIFICATION FairSpec
CONSTANTS
  BrokerDelay = 1
  QueueCap = 2
  SilenceCap = 0
  MsgIds = {1}
  BrokerQos = {0, 1}
  BrokerFits = {TRUE, FALSE}
  RefusalCodes = {}
  KeepAlive = 2
  SocketTimeout = 2
  MaxGap = 1
  CallbackTime = 1
  IdSpace = 3
PROPERTIES HungIsNoticed ConnectReturns EventuallyAcked
