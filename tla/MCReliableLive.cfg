SPECIFICATION FairSpec
CONSTANTS
  BrokerDelay = 1
  QueueCap = 2
  SilenceCap = 0
  MsgIds = {7}
  BrokerQos = {0}
  BrokerFits = {TRUE}
  RefusalCodes = {}
  KeepAlive = 8
  MaxRetries = 1
  MaxGap = 1
  CallbackTime = 1
  RequestCap = 2
  MaxConnections = 1
  AppQos = {0, 1, 2}
PROPERTIES CallsReturn
