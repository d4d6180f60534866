SPECIFICATION Spec
CONSTANTS
  BrokerDelay = 1
  QueueCap = 2
  SilenceCap = 0
  MsgIds = {7, 8}
  BrokerQos = {0, 1, 2}
  BrokerFits = {TRUE}
  RefusalCodes = {1}
  KeepAlive = 2
  MaxRetries = 1
  MaxGap = 1
  CallbackTime = 0
  RequestCap = 3
  MaxConnections = 1
  AppQos = {0, 1, 2}
INVARIANTS CopiesBounded
PROPERTIES SuccessMeansHandled
