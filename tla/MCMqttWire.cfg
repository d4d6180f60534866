SPECIFICATION FairSpec
CONSTANTS
  Byte = 32
  Room = 27
  OutMessages <- MCOutMessages
  InMessages <- MCInMessages
  MaxQueue = 2
CHECK_DEADLOCK FALSE
INVARIANTS SentIsUnderstood ReadAsSent
PROPERTIES ReadInTheEnd
