SPECIFICATION Spec
CONSTANTS
  Signals <- MCSignals
  Expected <- MCExpected
  Later <- MCLater
  Entered <- MCEntered
  MaxSent = 2
  Lags = {0, 120}
PROPERTIES SentIsDecoded PartIsNoCode
