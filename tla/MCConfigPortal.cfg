SPECIFICATION FairSpec
CONSTANTS
  Credentials = {home, away, typo}
  Good = {home, away}
  None = none
  Configs <- MCConfigs
  Texts = {4}
  Length = 3
  ScanLists <- MCScanLists
  ScanTime = 1
  Pause = 1
  MaxQueue = 1
INVARIANTS TypeOK EndsInTime PageIsRight JoinsTheEntered
PROPERTIES PortalEnds
