SPECIFICATION Spec
CONSTANTS
  Days <- MCDays
  DayTimes <- MCDayTimes
  Frequencies <- MCFrequencies
  REG_RAMSTART = 2
  REG_RAMEND = 5
  Bytes = 8
  Values = {0, 1}
  MaxCount = 4
CHECK_DEADLOCK FALSE
INVARIANTS DatesAreRight AlarmsFire ValidMeansSet AlarmsStay MemoryAndClockApart
PROPERTIES SettingsImplemented
