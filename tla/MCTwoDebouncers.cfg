SPECIFICATION BothSpec
CONSTANTS
  Interval = 4
  SlowInterval = 7
PROPERTIES ChangeIsStable ChangesApart SwitchIsSeen ImplementsButton
