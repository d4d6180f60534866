SPECIFICATION AttendedSpec
CONSTANTS
  Home = home
  Networks = {home}
  Broker = s1
  Servers = {s1, s2}
  Topics = {t1,t2}
  Blank = blank
  WifiTries = 1
  ConnectTries = 1
INVARIANTS SettingsWereEntered SettingsArePersistent ListensToConfigured
PROPERTIES ComesBack
