CONSTANTS
  Bundle = {appA}
  Springboard = springboard
  NoApp = NoApp
  AlertAction = {"accept"}
  MaxSessions = 2
SPECIFICATION FairSpec
PROPERTIES
  KilledMonitorStops
  WatchedAlertIsClosed
