CONSTANTS
  Bundle = {appA, appB}
  Springboard = springboard
  NoApp = NoApp
  AlertAction = {"accept"}
  MaxSessions = 2
SPECIFICATION Spec
PROPERTY RemovedSessionsAppIsKilled
