\* Two applications and two sessions: a session replaced by one for another
\* application, deleted, or shut down, under every interleaving with the device.
CONSTANTS
  Bundle = {appA, appB}
  Springboard = springboard
  NoApp = NoApp
  AlertAction = {"accept"}
  MaxSessions = 2
SPECIFICATION Spec
SYMMETRY AppSymmetry
INVARIANTS
  TypeOK
  AnswerNamesActiveSession
  MonitorsFollowSessions
  LateAlertAtMostOnce
  EnabledMonitorTicks
PROPERTIES
  ImplementsRegistry
  DisabledMonitorRunsDown
