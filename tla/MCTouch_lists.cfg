SPECIFICATION Spec
CONSTANTS
  W3CItem <- MCW3CItem
  AppiumItem <- MCAppiumItem
  Device <- MCDevice
  Element <- MCElement
  MaxFingers = 2
  MaxItems = 4
INVARIANTS
  TypeOK
  EventsInOrder
  KeptIsWhatSurvives
  ComesDownWhereItWasLeft
  LiftedInTime
  RaisesOnlyFor
