SPECIFICATION Spec
CONSTANTS
  W3CItem <- TestedW3CItem
  AppiumItem <- TestedAppiumItem
  Device <- TestedDevice
  Element <- MCElement
  MaxFingers = 1
  MaxItems = 1
INVARIANT
  ViewportPointsLieWhereTested
