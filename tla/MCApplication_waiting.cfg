CONSTANTS
  Bundle = {b1, b2}
  NoBundle = NoBundle
  Pid = {i1, i2}
  MaxProcesses = 2
  MaxObjects = 2
  MaxObservers = 2
SPECIFICATION Spec
CHECK_DEADLOCK FALSE
INVARIANT WaitingCanBeTurnedOn
