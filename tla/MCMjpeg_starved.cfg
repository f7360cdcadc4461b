CONSTANTS
  Client = {c1}
  NoClient = NoClient
  MaxFrames = 1
  MaxBlocks = 2
SPECIFICATION FairSpec
CHECK_DEADLOCK FALSE
PROPERTY AllConnectedClientsAreStreamed
