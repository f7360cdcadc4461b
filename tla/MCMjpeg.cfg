\* Two clients come and go, are disconnected by stop, or connect meanwhile.
\* The program may end with nobody connected: CHECK_DEADLOCK FALSE.
CONSTANTS
  Client = {c1, c2}
  NoClient = NoClient
  MaxFrames = 2
  MaxBlocks = 3
SPECIFICATION FairSpec
CHECK_DEADLOCK FALSE
INVARIANTS
  TypeOK
  ListsFollowConnections
  OnlyOlderFramesOvertakeHeader
  HeaderIsSentOnce
PROPERTIES
  FramesInOrder
  ImplementsFrameStream
  HeaderReachesClient
  FramesReachClient
