\* Two casts over each other while the device is locked and unlocked and XCTest is waited for.
CONSTANTS
  Timeout = 2
  MaxPosts = 2
  Image = {imageA, imageB}
  NoImage = NoImage
  MaxCasts = 2
  Tries = 2
SPECIFICATION FairSpec
INVARIANTS
  TypeOK
  SettledBeliefIsTrue
  YesIsWitnessed
  OnlyTheLatestCastRuns
  PeerHasLastImage
PROPERTIES
  RequestRunsDown
  RequestsAreAnswered
  ChangeIsShown
