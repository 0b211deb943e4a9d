SPECIFICATION PFairSpec
CONSTANTS
  Keys = {"up", "left", "other"}
  Queue = 2
  KeyOrder <- MCKeyOrder
  DirKeys = {"up", "left"}
  MaxUnreported = 2
INVARIANTS
    KeysFollow
PROPERTIES
    LastReleaseCounts
