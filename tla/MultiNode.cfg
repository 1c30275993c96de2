\* Three nodes of the tracked file, one or two at a time.
SPECIFICATION FairSpec
CONSTANTS
  N = 3
  Profiles = {"default", "alias", "rw2", "mixed"}
  Default = "default"
  Account <- MCAccount
  AuthLists <- MCAuthLists
  Jobs = {1, 2}
  Tracked = {1, 2, 3}
  MaxTries = 2
INVARIANTS
  TypeOK
  LostToPartialOverlapOnly
  GreenMeansAllPassed
PROPERTIES
  RunEnds
