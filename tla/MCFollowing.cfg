\* A host that runs a directory too, two other directories, and the admin's
\* publishes never reaching one of them.
SPECIFICATION FollowingSpec
CONSTANTS
  Dirs = {"a", "b"}
  Me = "me"
  OwnDirectory = TRUE
  Lists <- MCLists
  FreshSecs = 1
  ClockSkew = 1
  Ahead <- MCAhead
  Deaf = {"a"}
  MaxFreshSet = 2
  MaxTime = 1
  MaxFaults = 1
PROPERTIES WordsAreKept CatchesUp
CHECK_DEADLOCK FALSE
