\* Two connections from a named node or another, over two policies of three.
SPECIFICATION LiveSpec
CONSTANTS
  Nodes = {"a", "b"}
  Conns = {1, 2}
  Contents <- MCContents
  MaxUndecided = 1
  MaxAdmitted = 1
  MaxSubscribers = 1
  MaxVersion = 2
  Expires = TRUE
INVARIANTS DoorHolds
PROPERTIES SubscribersCatchUp UndecidedSlotsReturn
CHECK_DEADLOCK FALSE
