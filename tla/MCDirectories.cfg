SPECIFICATION Spec
CONSTANTS
  Nodes = {"a", "b"}
  Hosts = {"b"}
  FirstDirectories = {"a"}
  FirstHosts = {"b"}
  FreshSecs = 1
  ClockSkew = 0
  PolicyTtl = 1
  Ahead <- MCAhead
  MaxVersion = 3
  CanLoseAdmin = FALSE
  ShownLapsed = 0
  MaxTime = 2
CONSTRAINT NoStrings
INVARIANTS Inv StoreCoversWords
PROPERTIES ImplementsWitnesses
CHECK_DEADLOCK FALSE
