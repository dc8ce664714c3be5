SPECIFICATION LiveSpec
CONSTANTS
  Nodes = {"a", "b"}
  Hosts = {}
  FirstDirectories = {"a"}
  FirstHosts = {}
  FreshSecs = 1
  ClockSkew = 0
  PolicyTtl = 1
  Ahead <- MCAhead
  MaxVersion = 2
  CanLoseAdmin = TRUE
  ShownLapsed = 0
  MaxTime = 1
PROPERTIES CopiesOnlyGrow NeverVouchesBackwards EditArrives
CHECK_DEADLOCK FALSE
