SPECIFICATION CallingSpec
CONSTANTS
  Nodes = {"a"}
  Hosts = {"h"}
  FirstDirectories = {"a"}
  FirstHosts = {"h"}
  FreshSecs = 1
  ClockSkew = 0
  PolicyTtl = 9
  Ahead <- MCInSync
  MaxVersion = 3
  CanLoseAdmin = FALSE
  ShownLapsed = 1
  MaxTime = 3
  Known = {"a"}
  CallerAhead = 1
  RefreshBudget = 1
ACTION_CONSTRAINT OnlyHosts
CONSTRAINT FewWords
INVARIANT SpeaksOnACurrentWord
CHECK_DEADLOCK FALSE
