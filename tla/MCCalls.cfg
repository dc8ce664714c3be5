\* A directory that is also a host, and another, over two versions; one call
\* among three hosts over three versions; four views and twelve lines of a client; two
\* pushes by a job or by the operator, over two serves and two policies.
SPECIFICATION MCSpec
CONSTANTS
  Nodes = {"a", "b"}
  Hosts = {"b"}
  FirstDirectories = {"a", "b"}
  FirstHosts = {"b"}
  FreshSecs = 1
  ClockSkew = 0
  PolicyTtl = 9
  Ahead <- MCInSync
  MaxVersion = 2
  CanLoseAdmin = FALSE
  ShownLapsed = 0
  MaxTime = 2
  Known = {"a"}
  CallerAhead = 0
  RefreshBudget = 0
  ha = ha
  hb = hb
  hc = hc
  Servers = {ha, hb, hc}
  Policies = {1, 2, 3}
  Serving <- MCServing
  Calling = {"c"}
  DemoteSecs = 1
  Ticks = 1
  Views <- MCViews
  Lines <- MCLines
  Outcomes <- MCOutcomes
  Commands <- MCCommands
  Threshold = 1
  MaxOutput = 4
  MaxLines = 2
  MaxGrants = 1
  Pushers = {"p", "q"}
  Jobs = {"j"}
  Peers = {"m", "n"}
  Role = "staff"
  Deep = TRUE
  Temps = {"tmp", "other"}
  Capacity = 1
  Admissions <- MCAdmissions
  MaxServes = 2
  MaxPolicies = 1
  None = None
ACTION_CONSTRAINT Prompt
CONSTRAINT FewWords
INVARIANTS RemovedNodeWindow ToldWhatIsTheirs CallIsOneHosts ToldOfChanges RepliesAreTrue
CHECK_DEADLOCK FALSE
