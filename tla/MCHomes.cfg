\* A command and a poller on one view.json, two directories, two versions; one
\* admin machine, two directories and a host that fetches, one edit and one
\* fault; two processes of serve in one home.
SPECIFICATION MCSpec
CONSTANTS
  Pollers = {"mcp"}
  Commands = {"call"}
  SignIns = {"call"}
  Wholes = {1}
  Directories = {"a", "b"}
  MaxVersion = 2
  Dirs = {"d", "e"}
  FirstDirs = {"d", "e"}
  Admins = {"admin"}
  Fetchers = {"f"}
  MaxFaults = 1
  Procs = {p, q}
  None = None
  Corpse = Corpse
  Versions01 = {0, 1}
  Assigning = {1}
  MaxKills = 1
INVARIANTS ServesItsHome
PROPERTIES KnownWaysBack PollerCatchesUp ReportsAreTrue HostsGetIt StopEnds
CHECK_DEADLOCK FALSE
