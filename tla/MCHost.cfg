\* Two calls by one caller at a host that runs a directory, over three policies;
\* one call's capabilities over a restart; a session of one chunk in and two out,
\* every buffer holding one.
SPECIFICATION MCSpec
CONSTANTS
  Callers = {"c"}
  Issuers = {"i", "j"}
  Sessions = {"s", "t"}
  Contents <- MCContents
  MaxPreauth = 2
  IsDirectory = TRUE
  RollsBack = TRUE
  Lingers = TRUE
  MaxVersion = 2
  MaxRestarts = 1
  Calls = {"c"}
  Nodes = {"m", "n"}
  Grace = 1
  MaxTime = 2
  Window = 1
  Pipe = 1
  Queue = 1
  MaxIn = 1
  MaxOut = 2
INVARIANTS GateIsKept TokensFollowCalls CarriesEveryByte
PROPERTIES CallEnds SessionEnds
CHECK_DEADLOCK FALSE
