SPECIFICATION LiveSpec
CONSTANTS
  Callers = {"c"}
  Messages = {1, 2}
  Fetches = {"f"}
  Standings = {"allowed", "personBanned"}
  QueueCap = 1
  MaxBatch = 1
  MaxPreauth = 1
  MaxFetches = 1
  Ttls = {1}
  CallerAhead = 0
  SavesFail = FALSE
  MaxEvents = 1
INVARIANTS QueuesAreTrue NoPollSleepsOnAMessage 
PROPERTIES QueuedArrives
CHECK_DEADLOCK FALSE
