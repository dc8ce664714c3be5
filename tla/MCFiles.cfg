\* Two admins over four versions; three commands on one keystore; two logins of
\* two people; two messages, two inboxes of which one waits, and one kill.
SPECIFICATION MCSpec
CONSTANTS
  Machines = {"n", "me"}
  IdPs = {"i", "j"}
  Addresses = {"eve", "ann"}
  Groups = {"g"}
  RoleNames = {"staff"}
  ServiceNames = {"svc"}
  Admins = {a, b}
  OwnNode = "me"
  Edits <- MCEdits
  MaxVersion = 4
  Jobs = {j1, j2, j3}
  CommandLines <- MCCommandLines
  Alone = FALSE
  MaxDirectories = 1
  None = None
  Blank = Blank
  Logins = {l1, l2}
  Modes = {"browser", "refresh", "reuse"}
  People = {"alice", "bob"}
  Before = before
  Partial = Partial
  Messages = {1, 2}
  Inboxes = {p, q}
  Waiting = {p}
  MaxUnread = 1
  MaxRead = 1
  MaxBatch = 1
  Lapsing = {2}
  MaxKills = 1
  MaxStarts = 2
INVARIANTS PolicyIsTrue OneSignInIsKept ToldOnce
PROPERTIES EditsStay KeystoreHolds
CHECK_DEADLOCK FALSE
