\* Two browsers and one client of the gateway; two verifications of three tokens
\* under two keys; three messages; two refusals at once, four clients at three addresses.
SPECIFICATION MCSpec
CONSTANTS
  Browsers = {"ann", "bob"}
  Clients <- MCClients
  Uris <- MCUris
  PendingTtl = 1
  CodeTtl = 1
  TokenLife = 3
  Poll = 1
  Wait = 1
  MaxPending = 1
  MaxCodes = 1
  MaxAuths = 2
  MaxWork = 3
  MaxTime = 3
  MaxRestarts = 1
  Requests <- MCRequests
  None = None
  Keys <- MCKeys
  Published0 = {"old"}
  Tokens <- MCTokens
  Trusted = {"google"}
  Audiences = {"wires"}
  Node = "node"
  Google = "google"
  Verifies = {v1, v2}
  OnDisk = TRUE
  Skew = 0
  DefaultTtl = 3
  MinTtl = 3
  MaxTtl = 9
  HttpTimeout = 1
  MaxAges = {11}
  KeysTime = 9
  Small = 2
  Large = 4
  Lengths = {1, 3, 5}
  Messages = 3
  Buffer = 3
  Tasks = {"s", "t"}
  Every = 2
  MaxRefusals = 3
  Callers = {"a", "b", "c", "d"}
  Nets = {1, 2, 3}
  Home <- MCHome
  TrustProxy = FALSE
  PerMinute = 1
  MaxTracked = 2
  Window = 2
  MaxRequests = 4
  FloodTime = 4
INVARIANTS TokensAreDue ServedFromARecentView TokensAreJudgedRight MessagesAsWritten FloodsAreBounded
SYMMETRY MCSymmetry
CHECK_DEADLOCK FALSE
