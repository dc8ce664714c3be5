------------------------------ MODULE MCEdges -------------------------------
(* Where strangers' input comes in: the web gateway's sign-ins, tokens and   *)
(* requests; the keys that tokens are verified with; messages read off a     *)
(* stream; and what bounds a flood of refusals or of requests.  The parts    *)
(* share no state the models keep, so a behaviour is of one of them.         *)
EXTENDS Gateway, Sequences, TLC

CONSTANTS
  Keys, Published0, Tokens, Trusted, Audiences, Node, Google, Verifies, OnDisk, Skew,
  DefaultTtl, MinTtl, MaxTtl, HttpTimeout, MaxAges, KeysTime,  \* as in SigningKeys
  Small, Large, Lengths, Messages, Buffer,                     \* as in Framing
  Tasks, Every, MaxRefusals, Callers, Nets, Home, TrustProxy, PerMinute, MaxTracked, Window,
  MaxRequests, FloodTime                                       \* as in Floods

VARIABLES
  clock, published, since, memory, disk, discovered, forced, failed, verify, said, runs,
                                                               \* as in SigningKeys
  proto, sent, stream, ending, buf, got, result,               \* as in Framing
  time, flood, last, count, task, lines, refusals, seen, requests, granted, forgot,
                                                               \* as in Floods
  part                                       \* which part this behaviour is of

K == INSTANCE SigningKeys WITH MaxTime <- KeysTime, now <- clock, restarts <- runs
M == INSTANCE Framing
F == INSTANCE Floods WITH
       Clients <- Callers, MaxTime <- FloodTime, now <- time, part <- flood, since <- count

verified == <<clock, published, since, memory, disk, discovered, forced, failed, verify,
              said, runs>>
framed == <<proto, sent, stream, ending, buf, got, result>>
flooded == <<time, flood, last, count, task, lines, refusals, seen, requests, granted, forgot>>

ASSUME EdgesAssumption ==
  K!ShapeAssumption /\ K!KeysAssumption /\ K!TtlAssumption /\ M!LimitAssumption /\ F!FloodsAssumption

MCInit ==
  /\ Init /\ K!Init /\ M!Init /\ F!Init
  /\ part \in {"gateway", "keys", "frames", "floods"}
  \* a part that is left alone starts in one way only
  /\ part # "keys" => memory = None
  /\ part # "frames" => proto = CHOOSE p \in M!Protocols : TRUE
  /\ part # "floods" => flood = "throttle"

MCNext ==
  /\ UNCHANGED part
  /\ \/ part = "gateway" /\ Next /\ UNCHANGED <<verified, framed, flooded>>
     \/ part = "keys" /\ K!Next /\ UNCHANGED <<vars, framed, flooded>>
     \/ part = "frames" /\ M!Next /\ UNCHANGED <<vars, verified, flooded>>
     \/ part = "floods" /\ F!Next /\ UNCHANGED <<vars, verified, framed>>

MCSpec == MCInit /\ [][MCNext]_<<vars, verified, framed, flooded, part>>

\* Each is asked of the behaviours of its part: the others leave it as it was.
TokensAreJudgedRight == part = "keys" => K!TokensAreJudgedRight
\* What is read off a stream is what the peer wrote on it, within the limits (Framing).
MessagesAsWritten == part = "frames" => M!TypeOK /\ M!MessagesAsWritten
\* Neither refusals nor a client's requests go past their budget (Floods).
FloodsAreBounded == part = "floods" => F!FloodsAreBounded
-----------------------------------------------------------------------------
Uri(scheme, host, port) == [scheme |-> scheme, host |-> host, port |-> port]

\* The URI a client asks for, on another port than the one it registered.
MCUris == {Uri("http", "localhost", 2)}
MCClients ==
  {[id |-> "native", by |-> "registration", names_itself |-> TRUE,
    uris |-> {Uri("http", "localhost", 1)}]}
Modernly(version) == [Onwards(version) EXCEPT !.body = version, !.mirrors = TRUE]
MCRequests ==
  {Modernly("2026-07-28"), Onwards(None),
   [Onwards("2024-11-05") EXCEPT !.init = TRUE, !.wants = "2025-06-18"]}

Rsa(n) == [name |-> n, kid |-> n, kty |-> "RSA", crv |-> None, alg |-> "RS256", use |-> "sig"]
Ec(n)  == [name |-> n, kid |-> n, kty |-> "EC", crv |-> "P-256", alg |-> None, use |-> None]

\* Two verifications are told apart by nothing but their names.
MCSymmetry == Permutations(Verifies)

MCKeys == {Rsa("old"), Ec("new")}

Good(k, alg, exp) ==
  [crit |-> FALSE, alg |-> alg, kid |-> k, signer |-> k, iss |-> "google", aud |-> {"wires"},
   exp |-> exp, iat |-> 0, nonce |-> "node", email |-> "a", email_verified |-> TRUE,
   hd |-> "org"]

\* Each but the second is refused in the end: it was made for another node, or is of an
\* issuer that is not trusted.  The second is good, with an address nobody verified.
MCTokens ==
  {[Good("new", "ES256", 9) EXCEPT !.nonce = "other"],
   [Good("old", "RS256", 4) EXCEPT !.email_verified = FALSE],
   [Good("old", "RS256", 9) EXCEPT !.iss = "other"]}

\* Four clients, two of them behind one address.
MCHome == [c \in {"a", "b", "c", "d"} |-> IF c \in {"a", "b"} THEN 1 ELSE IF c = "c" THEN 2 ELSE 3]
=============================================================================
