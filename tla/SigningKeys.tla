---------------------------- MODULE SigningKeys -----------------------------
(***************************************************************************)
(* Verifying an ID token (library/calls/idp.rs) against an issuer's keys,  *)
(* which the verifier fetches and caches (wires/caller/jwks.rs).  One      *)
(* verifier, which several tokens may be before at once, the disk it may   *)
(* cache on, and one issuer, which publishes and withdraws keys and may    *)
(* not answer.                                                             *)
(*                                                                         *)
(* A signature is the key that made it; a nonce is the node it was derived *)
(* from.                                                                   *)
(***************************************************************************)
EXTENDS Integers, FiniteSets

CONSTANTS
  Keys,        \* the issuer's, each a Jwk: [name, kid, kty, crv, alg, use]
  Published0,  \* the names of those it publishes at first
  Tokens,      \* what is presented: see VerifyClaim
  Trusted, Audiences, Node,  \* what the verifier accepts
  Google,      \* GOOGLE_ISSUER
  Verifies,    \* calls of KeyFetcher::verify, each a process of its own
  OnDisk,      \* whether it has a cache_dir: a caller or gateway, not a host
  Skew, DefaultTtl, MinTtl, MaxTtl, HttpTimeout, \* as the code's constants
  MaxAges,     \* of the responses; None for none
  None,
  MaxTime, MaxRestarts  \* bounds

\* name is the key itself (n and e, x and y).
JwkFields == {"name", "kid", "kty", "crv", "alg", "use"}

\* The header, the claims, and signer, the key that made the signature.
TokenFields == {"crit", "alg", "kid", "signer", "iss", "aud", "exp", "iat", "nonce",
                "email", "email_verified", "hd"}

ShapeAssumption ==
  /\ \A k \in Keys : DOMAIN k = JwkFields
  /\ \A t \in Tokens : DOMAIN t = TokenFields /\ t.exp \in Nat

\* A name is one key, and an issuer gives no kid to two.
KeysAssumption ==
  /\ Published0 \subseteq {k.name : k \in Keys}
  /\ \A j, k \in Keys : j.name = k.name \/ (j.kid = k.kid /\ j.kid # None) => j = k

TtlAssumption ==
  /\ {MinTtl, DefaultTtl, MaxTtl, HttpTimeout, Skew, MaxTime} \subseteq Nat
  /\ 2 * HttpTimeout < MinTtl /\ MinTtl <= DefaultTtl /\ DefaultTtl <= MaxTtl
  /\ MaxAges \subseteq Nat \cup {None} /\ None \notin 0 .. MaxTime
  /\ None \notin [keys : SUBSET Keys, expires_at : Nat]

VARIABLES
  now,
  published,  \* the issuer's: the names in its document
  since,      \* history: when each key was last published or withdrawn
  memory,     \* keys: [keys, expires_at], or None
  disk,       \* the cache file
  discovered, \* whether the discovery document is memoized
  forced,     \* when it last refetched for an unknown kid, or None
  failed,     \* when a fetch last failed, or None
  verify,     \* each call: [phase, token, at, asked, got, by]
  said,       \* history: the verdict this step gave, of which token; or None
  restarts

vars == <<now, published, since, memory, disk, discovered, forced, failed,
          verify, said, restarts>>
issuer  == <<published, since>>
fetcher == <<memory, disk, discovered, forced, failed>>

Idle == [phase |-> "idle", token |-> None, at |-> 0, asked |-> 0,
         got |-> {}, forced |-> FALSE]

Named(names) == {k \in Keys : k.name \in names}

Init ==
  /\ now = 0
  /\ published = Published0
  /\ since = [k \in Keys |-> None]
  /\ memory \in {None, [keys |-> Named(Published0), expires_at |-> MaxTtl]}  \* of an earlier call
  /\ disk = None /\ discovered = FALSE
  /\ forced \in IF memory = None THEN {None} ELSE {None, 0}
  /\ failed = None
  /\ verify = [v \in Verifies |-> Idle]
  /\ said = None
  /\ restarts = 0

InFlight(v) == verify[v].phase \in {"discovery", "keys", "answered"}

-----------------------------------------------------------------------------
(* verify_claim *)

Fits(alg, k) ==
  /\ CASE alg = "RS256" -> k.kty = "RSA"
       [] alg = "ES256" -> k.kty = "EC" /\ k.crv = "P-256"
  /\ k.alg \in {None, alg}
  /\ k.use \in {None, "sig"}

Candidates(t, keys) == {k \in keys : (t.kid = None \/ k.kid = t.kid) /\ Fits(t.alg, k)}

Signed(t, k) == k.name = t.signer

Algs == {"RS256", "ES256"}

Refusal(why) == [is |-> why]

\* The checks in order: the first that fails is the verdict.
VerifyClaim(t, keys, at) ==
  CASE t.crit -> Refusal("Malformed")
    [] ~t.crit /\ t.alg \notin Algs -> Refusal("UnsupportedAlgorithm")
    [] OTHER ->
       IF Candidates(t, keys) = {} THEN Refusal("UnknownKey")
       ELSE IF \A k \in Candidates(t, keys) : ~Signed(t, k) THEN Refusal("BadSignature")
       ELSE IF t.iss \notin Trusted THEN Refusal("WrongIssuer")
       ELSE IF t.aud \cap Audiences = {} THEN Refusal("WrongAudience")
       ELSE IF at > t.exp + Skew THEN Refusal("Expired")
       ELSE IF t.iat # None /\ t.iat > at + Skew THEN Refusal("NotYetValid")
       ELSE IF t.nonce # Node THEN Refusal("WrongNonce")
       ELSE [is |-> "admitted",
             email |-> IF t.email_verified THEN t.email ELSE None,
             org |-> IF t.iss = Google THEN t.hd ELSE None,
             not_after |-> t.exp]

\* KeyFetcher::verify, once it has keys: an expired token that passes every
\* other check as of its own expiry names its holder.
Verdict(t, keys, at) ==
  LET v == VerifyClaim(t, keys, at) IN
  IF v.is # "Expired" THEN v
  ELSE LET then == VerifyClaim(t, keys, t.exp)
       IN IF then.is = "admitted" THEN [is |-> "Expired", who |-> then.email] ELSE then

-----------------------------------------------------------------------------
(* KeyFetcher::keys *)

HasKid(keys, kid) == \E k \in keys : k.kid = kid

Usable(c) == c.expires_at > now

\* The set in memory, else the one on disk, which goes to memory.
Cached ==
  IF memory # None /\ Usable(memory) THEN memory
  ELSE IF disk # None /\ Usable(disk) /\ disk.expires_at <= now + MaxTtl THEN disk
  ELSE None

\* Mutant of ForcedLately: once per lifetime of a set.
ForcedThisTtl == forced # None /\ now - forced < MaxTtl + 2

ForcedLately == forced # None /\ now - forced < MinTtl
FailedLately == failed # None /\ now - failed < MinTtl

Says(v, t, verdict) ==
  /\ said' = [token |-> t, verdict |-> verdict]
  /\ verify' = [verify EXCEPT ![v] = [Idle EXCEPT !.phase = "done"]]

\* An answer without a fetch.
Untrusted(v, t) ==
  /\ verify[v].phase = "idle"
  /\ t.iss \notin Trusted
  /\ Says(v, t, Refusal("Untrusted"))
  /\ UNCHANGED <<now, issuer, fetcher, restarts>>

FromCache(v, t) ==
  /\ verify[v].phase = "idle"
  /\ t.iss \in Trusted
  /\ Cached # None
  /\ t.kid = None \/ HasKid(Cached.keys, t.kid) \/ ForcedLately
  /\ memory' = Cached
  /\ Says(v, t, Verdict(t, Cached.keys, now))
  /\ UNCHANGED <<now, issuer, disk, discovered, forced, failed, restarts>>

\* No set, or one refetch for the kid it lacks.  The refetch counts as made
\* even if an earlier failure stops it.
Needs(v, t) ==
  /\ verify[v].phase = "idle"
  /\ t.iss \in Trusted
  /\ \/ Cached = None /\ UNCHANGED <<memory, forced>>
     \/ /\ Cached # None /\ t.kid # None /\ ~HasKid(Cached.keys, t.kid) /\ ~ForcedLately
        /\ memory' = Cached /\ forced' = now
  /\ IF FailedLately THEN Says(v, t, Refusal("Unavailable"))
     ELSE /\ verify' = [verify EXCEPT ![v] =
                [phase |-> IF discovered THEN "keys" ELSE "discovery", token |-> t,
                 at |-> now, asked |-> now, got |-> {}, forced |-> Cached # None]]
          /\ said' = None
  /\ UNCHANGED <<now, issuer, disk, discovered, failed, restarts>>

\* discover: its answer is kept for the fetcher's life.
Discovers(v) ==
  /\ verify[v].phase = "discovery"
  /\ discovered' = TRUE
  /\ verify' = [verify EXCEPT ![v].phase = "keys", ![v].asked = now]
  /\ said' = None
  /\ UNCHANGED <<now, issuer, memory, disk, forced, failed, restarts>>

\* The issuer answers the request for its keys; the answer is on its way.
Answers(v) ==
  /\ verify[v].phase = "keys"
  /\ verify' = [verify EXCEPT ![v].phase = "answered", ![v].got = Named(published)]
  /\ said' = None
  /\ UNCHANGED <<now, issuer, fetcher, restarts>>

Ttl(max_age) ==
  LET asked == IF max_age = None THEN DefaultTtl ELSE max_age
  IN IF asked < MinTtl THEN MinTtl ELSE IF asked > MaxTtl THEN MaxTtl ELSE asked

\* fetch: the set is kept from the time the token was presented, over any
\* other that was fetched meanwhile.
Stores(v) ==
  /\ verify[v].phase = "answered"
  /\ \E m \in MaxAges :
       LET set == [keys |-> verify[v].got, expires_at |-> verify[v].at + Ttl(m)] IN
       /\ memory' = set
       /\ disk' \in (IF OnDisk THEN {set, disk} ELSE {disk})  \* a write may fail
  /\ failed' = None
  /\ Says(v, verify[v].token, Verdict(verify[v].token, verify[v].got, verify[v].at))
  /\ UNCHANGED <<now, issuer, discovered, forced, restarts>>

\* No answer in HTTP_TIMEOUT, or one that is refused.
Fails(v) ==
  /\ InFlight(v)
  /\ failed' = verify[v].at
  /\ Says(v, verify[v].token, Refusal("Unavailable"))
  /\ UNCHANGED <<now, issuer, memory, disk, discovered, forced, restarts>>

Restart ==
  /\ restarts < MaxRestarts
  /\ restarts' = restarts + 1
  /\ memory' = None /\ discovered' = FALSE /\ forced' = None /\ failed' = None
  /\ verify' = [v \in Verifies |->
                IF InFlight(v) THEN [Idle EXCEPT !.phase = "done"] ELSE verify[v]]
  /\ said' = None
  /\ UNCHANGED <<now, issuer, disk>>

-----------------------------------------------------------------------------
\* The issuer publishes a key, or withdraws one: each key once.
Rotate(k) ==
  /\ since[k] = None
  /\ published' = IF k.name \in published THEN published \ {k.name}
                  ELSE published \cup {k.name}
  /\ since' = [since EXCEPT ![k] = now]
  /\ said' = None
  /\ UNCHANGED <<now, fetcher, verify, restarts>>

\* A request is over HTTP_TIMEOUT after it was made.
Tick ==
  /\ now < MaxTime
  /\ \A v \in Verifies : InFlight(v) => now - verify[v].asked < HttpTimeout
  /\ now' = now + 1
  /\ said' = None
  /\ UNCHANGED <<issuer, fetcher, verify, restarts>>

Next ==
  \/ \E v \in Verifies, t \in Tokens : Untrusted(v, t) \/ FromCache(v, t) \/ Needs(v, t)
  \/ \E v \in Verifies : Discovers(v) \/ Answers(v) \/ Stores(v) \/ Fails(v)
  \/ Restart
  \/ \E k \in Keys : Rotate(k)
  \/ Tick

Spec == Init /\ [][Next]_vars

-----------------------------------------------------------------------------
Cache == {None} \cup [keys : SUBSET Keys, expires_at : 0 .. MaxTime + MaxTtl]

TypeOK ==
  /\ now \in 0 .. MaxTime
  /\ published \subseteq {k.name : k \in Keys}
  /\ memory \in Cache /\ disk \in Cache
  /\ forced \in {None} \cup 0 .. MaxTime /\ failed \in {None} \cup 0 .. MaxTime
  /\ \A v \in Verifies : verify[v].phase \in {"idle", "discovery", "keys", "answered", "done"}

KeyOf(t) == CHOOSE k \in Keys : k.name = t.signer

\* How long after a key was published or withdrawn that is still news.
New(k, for) == since[k] # None /\ now < since[k] + for

\* Published now, or within MAX_TTL of now: jwks.rs:10-17.
Vouched(t) ==
  \/ t.signer \in published
  \/ New(KeyOf(t), MaxTtl)

\* A token is admitted, or its holder named, only if its issuer is trusted,
\* the key that signed it is of the kind it says and is one the issuer still
\* publishes or did within MAX_TTL, and it was minted for this audience and
\* node; an address nobody verified is never passed on.  Whatever was
\* cached, on disk or on its way when the issuer withdrew the key.  The order
\* of verify_claim's checks, the two passes over an expired token, the disk
\* cache's own lifetime (idp.rs:345-445, jwks.rs:200-259).
VerdictsAreDeserved ==
  (said # None /\ said.verdict.is \in {"admitted", "Expired"}) =>
    LET t == said.token IN
    /\ t.iss \in Trusted /\ t.aud \cap Audiences # {} /\ t.nonce = Node /\ ~t.crit
    /\ Fits(t.alg, KeyOf(t)) /\ Vouched(t)
    /\ said.verdict.is = "admitted" =>
         /\ said.verdict.email # None => t.email_verified
         /\ said.verdict.org # None => t.iss = Google
         /\ now <= t.exp + Skew + 2 * HttpTimeout
    /\ said.verdict.is = "Expired" => now > t.exp + Skew

\* A refetch for an unknown kid that has not come back, or did not get through.
Refetching ==
  \/ \E v \in Verifies : verify[v].forced
  \/ FailedLately

\* A token signed with a key that the issuer publishes is not refused as signed with an
\* unknown key when the key has been published for MAX_TTL, nor one that names the key
\* when it has for twice MIN_TTL and the time of a fetch, but while the one refetch is
\* on its way or within MIN_TTL of its failing: an issuer may rotate its keys at any
\* time, an older answer may overwrite a newer one, and a refetch counts as made even
\* if an earlier failure stops it (jwks.rs:150-176, 219-262).
NewKeysAccepted ==
  (said # None /\ said.verdict.is = "UnknownKey") =>
    LET t == said.token
        k == KeyOf(t) IN
    \/ t.signer \notin published \/ ~Fits(t.alg, k) \/ t.kid \notin {None, k.kid}
    \/ /\ New(k, MaxTtl)
       /\ t.kid = None \/ New(k, 2 * (MinTtl + HttpTimeout)) \/ Refetching

\* A token is taken when it should be, and only then.
TokensAreJudgedRight == TypeOK /\ VerdictsAreDeserved /\ NewKeysAccepted
=============================================================================
