------------------------------- MODULE Gateway -------------------------------
(***************************************************************************)
(* `wires gateway` (wires/gateway): OAuth for web users (oauth.rs), the    *)
(* authorizations, codes and access tokens it keeps (sessions.rs), who may *)
(* start one (clients.rs), the views it asks a directory for (mod.rs) and  *)
(* the requests it answers (mcp_http.rs).                                  *)
(*                                                                         *)
(* An authorization, its code, the ID token it ends in and the access      *)
(* token are named by one number: random tokens do not repeat.  A browser  *)
(* is one person's.  What a tool call does then is Tools'.                 *)
(***************************************************************************)
EXTENDS Integers, FiniteSets, FiniteSetsExt

CONSTANTS
  Browsers,
  Clients,       \* [id, by, uris]: OAuth clients, as they register
  Uris,          \* redirect URIs: [scheme, host, port]
  PendingTtl, CodeTtl,   \* PENDING_TTL_SECS, CODE_TTL_SECS
  TokenLife,     \* how long the IdP's ID tokens last
  Poll, Wait,    \* view::POLL, VIEW_WAIT
  MaxPending, MaxCodes,  \* MAX_PENDING, MAX_CODES
  MaxAuths,      \* bound: authorizations
  MaxWork,       \* bound: authorizations, the policy's moves and the requests
                 \* waiting for a view, together
  MaxTime,       \* bound: the clock
  MaxRestarts,   \* bound
  Requests,      \* what a client may post to /mcp: see CheckHeaders
  None

VARIABLES
  now,
  pending,    \* Store.pending: authorization -> [client, uri, created]
  codes,      \* Store.codes: code -> [client, uri, user, exp, expires]
  tokens,     \* Store.tokens: access token -> [client, user, exp]
  file,       \* gateway-sessions.json
  consent,    \* each browser's consent cookie
  callback,   \* each browser's callback cookie
  links,      \* authorizations whose IdP link was given out
  signing,    \* callbacks in the exchange: authorization -> [browser, auth, at]
  asks,       \* Views.ask calls under way: see Ask
  views,      \* Views.held: ID token -> [says, cut, asked, exp]
  policy,     \* what the policy has for each browser's person
  edits, restarts,
  began,      \* history: authorizations begun
  confirmed,  \* history: who pressed continue for which client
  given,      \* history: tokens clients were given, with their ID token's exp
  served      \* history: the last request answered, and how long before its
              \* view was cut (0 if no directory answered)

vars == <<now, pending, codes, tokens, file, consent, callback, links, signing, asks, views,
          policy, edits, restarts, began, confirmed, given, served>>

store   == <<pending, codes, tokens, file>>
web     == <<consent, callback, links>>
bounds  == <<policy, edits, restarts>>
history == <<began, confirmed, given, served>>

Signing == 0   \* an ask a callback waits for, not a request

Waiting == {a \in asks : a.by # Signing}
Working == began + edits + Cardinality(Waiting)

Auths == 1..MaxAuths

\* The protocol versions (caller/mcp.rs), and what a request without the header speaks.
Modern == {"2026-07-28"}
Legacy == {"2025-11-25", "2025-06-18", "2025-03-26", "2024-11-05"}
Supported == Modern \cup Legacy
NewestLegacy == "2025-11-25"
Headerless == "2025-03-26"

ASSUME GatewayAssumption ==
  /\ Poll \in Nat \ {0} /\ {Wait, PendingTtl, CodeTtl, TokenLife} \subseteq Nat
  /\ {MaxPending, MaxCodes} \subseteq Nat \ {0}
  /\ MaxAuths \in Nat /\ None \notin Auths /\ None \notin Supported

Empty == [i \in {} |-> 0]

Put(f, i, v) == [j \in DOMAIN f \cup {i} |-> IF j = i THEN v ELSE f[j]]
Keep(f, P(_)) == [i \in {j \in DOMAIN f : P(f[j])} |-> f[i]]
Drop(f, i) == [j \in DOMAIN f \ {i} |-> f[j]]

NotServed == [age |-> 0, init |-> FALSE, header |-> None, version |-> None]

Init ==
  /\ now = 0
  /\ pending = Empty /\ codes = Empty /\ tokens = Empty /\ file = Empty
  /\ consent = [b \in Browsers |-> None] /\ callback = [b \in Browsers |-> None]
  /\ links = {}
  /\ signing = Empty /\ asks = {} /\ views = Empty
  /\ policy = [b \in Browsers |-> "some"]
  /\ edits = 0 /\ restarts = 0
  /\ began = 0 /\ confirmed = Empty /\ given = Empty
  /\ served = NotServed

-----------------------------------------------------------------------------
(* Who may start an authorization. *)

IsLoopback(uri) == uri.host = "localhost"

ValidRedirectUri(uri) == uri.scheme = "https" \/ (uri.scheme = "http" /\ IsLoopback(uri))

\* One registered, or a loopback one on another port.
AllowsRedirect(client, uri) ==
  \E r \in client.uris :
    \/ r = uri
    \/ r.scheme = "http" /\ IsLoopback(r) /\ [r EXCEPT !.port = uri.port] = uri

Valid(client) == client.uris # {} /\ \A uri \in client.uris : ValidRedirectUri(uri)

\* A registered client's id carries its registration, under the gateway's own
\* key, which a restart keeps.
Registered(client) == client.by = "registration" /\ Valid(client)

\* Its metadata document, fetched from the URL that is its id.
Documented(client) == client.by = "document" /\ client.names_itself /\ Valid(client)

Known(client) == Registered(client) \/ Documented(client)

-----------------------------------------------------------------------------
(* Sessions::Store. *)

\* The cap: what is left once the oldest have made room for one more.
Evict(f, cap, Age(_)) ==
  CHOOSE g \in {[i \in S |-> f[i]] : S \in SUBSET DOMAIN f} :
    /\ Cardinality(DOMAIN g) = Min({Cardinality(DOMAIN f), cap - 1})
    /\ \A i \in DOMAIN g, j \in DOMAIN f \ DOMAIN g : Age(f[j]) <= Age(f[i])

Live(a) == a.created + PendingTtl > now

Begun(i, a) == Put(Evict(Keep(pending, Live), MaxPending, LAMBDA p : p.created), i, a)

\* A code issued for a callback that began at `at`.
Issued(i, grant, at) ==
  Put(Evict(Keep(codes, LAMBDA c : c.expires > at), MaxCodes, LAMBDA c : c.expires), i, grant)

\* redeem_code: gone whatever the outcome.
RedeemCode(i) == Drop(codes, i)

\* issue_token, and what it persists.
WithToken(i, session) == Put(Keep(tokens, LAMBDA s : s.exp > now), i, session)

-----------------------------------------------------------------------------
(* OAuth. *)

\* GET /authorize of a client that checks out, in some browser; the ones that
\* do not change nothing.
Authorize(b, client, uri) ==
  /\ began < MaxAuths /\ Working < MaxWork
  /\ Known(client) /\ AllowsRedirect(client, uri)
  /\ began' = began + 1
  /\ pending' = Begun(began', [client |-> client.id, uri |-> uri, created |-> now])
  /\ consent' = [consent EXCEPT ![b] = began']
  /\ UNCHANGED <<now, codes, tokens, file, callback, links, signing, asks, views, bounds,
                 confirmed, given, served>>

\* POST /authorize/confirm: only in the browser that loaded the page.
Confirm(b, i) ==
  /\ consent[b] = i
  /\ i \in DOMAIN pending /\ Live(pending[i])
  /\ callback' = [callback EXCEPT ![b] = i]
  /\ links' = links \cup {i}
  /\ confirmed' = Put(confirmed, i, [browser |-> b, client |-> pending[i].client])
  /\ UNCHANGED <<now, store, consent, signing, asks, views, bounds, began, given, served>>

\* Mutant of SameBrowser: the callback is taken in any browser.
AnyBrowser(b, i) == TRUE

\* The cookie the confirmation set.
SameBrowser(b, i) == callback[b] = i

\* GET /oauth/callback of the IdP's answer, up to the exchange of its code.
\* The link may be followed in any browser, and more than once.
Callback(b, i) ==
  /\ i \in links
  /\ SameBrowser(b, i)
  /\ i \in DOMAIN pending
  /\ pending' = Drop(pending, i)
  /\ IF Live(pending[i])
     THEN \/ signing' = Put(signing, i, [browser |-> b, auth |-> pending[i], at |-> now])
          \/ UNCHANGED signing              \* the IdP refused, or sent no code
     ELSE UNCHANGED signing
  /\ UNCHANGED <<now, codes, tokens, file, web, asks, views, bounds, history>>

\* An ask of a directory for the view behind ID token `i`, for a callback or
\* one of the session's requests: `cut` is what a directory answered and when.
Ask(i, by, user, exp, req) ==
  [i |-> i, by |-> by, user |-> user, exp |-> exp, req |-> req, since |-> now,
   cut |-> None]

\* cached: what is held, less those whose tokens expired.
Cached == Keep(views, LAMBDA v : v.exp >= now)

\* exchange_code ends: the ID token, for the person whose browser it is, or
\* none; then tools_for asks for the person's view.
Exchanged(i) ==
  /\ i \in DOMAIN signing /\ \A a \in asks : a.i # i
  /\ \/ /\ asks' = asks \cup {Ask(i, Signing, signing[i].browser, now + TokenLife, None)}
        /\ UNCHANGED signing
        /\ views' = Cached
     \/ signing' = Drop(signing, i) /\ UNCHANGED <<asks, views>>
  /\ UNCHANGED <<now, store, web, bounds, history>>

\* POST /token with what the authorization asked for, or with something else.
Token(i, right) ==
  /\ i \in DOMAIN codes
  /\ codes' = RedeemCode(i)
  /\ LET grant == codes[i]
         session == [client |-> grant.client, user |-> grant.user, exp |-> grant.exp]
     IN IF right /\ grant.expires > now /\ grant.exp > now
        THEN /\ tokens' = WithToken(i, session)
             /\ \/ /\ file' = tokens'
                   /\ given' = Put(given, i, [exp |-> grant.exp, times |->
                                IF i \in DOMAIN given THEN given[i].times + 1 ELSE 1])
                \/ UNCHANGED <<file, given>>      \* the file could not be written
        ELSE UNCHANGED <<tokens, file, given>>
  /\ UNCHANGED <<now, pending, web, signing, asks, views, bounds, began, confirmed, served>>

-----------------------------------------------------------------------------
(* The views. *)

\* Mutant of AskedLately: a view is still good when it is a poll old.
UpToAMinute(v) == now - v.asked <= Poll

\* A view asked for less than POLL ago is served as it is.
AskedLately(v) == now - v.asked < Poll

\* The directory cuts its answer, under the policy it has then.
Cuts(a) ==
  /\ a \in asks /\ a.cut = None
  /\ asks' = (asks \ {a}) \cup {[a EXCEPT !.cut = [says |-> policy[a.user], at |-> now]]}
  /\ UNCHANGED <<now, store, web, signing, views, bounds, history>>

HasView(a) == a.cut # None /\ a.cut.says # "refused"
Refused(a) == a.cut # None /\ a.cut.says = "refused"

\* ask ends, with an answer or (at any time, at VIEW_WAIT at the latest) with
\* none; and what was waiting for it goes on.
Asked(a) ==
  /\ a \in asks
  /\ asks' = asks \ {a}
  /\ views' = CASE HasView(a) -> Put(views, a.i, [says |-> a.cut.says, cut |-> a.cut.at,
                                                  asked |-> now, exp |-> a.exp])
                [] Refused(a) -> Drop(views, a.i)
                [] OTHER -> views

\* The callback: a code, if there is a service to call.
CallbackEnds(a) ==
  /\ Asked(a) /\ a.by = Signing
  /\ LET s == signing[a.i]
     IN IF HasView(a) /\ a.cut.says = "some"
        THEN codes' = Issued(a.i, [client |-> s.auth.client, uri |-> s.auth.uri,
                                   user |-> a.user, exp |-> a.exp,
                                   expires |-> s.at + CodeTtl], s.at)
        ELSE UNCHANGED codes
  /\ signing' = Drop(signing, a.i)
  /\ UNCHANGED <<now, pending, tokens, file, web, bounds, history>>

\* A request: from the view given, or where no directory answered from the
\* one held when the request came.
Answer(view, lost, req) ==
  [age |-> IF lost THEN 0 ELSE now - view.cut, init |-> req.init, header |-> req.header,
   version |-> req.version]

RequestEnds(a) ==
  /\ Asked(a) /\ a.by # Signing
  /\ served' = CASE HasView(a) -> Answer([cut |-> a.cut.at], FALSE, a.req)
                 [] a.cut = None /\ a.req.held # None -> Answer(a.req.held, TRUE, a.req)
                 [] OTHER -> served
  /\ UNCHANGED <<now, store, web, signing, bounds, began, confirmed, given>>

-----------------------------------------------------------------------------
(* POST /mcp. *)

\* check_headers of a request, by its header, its body's version, whether its other
\* headers mirror its body, and whether it is an initialize: the version the core is
\* told was negotiated (None in the modern era, and for an initialize), or refused.
CheckHeaders(req) ==
  LET modern == req.body # None \/ req.header \in Modern
      version == IF req.header = None THEN Headerless ELSE req.header
  IN CASE modern -> [ok |-> req.header = req.body /\ req.body \in Supported /\ req.mirrors,
                     negotiated |-> None]
       [] ~modern /\ req.init -> [ok |-> TRUE, negotiated |-> None]
       [] OTHER -> [ok |-> version \in Supported, negotiated |-> version]

\* McpServer::initialize: what it agrees to, asked for `wants`.
Agreed(wants) == IF wants \in Legacy THEN wants ELSE NewestLegacy

\* The version the reply speaks: an initialize's is what it agreed to, whatever the era;
\* else McpServer::version_for.
Speaks(req) ==
  CASE req.init -> Agreed(req.wants)
    [] ~req.init /\ req.body # None -> req.body
    [] OTHER -> CheckHeaders(req).negotiated

\* What a client that was answered `version` sends from then on (mcp_http.rs:11-13).
Onwards(version) ==
  [header |-> version, body |-> None, mirrors |-> FALSE, init |-> FALSE, wants |-> None]

\* A request with the bearer token of a session; a refused one, a
\* notification, and one whose session is over, ask nothing.
Request(i, by, req) ==
  /\ i \in DOMAIN tokens /\ tokens[i].exp > now
  /\ CheckHeaders(req).ok
  /\ \A a \in asks : ~(a.i = i /\ a.by = by)
  /\ by = 2 => \E a \in asks : a.i = i /\ a.by = 1   \* numbers mean nothing more
  /\ LET held == IF i \in DOMAIN Cached THEN Cached[i] ELSE None
         asked == [held |-> held, init |-> req.init, header |-> req.header,
                   version |-> Speaks(req)]
     IN /\ views' = Cached
        /\ IF held # None /\ AskedLately(held)
           THEN served' = Answer(held, FALSE, asked) /\ UNCHANGED asks
           ELSE /\ Working < MaxWork
                /\ asks' = asks \cup {Ask(i, by, tokens[i].user, tokens[i].exp, asked)}
                /\ UNCHANGED served
  /\ UNCHANGED <<now, store, web, signing, bounds, began, confirmed, given>>

-----------------------------------------------------------------------------
\* The admin: a person gains, keeps or loses services, or is removed.
Edit ==
  /\ edits = 0 /\ Working < MaxWork
  /\ edits' = edits + 1
  /\ \E b \in Browsers, says \in {"some", "none", "refused"} :
       policy' = [policy EXCEPT ![b] = says]
  /\ UNCHANGED <<now, store, web, signing, asks, views, restarts, history>>

\* gateway_cmd again: Store::open, and nothing else of what was in memory.
Restart ==
  /\ restarts < MaxRestarts
  /\ restarts' = restarts + 1
  /\ pending' = Empty /\ codes' = Empty /\ views' = Empty
  /\ tokens' = Keep(file, LAMBDA s : s.exp > now)
  /\ signing' = Empty /\ asks' = {}
  /\ UNCHANGED <<now, file, web, policy, edits, history>>

Tick ==
  /\ now < MaxTime
  /\ \A a \in asks : now - a.since < Wait
  /\ now' = now + 1
  /\ UNCHANGED <<store, web, signing, asks, views, bounds, history>>

Next ==
  \/ \E b \in Browsers, c \in Clients, uri \in Uris : Authorize(b, c, uri)
  \/ \E b \in Browsers, i \in Auths : Confirm(b, i) \/ Callback(b, i)
  \/ \E i \in Auths : Exchanged(i)
  \/ \E i \in Auths, right \in BOOLEAN : Token(i, right)
  \/ \E i \in Auths, by \in 1..2, req \in Requests : Request(i, by, req)
  \/ \E a \in asks : Cuts(a) \/ CallbackEnds(a) \/ RequestEnds(a)
  \/ Edit \/ Restart \/ Tick

Spec == Init /\ [][Next]_vars

-----------------------------------------------------------------------------
\* A token speaks for the person in whose browser the consent page's button
\* was pressed, to the client that page named; and a sign-in gives one token
\* at most, whatever is followed, posted or restarted again.
OneTokenForWhoConsented ==
  /\ \A i \in DOMAIN tokens :
       i \in DOMAIN confirmed /\ confirmed[i] = [browser |-> tokens[i].user,
                                                  client |-> tokens[i].client]
  /\ \A i \in DOMAIN given : given[i].times = 1

\* A token a client was given is good until its ID token expires, restarts or
\* not.
TokensOutliveRestarts ==
  \A i \in DOMAIN given : given[i].exp > now => i \in DOMAIN tokens

\* A reply to a request that names a version in its header is in that version.  An
\* initialize's is in one of its own, whatever its header names: one that the client's
\* next requests, naming it, are served in.
InItsVersion(reply) ==
  /\ ~reply.init /\ reply.header # None => reply.version = reply.header
  /\ reply.init => LET next == Onwards(reply.version)
                   IN CheckHeaders(next).ok /\ Speaks(next) = reply.version

\* While directories answer, no request is served from a view cut a minute
\* and a wait ago, whichever of a session's requests asked for it; nor is it
\* answered in a version that its client does not speak.
ServedFromARecentView == served.age < Poll + Wait /\ InItsVersion(served)

\* Tokens are for those who asked for them, and last.
TokensAreDue == OneTokenForWhoConsented /\ TokensOutliveRestarts
=============================================================================
