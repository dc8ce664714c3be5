------------------------------- MODULE SignIn -------------------------------
(***************************************************************************)
(* wires login (wires/caller/login.rs): the browser flow, a renewal with   *)
(* the stored refresh token, a re-check of the stored ID token, and the    *)
(* two files that are kept, which the logins run on one keystore share.    *)
(*                                                                         *)
(* An ID token is whom it names and whether its nonce is this node's.  A   *)
(* file is an inode, that of the login that created it, so that a rename   *)
(* moves whatever is at the name by then.  The IdP's keys are              *)
(* SigningKeys's.                                                          *)
(***************************************************************************)
CONSTANTS
  Logins,      \* runs of wires login, each a process of its own
  Modes,       \* how they are run: "browser", "refresh", "reuse"
  People,      \* who may sign in at the IdP
  Before,      \* the sign-in before these, whose files are there or not
  None, Partial

Files == {"token", "refresh"}   \* ID_TOKEN_FILE, REFRESH_TOKEN_FILE

\* Names of logins, people and files' contents that are not one another's.
SignInAssumption ==
  /\ Before \notin Logins /\ None \notin Logins \cup {Before}
  /\ None # Partial
  /\ {None, Partial} \cap (People \cup [who : People, bound : BOOLEAN]) = {}

VARIABLES
  file,     \* file[f]: the inode at the name, or None
  temp,     \* temp[f]: the inode at the name with .tmp, or None
  content,  \* content[l][f]: what login l wrote to its inode, or None
  login,    \* each login: see Idle
  redirect, \* redirects a browser may still make, to a listener
  raced     \* history: a login saved while another held what it was to save

vars == <<file, temp, content, login, redirect, raced>>
disk == <<file, temp, content, raced>>

Idle == [phase |-> "idle", mode |-> None,
         token |-> None,    \* the ID token that it is to verify, or has
         refresh |-> None,  \* the refresh token that came with it
         saving |-> None]   \* the file that it is saving

Token(who, bound) == [who |-> who, bound |-> bound]

Init ==
  /\ \E who \in People :
       /\ content = [l \in Logins \cup {Before} |-> [f \in Files |->
            IF l # Before THEN None ELSE IF f = "token" THEN Token(who, TRUE) ELSE who]]
  /\ file \in {[f \in Files |-> None], [f \in Files |-> Before],
               [f \in Files |-> IF f = "token" THEN Before ELSE None]}
  /\ temp = [f \in Files |-> None]
  /\ login = [l \in Logins |-> Idle]
  /\ redirect = {}
  /\ raced = FALSE

In(l, phase) == login[l].phase = phase
Becomes(l, r) == login' = [login EXCEPT ![l] = r]
Goes(l, phase) == Becomes(l, [login[l] EXCEPT !.phase = phase])

\* What a read of the file finds: None is no file, Partial one not yet written.
Read(f) ==
  IF file[f] = None THEN None
  ELSE IF content[file[f]][f] = None THEN Partial ELSE content[file[f]][f]

-----------------------------------------------------------------------------
(* login_cmd: where the token comes from. *)

Start(l, mode) ==
  /\ In(l, "idle")
  /\ LET r == [Idle EXCEPT !.mode = mode] IN
     CASE mode = "reuse" /\ Read("token") = None -> Becomes(l, [r EXCEPT !.phase = "failed"])
       [] mode = "reuse" /\ Read("token") # None ->
            Becomes(l, [r EXCEPT !.phase = "finish", !.token = Read("token")])
       [] mode = "refresh" /\ Read("refresh") # None ->
            Becomes(l, [r EXCEPT !.phase = "renewing", !.refresh = Read("refresh")])
       [] OTHER -> Becomes(l, [r EXCEPT !.phase = "opening"])
  /\ UNCHANGED <<disk, redirect>>

\* OidcClient::resolve: no client id for the issuer that is named; and no key,
\* a string that does not join.
NotStarted(l) ==
  /\ In(l, "idle")
  /\ Goes(l, "failed")
  /\ UNCHANGED <<disk, redirect>>

\* A login that fails ends, but for a renewal, which signs in again.
Failed(l) ==
  IF login[l].mode = "refresh" /\ login[l].phase \in {"renewing", "finish"}
  THEN Becomes(l, [Idle EXCEPT !.mode = "browser", !.phase = "opening"])
  ELSE Becomes(l, [Idle EXCEPT !.mode = login[l].mode, !.phase = "failed"])

\* refresh: the IdP may leave out the nonce, and the refresh token, when the
\* one there is is kept.
Renew(l) ==
  /\ In(l, "renewing")
  /\ \/ Failed(l)
     \/ /\ login[l].refresh # Partial
        /\ \E bound \in BOOLEAN :
             Becomes(l, [login[l] EXCEPT !.phase = "finish",
                                         !.token = Token(login[l].refresh, bound)])
  /\ UNCHANGED <<disk, redirect>>

\* run_flow: the listener is bound and the browser is opened.
Open(l) ==
  /\ In(l, "opening")
  /\ Goes(l, "waiting") \/ Failed(l)   \* no discovery document; the port is taken
  /\ UNCHANGED <<disk, redirect>>

\* The IdP sends the browser back, to the port of the login.  A code is good
\* for the login whose challenge it was asked with.
SignsIn(l, who) ==
  /\ In(l, "waiting")
  /\ \A r \in redirect : r.of # l
  /\ redirect' = redirect \cup {[of |-> l, to |-> l, who |-> who]}
  /\ UNCHANGED <<disk, login>>

\* A browser makes a request again, and the port is by then another login's.
Strays(l, m) ==
  /\ l # m /\ In(m, "waiting") /\ ~In(l, "waiting")
  /\ \E r \in redirect : r.of = l /\ redirect' = redirect \cup {[r EXCEPT !.to = m]}
  /\ UNCHANGED <<disk, login>>

OwnState(l, r) == r.of = l

\* accept_callback: anything but a redirect to /callback is a 404 and the wait
\* goes on.  An error, another state and no code end the login.
Callback(l, r) ==
  /\ In(l, "waiting") /\ r.to = l
  /\ IF OwnState(l, r) /\ r.who # None
     THEN Becomes(l, [login[l] EXCEPT !.phase = "exchange", !.token = Token(r.who, TRUE)])
     ELSE Failed(l)
  /\ UNCHANGED <<disk, redirect>>

\* Nothing came in CALLBACK_WAIT.
TimesOut(l) ==
  /\ In(l, "waiting")
  /\ Failed(l)
  /\ UNCHANGED <<disk, redirect>>

\* exchange_code: the IdP grants a refresh token, or not, or nothing.
Exchange(l) ==
  /\ In(l, "exchange")
  /\ \/ Failed(l)
     \/ \E rt \in {None, login[l].token.who} :
          Becomes(l, [login[l] EXCEPT !.phase = "finish", !.refresh = rt])
  /\ UNCHANGED <<disk, redirect>>

\* Mutant of Verifies: whatever the IdP replied is taken.
WithNonce(t) == t # Partial

\* A token the IdP answered whole, bound to this node.
Verifies(t) == t # Partial /\ t.bound

\* finish: the token verifies as any verifier would have it, or not.
Finish(l) ==
  /\ In(l, "finish")
  /\ \/ Failed(l)
     \/ /\ Verifies(login[l].token)
        /\ Becomes(l, [login[l] EXCEPT !.phase = "unlink", !.saving = "token"])
  /\ UNCHANGED <<disk, redirect>>

-----------------------------------------------------------------------------
(* save_secret, of the ID token and then of the refresh token. *)

Saving(l) == login[l].phase \in {"unlink", "create", "write", "rename"}

\* It saves, or it is to save what it read from a file earlier.
Holds(l) ==
  \/ Saving(l)
  \/ login[l].mode # "browser" /\ login[l].phase \in {"renewing", "finish"}

Races == raced' = (raced \/ \E l, m \in Logins : l # m /\ Holds(l) /\ Holds(m))

Unlink(l) ==
  /\ In(l, "unlink")
  /\ temp' = [temp EXCEPT ![login[l].saving] = None]
  /\ Goes(l, "create")
  /\ Races
  /\ UNCHANGED <<file, content, redirect>>

\* create_new: another login's .tmp is in the way.
Create(l) ==
  /\ In(l, "create")
  /\ IF temp[login[l].saving] # None
     THEN Failed(l) /\ UNCHANGED temp
     ELSE temp' = [temp EXCEPT ![login[l].saving] = l] /\ Goes(l, "write")
  /\ Races
  /\ UNCHANGED <<file, content, redirect>>

\* write_all and sync_all.
Write(l) ==
  /\ In(l, "write")
  /\ content' = [content EXCEPT ![l][login[l].saving] =
       IF login[l].saving = "token" THEN login[l].token ELSE login[l].refresh]
  /\ Goes(l, "rename")
  /\ Races
  /\ UNCHANGED <<file, temp, redirect>>

Saved(l) ==
  IF login[l].saving = "token" /\ login[l].refresh # None
  THEN [login[l] EXCEPT !.phase = "unlink", !.saving = "refresh"]
  ELSE [login[l] EXCEPT !.phase = "signed in"]

Rename(l) ==
  /\ In(l, "rename")
  /\ LET f == login[l].saving IN
     IF temp[f] = None THEN Failed(l) /\ UNCHANGED <<file, temp>>
     ELSE /\ file' = [file EXCEPT ![f] = temp[f]]
          /\ temp' = [temp EXCEPT ![f] = None]
          /\ Becomes(l, Saved(l))
  /\ Races
  /\ UNCHANGED <<content, redirect>>

Kill(l) ==
  /\ login[l].phase \notin {"idle", "failed", "signed in", "killed"}
  /\ Goes(l, "killed")
  /\ UNCHANGED <<disk, redirect>>

Next ==
  \/ \E l \in Logins, mode \in Modes : Start(l, mode)
  \/ \E l \in Logins : NotStarted(l) \/ Renew(l) \/ Open(l) \/ TimesOut(l) \/ Exchange(l) \/ Finish(l)
                       \/ Unlink(l) \/ Create(l) \/ Write(l) \/ Rename(l) \/ Kill(l)
  \/ \E l \in Logins, who \in People \cup {None} : SignsIn(l, who)
  \/ \E l, m \in Logins : Strays(l, m)
  \/ \E l \in Logins, r \in redirect : Callback(l, r)

Spec == Init /\ [][Next]_vars

-----------------------------------------------------------------------------
TypeOK ==
  /\ file \in [Files -> Logins \cup {Before, None}]
  /\ temp \in [Files -> Logins \cup {None}]
  /\ raced \in BOOLEAN
  /\ \A l \in Logins : login[l].mode \in Modes \cup {"browser", None}

\* Unless logins overlapped while one was saving, the stored ID token is whole, is bound to
\* this node's key and names who signed in, whatever the redirects, whatever
\* the IdP left out of a renewal and wherever a login was killed
\* (login.rs:422-450, 649-672).
OnlyOursIsKept ==
  (~raced /\ file["token"] # None) =>
    /\ Read("token") # Partial /\ Read("token").bound
    /\ file["token"] # Before => login[file["token"]].token = Read("token")

\* It signed somebody in, and was granted no refresh token or did not come to
\* store it.
Half(l) ==
  /\ content[l]["token"] # None /\ login[l].mode # "reuse"
  /\ login[l].refresh = None \/ login[l].phase # "signed in"

\* The stored refresh token renews whom the stored ID token names, but for
\* a sign-in that stored only the one: a renewal never turns into another
\* person's of its own (login.rs:718-760).
RenewsTheSamePerson ==
  (~raced /\ file["token"] # None /\ file["refresh"] # None /\ Read("refresh") # Partial) =>
    \/ Read("refresh") = Read("token").who
    \/ \E l \in Logins : Half(l) /\ content[l]["token"] = Read("token")

\* The sign-in kept is this node's, and one person's.
OneSignInIsKept == TypeOK /\ OnlyOursIsKept /\ RenewsTheSamePerson
=============================================================================
