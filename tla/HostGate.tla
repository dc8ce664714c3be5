------------------------------ MODULE HostGate ------------------------------
(***************************************************************************)
(* A host deciding calls: each connection reads the signed policy again    *)
(* (ServicesHost::policy, wires/host/gate.rs), proves its head, admits the *)
(* caller and the call (admit_caller, admit), runs the service and bridges *)
(* it until it ends (serve_session_permitted and bridge,                   *)
(* wires/host/transport.rs; the handlers of wires/host/native.rs).         *)
(*                                                                         *)
(* Sessions run at once and share the highest version used, the issuers    *)
(* trusted and the permits.  A policy is a version; what it says is one of *)
(* Contents.                                                               *)
(***************************************************************************)
EXTENDS Naturals, FiniteSets

CONSTANTS
  Callers,        \* the nodes that dial
  Issuers,        \* the identity providers
  Sessions,       \* bound: the sessions ever served
  Contents,       \* what a policy may say: see Content
  MaxPreauth,     \* MAX_PREAUTH_SESSIONS
  IsDirectory,    \* whether this host runs a directory too
  RollsBack,      \* whether something puts an older policy file back
  Lingers,        \* whether a service may leave a job that holds its output
  MaxVersion,     \* bound: the policy versions signed
  MaxRestarts     \* bound: restarts of `serve`

\* Under a policy a caller is banned (node or person), in no role, in a role, or
\* in one the service allows, and in every also_require role.
Standing == {"banned", "outsider", "member", "allowed"}
Content == [trusts : SUBSET Issuers, standing : [Callers -> Standing],
            assigned : BOOLEAN, fresh : BOOLEAN]

ASSUME HostGateAssumption ==
  /\ IsFiniteSet(Sessions) /\ Contents \subseteq Content /\ MaxPreauth \in Nat
  /\ IsDirectory \in BOOLEAN /\ RollsBack \in BOOLEAN /\ Lingers \in BOOLEAN
  /\ MaxVersion \in Nat \ {0} /\ MaxRestarts \in Nat /\ Callers # {} /\ Issuers # {}

VARIABLES
  policies,   \* policies[v]: what version v says
  newest,     \* the newest version signed
  disk,       \* the version in policy.json, 0 before there is one
  highWater,  \* high_water: the highest version decided under, in memory
  trust,      \* the issuers tokens are verified under now (IdpTrust)
  permits,    \* permits held by undecided sessions
  serving,    \* "down", "waiting" for a policy that assigns, or "up"
  session,    \* session[s]: its progress
  floor,      \* floor[s]: history, high_water when s began
  lines,      \* lines[s]: log lines written for s
  restarts    \* counts restarts

vars == <<policies, newest, disk, highWater, trust, permits, serving, session, floor,
          lines, restarts>>
world == <<policies, newest, disk, serving, restarts>>

\* Where serve_session_permitted stands: to read the policy; read; noted against
\* high_water; waiting for hello; the token being verified; the service running;
\* ended, its pumps not; over; over because its bridge failed.
Steps == {"new", "entered", "read", "noted", "opened", "verifying", "running",
          "draining", "over", "failed"}

NoSession == [step |-> "new", caller |-> CHOOSE c \in Callers : TRUE, version |-> 0,
              issuer |-> CHOOSE i \in Issuers : TRUE, trusted |-> {}, admitted |-> FALSE,
              gone |-> FALSE, held |-> FALSE]

TypeOK ==
  /\ policies \in [1..MaxVersion -> Content] /\ newest \in 0..MaxVersion
  /\ disk \in 0..newest /\ highWater \in 0..newest /\ trust \subseteq Issuers
  /\ permits \in 0..MaxPreauth /\ serving \in {"down", "waiting", "up"}
  /\ session \in [Sessions -> [step : Steps, caller : Callers, version : 0..MaxVersion,
                    issuer : Issuers, trusted : SUBSET Issuers, admitted : BOOLEAN,
                    gone : BOOLEAN, held : BOOLEAN]]
  /\ floor \in [Sessions -> 0..MaxVersion] /\ lines \in [Sessions -> Nat]
  /\ restarts \in 0..MaxRestarts

Init ==
  /\ policies \in [1..MaxVersion -> Contents] /\ newest \in {0, 1}
  /\ disk = newest /\ highWater = 0 /\ trust = {} /\ permits = 0 /\ serving = "down"
  /\ session = [s \in Sessions |-> NoSession] /\ floor = [s \in Sessions |-> 0]
  /\ lines = [s \in Sessions |-> 0] /\ restarts = 0

Step(s, to) == [session EXCEPT ![s].step = to]

-----------------------------------------------------------------------------
(* The policy, and starting. *)

Sign ==
  /\ newest < MaxVersion
  /\ newest' = newest + 1
  /\ UNCHANGED <<policies, disk, highWater, trust, permits, serving, session, floor,
                 lines, restarts>>

\* The follower, or this host's directory, stores a newer policy.
Adopt ==
  /\ disk < newest
  /\ disk' \in disk+1..newest
  /\ UNCHANGED <<policies, newest, highWater, trust, permits, serving, session, floor,
                 lines, restarts>>

\* "anyone who can write it could put back an older policy".
RollBack ==
  /\ RollsBack
  /\ disk > 1
  /\ disk' \in 1..disk-1
  /\ UNCHANGED <<policies, newest, highWater, trust, permits, serving, session, floor,
                 lines, restarts>>

\* policy(), read at once: what preflight and its callers that do not await use.
Usable(v) == v # 0 /\ v >= highWater
Uses(v) == highWater' = v /\ trust' = policies[v].trusts

Assigns(v) == policies[v].assigned /\ policies[v].fresh

\* serve_until: refuse to start unless the preflight passes; a directory starts
\* without a policy and waits for one (await_assigned).
Start ==
  /\ serving = "down"
  /\ IF Usable(disk) THEN Uses(disk) ELSE UNCHANGED <<highWater, trust>>
  /\ \/ Usable(disk) /\ Assigns(disk) /\ serving' = "up"
     \/ IsDirectory /\ ~(Usable(disk) /\ Assigns(disk)) /\ serving' = "waiting"
  /\ UNCHANGED <<policies, newest, disk, permits, session, floor, lines, restarts>>

\* await_assigned: the directory announced a policy, and the preflight passes.
Assigned ==
  /\ serving = "waiting"
  /\ Usable(disk) /\ Uses(disk) /\ Assigns(disk)
  /\ serving' = "up"
  /\ UNCHANGED <<policies, newest, disk, permits, session, floor, lines, restarts>>

-----------------------------------------------------------------------------
(* Deciding: ServicesProtocol::accept and serve_session_permitted. *)

\* The router accepts sessions as soon as it is up, "waiting" included.
Enter(s, c) ==
  /\ serving # "down"
  /\ session[s].step = "new"
  /\ permits < MaxPreauth
  /\ permits' = permits + 1
  /\ session' = [session EXCEPT ![s].step = "entered", ![s].caller = c]
  /\ floor' = [floor EXCEPT ![s] = highWater]
  /\ UNCHANGED <<world, highWater, trust, lines>>

\* The session returns before the gate has decided: its permit with it.
Undecided(s) ==
  /\ session' = Step(s, "over")
  /\ permits' = permits - 1

\* policy(): read policy.json.
ReadPolicy(s) ==
  /\ session[s].step = "entered"
  /\ IF disk = 0 THEN Undecided(s)
     ELSE session' = [session EXCEPT ![s].step = "read", ![s].version = disk] /\ permits' = permits
  /\ UNCHANGED <<world, highWater, trust, floor, lines>>

\* Mutant of NoteVersion: the check is left out.
NoteAny(s) ==
  /\ session[s].step = "read"
  /\ session' = Step(s, "noted") /\ permits' = permits
  /\ highWater' = IF highWater < session[s].version THEN session[s].version ELSE highWater
  /\ UNCHANGED <<world, trust, floor, lines>>

\* policy(): high_water.fetch_max; an older policy than one used is refused.
NoteVersion(s) ==
  /\ session[s].step = "read"
  /\ IF session[s].version < highWater
     THEN Undecided(s) /\ highWater' = highWater
     ELSE /\ session' = Step(s, "noted") /\ permits' = permits
          /\ highWater' = session[s].version
  /\ UNCHANGED <<world, trust, floor, lines>>

\* policy(): set_trust, then the proof is sent and hello awaited.
SetTrust(s) ==
  /\ session[s].step = "noted"
  /\ trust' = policies[session[s].version].trusts
  /\ session' = Step(s, "opened")
  /\ UNCHANGED <<world, highWater, permits, floor, lines>>

\* Open, hello and invoke arrive; verify_token takes the trust of the moment and may
\* wait for the issuer's keys.
Hello(s, i) ==
  /\ session[s].step = "opened"
  /\ session' = [session EXCEPT ![s].step = "verifying", ![s].issuer = i, ![s].trusted = trust]
  /\ UNCHANGED <<world, highWater, trust, permits, floor, lines>>

\* A frame is missing, late or not the one expected, the token does not verify, or
\* the caller leaves.
RefuseStranger(s) ==
  /\ session[s].step \in {"entered", "opened", "verifying"}
  /\ Undecided(s)
  /\ UNCHANGED <<world, highWater, trust, floor, lines>>

\* The checks of admit_caller and admit, under the version read.
Verified(s) == session[s].issuer \in session[s].trusted
StandingOf(s) == policies[session[s].version].standing[session[s].caller]
Admitted(s) == Verified(s) /\ StandingOf(s) \in {"member", "allowed"}
Callable(s) == Assigns(session[s].version) /\ StandingOf(s) = "allowed"

\* Refused as a stranger; admitted and refused, with its log line; or the ack is
\* written, the service starts and the permit goes back.
Decide(s) ==
  /\ session[s].step = "verifying"
  /\ permits' = permits - 1
  /\ IF Admitted(s) /\ Callable(s)
     THEN session' = [session EXCEPT ![s].step = "running", ![s].admitted = TRUE] /\ lines' = lines
     ELSE /\ session' = [session EXCEPT ![s].step = "over", ![s].admitted = Admitted(s)]
          /\ lines' = IF Admitted(s) THEN [lines EXCEPT ![s] = @ + 1] ELSE lines
  /\ UNCHANGED <<world, highWater, trust, floor>>

-----------------------------------------------------------------------------
(* Running and bridging. *)

\* CallTrace::finish, and the session ends.
Finish(s) ==
  /\ session' = Step(s, "over")
  /\ lines' = [lines EXCEPT ![s] = @ + 1]

\* The caller is gone before the ack, the service is not implemented, or it cannot
\* be spawned.
NeverRuns(s) ==
  /\ session[s].step = "running"
  /\ Finish(s)
  /\ UNCHANGED <<world, highWater, trust, permits, floor>>

\* The dialer disconnects (`shutdown`): it is noticed while the service runs only.
Disconnect(s) ==
  /\ session[s].step \in {"running", "draining"}
  /\ ~session[s].gone
  /\ session' = [session EXCEPT ![s].gone = TRUE]
  /\ UNCHANGED <<world, highWater, trust, permits, floor, lines>>

\* Mutant of Ends: a service is not stopped when its caller is gone.
EndsAttended(s, held) ==
  /\ session[s].step = "running"
  /\ held => Lingers
  /\ ~session[s].gone
  /\ session' = [session EXCEPT ![s].step = "draining", ![s].held = held]
  /\ UNCHANGED <<world, highWater, trust, permits, floor, lines>>

\* bridge's select: the service exits, or is killed (a handler's task aborted)
\* because its caller is gone.  A job it started may hold its output.
Ends(s, held) ==
  /\ session[s].step = "running"
  /\ held => Lingers
  /\ session' = [session EXCEPT ![s].step = "draining", ![s].held = held]
  /\ UNCHANGED <<world, highWater, trust, permits, floor, lines>>
Exits(s) == \E held \in BOOLEAN : Ends(s, held)
Killed(s) == session[s].gone /\ \E held \in BOOLEAN : Ends(s, held)

\* The job that held the output ends, if it ever does.
JobEnds(s) ==
  /\ session[s].held
  /\ session' = [session EXCEPT ![s].held = FALSE]
  /\ UNCHANGED <<world, highWater, trust, permits, floor, lines>>

\* out_task and err_task reach the end of the output: the log line, then Exit.
Drained(s) ==
  /\ session[s].step = "draining"
  /\ ~session[s].held
  /\ Finish(s)
  /\ UNCHANGED <<world, highWater, trust, permits, floor>>

\* The service cannot be waited for, or its output not read: bridge returns the
\* error there, before CallTrace::finish.
BridgeFails(s) ==
  /\ session[s].step \in {"running", "draining"}
  /\ session' = Step(s, "failed")
  /\ UNCHANGED <<world, highWater, trust, permits, floor, lines>>

-----------------------------------------------------------------------------
\* `serve` stops or dies, and may start again: what is in memory is gone.
Restart ==
  /\ serving # "down"
  /\ restarts < MaxRestarts
  /\ restarts' = restarts + 1
  /\ serving' = "down" /\ highWater' = 0 /\ trust' = {} /\ permits' = 0
  /\ session' = [s \in Sessions |->
       IF session[s].step \in {"new", "over", "failed"} THEN session[s] ELSE NoSession]
  /\ floor' = floor
  /\ UNCHANGED <<policies, newest, disk, lines>>

Next ==
  \/ Sign \/ Adopt \/ RollBack \/ Start \/ Assigned \/ Restart
  \/ \E s \in Sessions, c \in Callers : Enter(s, c)
  \/ \E s \in Sessions : ReadPolicy(s)
  \/ \E s \in Sessions : NoteVersion(s)
  \/ \E s \in Sessions : SetTrust(s)
  \/ \E s \in Sessions, i \in Issuers : Hello(s, i)
  \/ \E s \in Sessions : RefuseStranger(s)
  \/ \E s \in Sessions : Decide(s)
  \/ \E s \in Sessions : NeverRuns(s)
  \/ \E s \in Sessions : Disconnect(s)
  \/ \E s \in Sessions : Exits(s)
  \/ \E s \in Sessions : JobEnds(s)
  \/ \E s \in Sessions : Drained(s)
  \/ \E s \in Sessions : BridgeFails(s)

Spec == Init /\ [][Next]_vars

-----------------------------------------------------------------------------
(* What the gate promises. *)

\* "removal is a ban; no restart needed": a session that began after the host had
\* decided under a policy never runs under an older one, whatever is put back on
\* disk, and runs only for a caller its own policy lets call.
BansHold ==
  \A s \in Sessions : session[s].step \in {"running", "draining"} =>
    /\ session[s].version >= floor[s]
    /\ policies[session[s].version].standing[session[s].caller] = "allowed"

\* Every session not yet decided holds one permit, and no other does.
PermitsMatchSessions ==
  permits = Cardinality({s \in Sessions :
              session[s].step \in {"entered", "read", "noted", "opened", "verifying"}})

\* "The host's one log line per call": a call that is over has one exactly when its
\* caller was admitted, and one whose bridge failed has none.
OneLineEach ==
  \A s \in Sessions :
    /\ lines[s] <= 1
    /\ session[s].step = "over" => (lines[s] = 1 <=> session[s].admitted)
    /\ session[s].step = "failed" => session[s].admitted /\ lines[s] = 0

\* "One log line per call.  An admitted call's end ... is one info line" (transport.rs:37),
\* however it ended.
EveryEndIsLogged ==
  \A s \in Sessions : session[s].step \in {"over", "failed"} =>
    (lines[s] = 1 <=> session[s].admitted)

\* The gate as a whole: who runs, what is held meanwhile, and what is logged.
GateIsKept == TypeOK /\ BansHold /\ PermitsMatchSessions /\ OneLineEach

\* The module documentation: the token "verifies under the policy's `issuer` items",
\* that of the policy the session decides under.
VerifiedUnderItsPolicy ==
  \A s \in Sessions : session[s].step = "running" =>
    session[s].issuer \in policies[session[s].version].trusts

\* The bridge runs "until it exits (or stop it when `shutdown` says the dialer is
\* gone)": once the caller is gone the call ends, unless a job the service started
\* holds its output: the bridge reads on until that job ends.
CallEnds ==
  \A s \in Sessions :
    (session[s].step = "running" /\ session[s].gone) ~>
      session[s].step \in {"over", "failed", "new"} \/ session[s].held

\* A killed process and its pumps end: the code awaits nothing else.  Nothing is
\* assumed of a job that holds the output.
LiveSpec ==
  /\ Spec
  /\ \A s \in Sessions : WF_vars(Killed(s)) /\ WF_vars(Drained(s))
=============================================================================
