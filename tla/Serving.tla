------------------------------- MODULE Serving -------------------------------
(***************************************************************************)
(* `wires serve`, and a host an app embeds, from build to return           *)
(* (wires/host/serve.rs, embed.rs, the bindings' HostBuilder and Host),    *)
(* when several run on one home: what each checks before it serves, the    *)
(* control socket they contend for (control.rs), the wait of a host that   *)
(* is its own directory for a policy that assigns its services, and the    *)
(* shutdown.                                                               *)
(*                                                                         *)
(* A policy is its version.  A socket is named by the process that bound   *)
(* it.  What a serving host decides of its calls is HostGate's, what it    *)
(* pushes Pushing's, what its directory serves Directories'.               *)
(***************************************************************************)
EXTENDS Naturals, FiniteSets

CONSTANTS
  Procs,      \* the hosts built in this home
  None,       \* no file at the socket's path
  Corpse,     \* a socket file whose process was killed
  Versions,   \* of the policy, 0 for none
  Assigning,  \* the versions that assign this node every service
  MaxKills    \* bound: processes killed

ServingAssumption ==
  /\ None \notin Procs /\ Corpse \notin Procs
  /\ Versions \subseteq Nat /\ 0 \in Versions
  /\ MaxKills \in Nat

VARIABLES
  pushes,     \* whether host.json enables push
  listed,     \* whether the policy, or the network string, lists this node
  policy,     \* policy.json: the version this home holds
  path,       \* whose socket file is at the control socket's path
  listening,  \* the processes whose control socket somebody would answer
  proc,       \* each process: see New
  kills,
  raced       \* history: a process removed a socket file it had not probed

vars == <<pushes, listed, policy, path, listening, proc, kills, raced>>
home == <<policy, path, listening, raced>>
fixed == <<pushes, listed>>

New == [phase |-> "builder",
        found |-> None,     \* the file it probed
        child |-> FALSE,    \* its child socket is bound
        stop |-> FALSE,     \* stop() was called, or the signal came
        unseen |-> FALSE,   \* its watch of its directory holds a change
        sends |-> FALSE,    \* its directory stored a policy and has not said so
        took |-> 0]         \* history: the last policy its directory took

Init ==
  /\ pushes \in BOOLEAN /\ listed \in BOOLEAN
  /\ policy \in Versions
  /\ path \in {None, Corpse}
  /\ listening = {} /\ kills = 0 /\ raced = FALSE
  /\ proc = [p \in Procs |-> New]

In(p, phase) == proc[p].phase = phase
Goes(p, phase) == proc' = [proc EXCEPT ![p].phase = phase]

\* serve_until has bound its endpoint and not yet begun to stop.
Up == {"look", "probe", "unlink", "listen", "child", "subscribe", "check",
       "refused", "await", "serving"}

-----------------------------------------------------------------------------
(* The app's side. *)

\* HostBuilder::build: the services named once, host.json valid, a joined
\* keystore, or an error.  Either way the builder is spent.
Build(p) ==
  /\ In(p, "builder")
  /\ Goes(p, "built") \/ Goes(p, "gone")
  /\ UNCHANGED <<fixed, home, kills>>

\* Host::serve, once.  services_host refuses an admin's keystore; a host that
\* runs the directory opens it, another is to pass the preflight.
Serve(p) ==
  /\ In(p, "built")
  /\ \/ Goes(p, "gone")
     \/ Goes(p, IF listed THEN "endpoint" ELSE "preflight")
  /\ UNCHANGED <<fixed, home, kills>>

\* Host::stop, from any thread, before serve or during it; or Ctrl-C.
Stop(p) ==
  /\ ~ proc[p].stop /\ proc[p].phase \notin {"builder", "gone", "killed"}
  /\ proc' = [proc EXCEPT ![p].stop = TRUE]
  /\ UNCHANGED <<fixed, home, kills>>

-----------------------------------------------------------------------------
(* serve_until, up to the endpoint. *)

\* ServicesHost::preflight.
Assigned == policy \in Assigning

Preflight(p) ==
  /\ In(p, "preflight")
  /\ Goes(p, IF Assigned THEN "endpoint" ELSE "fetch")
  /\ UNCHANGED <<fixed, home, kills>>

\* fetch_now: a directory's newer policy, or none in time; then the preflight
\* again, whose error is serve's.
Fetch(p, v) ==
  /\ In(p, "fetch") /\ v >= policy
  /\ policy' = v
  /\ Goes(p, IF v > policy /\ v \in Assigning THEN "endpoint" ELSE "gone")
  /\ UNCHANGED <<fixed, path, listening, raced, kills>>

\* bind_with, and then the router, the followers and the directory are up.
\* A host that does not push goes on to its wait.
Endpoint(p) ==
  /\ In(p, "endpoint")
  /\ \/ Goes(p, "gone")
     \/ Goes(p, IF pushes THEN "look" ELSE IF listed THEN "subscribe" ELSE "serving")
  /\ UNCHANGED <<fixed, home, kills>>

-----------------------------------------------------------------------------
(* push_sockets and ControlSocket::bind. *)

Look(p) ==
  /\ In(p, "look")
  /\ Goes(p, IF path = None THEN "listen" ELSE "probe")
  /\ UNCHANGED <<fixed, home, kills>>

\* is_live: somebody answers.
Live(file) == file \in listening

\* A live socket is another serve's: this one does not start.
Probe(p) ==
  /\ In(p, "probe")
  /\ proc' = [proc EXCEPT ![p].phase = IF Live(path) THEN "stopping" ELSE "unlink",
                          ![p].found = path]
  /\ UNCHANGED <<fixed, home, kills>>

\* The file at the path by now is removed; none there is an error.
Unlink(p) ==
  /\ In(p, "unlink")
  /\ Goes(p, IF path = None THEN "stopping" ELSE "listen")
  /\ path' = None
  /\ raced' = (raced \/ path \notin {None, proc[p].found})
  /\ UNCHANGED <<fixed, policy, listening, kills>>

\* A file there again is EADDRINUSE.
Listen(p) ==
  /\ In(p, "listen")
  /\ IF path = None
     THEN path' = p /\ listening' = listening \cup {p} /\ Goes(p, "child")
     ELSE UNCHANGED <<path, listening>> /\ Goes(p, "stopping")
  /\ UNCHANGED <<fixed, policy, raced, kills>>

\* The child socket is bound in its own new directory, or cannot be: then the
\* operator's task is left running, its handle dropped.
ChildSocket(p) ==
  /\ In(p, "child")
  /\ \/ proc' = [proc EXCEPT ![p].phase = IF listed THEN "subscribe" ELSE "serving",
                             ![p].child = TRUE]
     \/ Goes(p, "stopping")
  /\ UNCHANGED <<fixed, home, kills>>

-----------------------------------------------------------------------------
(* await_assigned, and the directory that wakes it. *)

\* dir.watch(): what was sent before counts as seen.
Subscribe(p) ==
  /\ In(p, "subscribe")
  /\ proc' = [proc EXCEPT ![p].phase = "check", ![p].unseen = FALSE]
  /\ UNCHANGED <<fixed, home, kills>>

Check(p) ==
  /\ In(p, "check")
  /\ Goes(p, IF Assigned THEN "serving" ELSE "refused")
  /\ UNCHANGED <<fixed, home, kills>>

\* Mutant of Sleep: it subscribes only now.
SleepSubscribing(p) ==
  /\ In(p, "refused")
  /\ proc' = [proc EXCEPT ![p].phase = "await", ![p].unseen = FALSE]
  /\ UNCHANGED <<fixed, home, kills>>

\* Why it waits is traced; then changes.changed().
Sleep(p) ==
  /\ In(p, "refused")
  /\ Goes(p, "await")
  /\ UNCHANGED <<fixed, home, kills>>

Changed(p) ==
  /\ In(p, "await") /\ proc[p].unseen
  /\ proc' = [proc EXCEPT ![p].phase = "check", ![p].unseen = FALSE]
  /\ UNCHANGED <<fixed, home, kills>>

\* Its own directory takes a publish, or what its follower received: stored
\* first, then sent to those that watch.
Takes(p, v) ==
  /\ listed /\ proc[p].phase \in Up /\ ~ proc[p].sends
  /\ v > policy
  /\ policy' = v
  /\ proc' = [proc EXCEPT ![p].sends = TRUE, ![p].took = v]
  /\ UNCHANGED <<fixed, path, listening, raced, kills>>

Sends(p) ==
  /\ proc[p].sends
  /\ proc' = [proc EXCEPT ![p].sends = FALSE, ![p].unseen = TRUE]
  /\ UNCHANGED <<fixed, home, kills>>

-----------------------------------------------------------------------------
(* The end. *)

\* Mutant of Ends: a host that waits for its policy does not hear the stop.
EndsServing(p) ==
  /\ proc[p].stop /\ In(p, "serving")
  /\ Goes(p, "stopping")
  /\ UNCHANGED <<fixed, home, kills>>

\* The shutdown resolves, also while it waits; the socket tasks are aborted.
Ends(p) ==
  /\ proc[p].stop /\ proc[p].phase \in {"subscribe", "check", "refused", "await", "serving"}
  /\ Goes(p, "stopping")
  /\ UNCHANGED <<fixed, home, kills>>

\* The followers, the directory, the router and the endpoint are shut down,
\* the child socket's directory removed, and serve_until returns.
Return(p) ==
  /\ In(p, "stopping")
  /\ proc' = [proc EXCEPT ![p].phase = "gone", ![p].sends = FALSE]
  /\ UNCHANGED <<fixed, home, kills>>

\* An aborted task drops its socket, and unlinks the path, whoever's file is
\* there.  Nothing waits for it.
Drop(p) ==
  /\ p \in listening /\ proc[p].child /\ proc[p].phase \in {"stopping", "gone"}
  /\ listening' = listening \ {p}
  /\ path' = None
  /\ raced' = (raced \/ path \notin {None, p})
  /\ UNCHANGED <<fixed, policy, proc, kills>>

\* The whole process, at any time: its socket's file stays.
Kill(p) ==
  /\ kills < MaxKills /\ kills' = kills + 1
  /\ proc[p].phase \in Up \cup {"stopping"} \/ p \in listening
  /\ listening' = listening \ {p}
  /\ path' = IF path = p THEN Corpse ELSE path
  /\ Goes(p, "killed")
  /\ UNCHANGED <<fixed, policy, raced>>

Progress(p) ==
  \/ Preflight(p) \/ Endpoint(p) \/ Look(p) \/ Probe(p) \/ Unlink(p) \/ Listen(p)
  \/ ChildSocket(p) \/ Subscribe(p) \/ Check(p) \/ Sleep(p) \/ Changed(p)
  \/ Ends(p) \/ Return(p)
  \/ \E v \in Versions : Fetch(p, v)

Next ==
  \E p \in Procs :
    \/ Build(p) \/ Serve(p) \/ Stop(p) \/ Progress(p)
    \/ Sends(p) \/ Drop(p) \/ Kill(p)
    \/ \E v \in Versions : Takes(p, v)

Spec == Init /\ [][Next]_vars

\* The runtime polls what is ready; the fetch, the endpoint and the shutdown
\* are each bounded by time limits of their own.  With the stop and a change
\* both ready, select! picks at random, and so neither forever: the stop, once
\* given, stays ready until it is taken.
LiveSpec == Spec /\ \A p \in Procs : WF_vars(Progress(p)) /\ WF_vars(Ends(p))

-----------------------------------------------------------------------------
TypeOK ==
  /\ policy \in Versions
  /\ path \in Procs \cup {None, Corpse}
  /\ listening \subseteq Procs
  /\ kills \in 0 .. MaxKills
  /\ \A p \in Procs :
       /\ proc[p].phase \in Up \cup {"builder", "built", "preflight", "fetch", "endpoint",
                                     "stopping", "gone", "killed"}
       /\ proc[p].took \in Versions

\* Two hosts of one home answer `wires push` at once only after one removed a
\* socket file it had not probed: two that found the same corpse, or one whose
\* drop unlinked another's.  (ControlSocket::bind's probe and Drop.)
OneServeAHome == Cardinality(listening) > 1 => raced

\* A host that is its own directory never sleeps on a policy that would let it
\* serve: when one its directory took is stored, a change is on its way to
\* await_assigned, which subscribed before it looked.
NeverSleepsOnAPolicy ==
  \A p \in Procs :
    In(p, "await") /\ Assigned /\ proc[p].took = policy => proc[p].unseen \/ proc[p].sends

\* A home has the host it should: no second one, and not one that sleeps.
ServesItsHome == TypeOK /\ OneServeAHome /\ NeverSleepsOnAPolicy

\* A host told to stop, before it serves or while it waits, returns.
StopEnds ==
  \A p \in Procs :
    proc[p].stop /\ ~ In(p, "built") ~> proc[p].phase \in {"gone", "killed"}

\* Not checked, since it fails (see README): after serve_until returned,
\* nothing of the host answers on its control socket.
NothingOutlives == \A p \in Procs : In(p, "gone") => p \notin listening

\* Not checked, since it fails (see README): two hosts never share a home.
OneAtATime == Cardinality(listening) <= 1
=============================================================================
