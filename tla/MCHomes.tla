------------------------------ MODULE MCHomes -------------------------------
(* Processes that share a home's files and cannot lock them: callers'        *)
(* view.json, the admin's policy.json and reached.json with the directories  *)
(* it is published to and the hosts that fetch it, and the control socket of *)
(* serve.  The parts share no state the models keep, so a behaviour is of    *)
(* one of them.                                                              *)
EXTENDS ViewFile

CONSTANTS
  Dirs, FirstDirs, Admins, Fetchers, MaxFaults,        \* as in Publishing
  Procs, None, Corpse, Versions01, Assigning, MaxKills \* as in Serving

VARIABLES
  stored, reached, noted, taken, cmd, fetches, has, faults,              \* as in Publishing
  pushes, listed, policy, path, listening, proc, kills, unprobed,        \* as in Serving
  part                                       \* which part this behaviour is of

P == INSTANCE Publishing WITH Commands <- Admins, Hosts <- Fetchers, holds <- taken
S == INSTANCE Serving WITH Versions <- Versions01, raced <- unprobed

published == <<stored, reached, noted, taken, cmd, fetches, has, faults>>
served == <<pushes, listed, policy, path, listening, proc, kills, unprobed>>

ASSUME HomesAssumption ==
  P!PublishingAssumption /\ S!ServingAssumption

MCInit ==
  /\ Init /\ P!Init /\ S!Init
  /\ part \in {"view", "publishing", "serving"}
  \* a part that is left alone starts in one way only
  /\ part # "serving" => ~pushes /\ ~listed /\ policy = 0 /\ path = None

MCNext ==
  /\ UNCHANGED part
  /\ \/ part = "view" /\ Next /\ UNCHANGED <<published, served>>
     \/ part = "publishing" /\ P!Next /\ UNCHANGED <<vars, served>>
     \/ part = "serving" /\ S!Next /\ UNCHANGED <<vars, published>>

\* The fairness of ViewFile, Publishing and Serving, each in its own behaviours.
MCSpec ==
  /\ MCInit /\ [][MCNext]_<<vars, published, served, part>>
  /\ \A p \in Pollers :
       /\ WF_vars(part = "view" /\ PollAnswered(p))
       /\ WF_vars(part = "view" /\ \E d \in Directories : Ask(p, d))
  /\ \A c \in Admins :
       /\ SF_published(part = "publishing" /\ P!OperatorTriesAgain(c))
       /\ WF_published(part = "publishing" /\ P!GoesOn(c))
       /\ SF_published(part = "publishing" /\ P!Settle(c))
       /\ \A d \in Dirs : SF_published(part = "publishing" /\ P!Exchange(c, d))
  /\ \A f \in Fetchers :
       /\ WF_published(part = "publishing" /\ P!StartFetch(f))
       /\ WF_published(part = "publishing" /\ P!EndFetch(f))
       /\ SF_published(part = "publishing" /\ \E d \in Dirs : P!Ask(f, d))
  /\ \A p \in Procs :
       /\ WF_served(part = "serving" /\ S!Progress(p))
       /\ WF_served(part = "serving" /\ S!Ends(p))

\* What a publish reports delivered is held where it says (Publishing).
ReportsAreTrue == P!ReportsAreTrue
\* A signed policy reaches every host that fetches it (Publishing).
HostsGetIt == part = "publishing" => P!HostsGetIt
\* A home has no second host, and not one that sleeps on a policy (Serving).
ServesItsHome == S!ServesItsHome
\* A host told to stop before it serves, or while it waits, returns (Serving).
StopEnds == S!StopEnds
=============================================================================
