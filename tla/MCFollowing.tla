---------------------------- MODULE MCFollowing ----------------------------
(* An instance of Following: which directories each version lists.         *)
EXTENDS Integers

CONSTANTS
  Dirs, Me, OwnDirectory, Lists, FreshSecs, ClockSkew, Ahead, MaxFreshSet, Deaf,
  MaxTime, MaxFaults                                            \* as in Following

VARIABLES
  now, newest, holds, up, disk, own, words, run, pipe, local, faults

F == INSTANCE Following

ASSUME HostAssumption == F!FollowingAssumption

FollowingSpec == F!LiveSpec

\* The second policy drops this host, which is a directory under the first.
MCLists == <<<<"a", "b", "me">>, <<"a", "b">>>>
MCAhead == [d \in Dirs \cup {Me} |-> IF d = "a" THEN 2 ELSE 0]

\* A host's words are those that keep it vouched for (Following).
WordsAreKept == F!WordsAreKept
\* The host comes to hold the newest policy and to be vouched for (Following).
CatchesUp == F!CatchesUp
=============================================================================
