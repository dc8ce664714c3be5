------------------------------ MODULE Publishing ------------------------------
(***************************************************************************)
(* From an admin's edit to the hosts: the command stores the next policy,  *)
(* publishes it to the directories, tries again the ones it missed, says   *)
(* how it went and records whom it reached (wires/admin/propagate.rs,      *)
(* wires/policy/fetch.rs); a host fetches it from a directory.             *)
(*                                                                         *)
(* Several commands may run at once and be killed; a directory may be down,*)
(* busy or refuse, and a try then misses it; an answer may be lost after   *)
(* the directory acted on it; the admin's policy.json may be restored from *)
(* an old copy.  How an edit is made and stored is PolicyEdits', and what  *)
(* a directory does with the exchange is DirectoryDoor's: here each is one *)
(* step.                                                                   *)
(***************************************************************************)
EXTENDS Integers, FiniteSets

CONSTANTS
  Dirs,        \* nodes that may be directories, none of them the admin's own
  FirstDirs,   \* the directories of the first policy
  Commands,    \* admin commands that may run at once
  Hosts,       \* hosts that fetch
  MaxVersion,  \* bound: the last version an edit makes
  MaxFaults    \* bound: commands killed, copies of policy.json restored

PublishingAssumption ==
  FirstDirs \subseteq Dirs /\ MaxVersion \in Nat /\ MaxFaults \in Nat

VARIABLES
  stored,  \* the admin's policy.json
  reached, \* reached.json: the directories recorded as having taken a publish
  noted,   \* history: the directories commands that ended had recorded
  holds,   \* [Dirs -> the policy each directory holds]
  cmd,     \* what each command is doing
  fetches, \* [Hosts -> what each host's fetch is doing]
  has,     \* [Hosts -> the policy each host holds]
  faults   \* how many faults there were

vars == <<stored, reached, noted, holds, cmd, fetches, has, faults>>

\* A policy: its version, its directories, and which edit made it; two heads
\* are equal exactly when their HeadHash is.
NoPolicy == [version |-> 0, dirs |-> {}, by |-> "nobody"]
FirstPolicy == [version |-> 1, dirs |-> FirstDirs, by |-> "init"]

IsNewer(p, q) == p.version > q.version

\* adopt_if_newer, and a directory's own compare.
Adopted(p, held) == IF IsNewer(p, held) THEN p ELSE held

Init ==
  /\ stored = FirstPolicy
  /\ reached = {} /\ noted = {}
  /\ holds = [d \in Dirs |-> NoPolicy]
  /\ cmd = [c \in Commands |-> [at |-> "idle"]]
  /\ fetches = [h \in Hosts |-> "idle"]
  /\ has = [h \in Hosts |-> NoPolicy]
  /\ faults = 0

-----------------------------------------------------------------------------
\* The command: run_edit_with.

Busy(c) == cmd[c].at # "idle"

\* The command records the directories of the policy before its edit
\* (held_directories); retry is which ones it will try again.
Begin(c) ==
  /\ ~Busy(c)
  /\ \E retry \in {"reached", "every"} :
       cmd' = [cmd EXCEPT ![c] = [at |-> "edit", retry |-> retry, earlier |-> stored.dirs]]
  /\ UNCHANGED <<stored, reached, noted, holds, fetches, has, faults>>

\* An edit stores the next policy; policy push edits nothing.
Edit(c) ==
  /\ cmd[c].at = "edit"
  /\ IF cmd[c].retry = "every" THEN UNCHANGED stored
     ELSE /\ stored.version < MaxVersion
          /\ \E dirs \in SUBSET Dirs :
               stored' = [version |-> stored.version + 1, dirs |-> dirs, by |-> c]
  /\ cmd' = [cmd EXCEPT ![c].at = "read"]
  /\ UNCHANGED <<reached, noted, holds, fetches, has, faults>>

\* The edit fails: the command ends, nothing published.
EditFails(c) ==
  /\ cmd[c].at = "edit" /\ cmd[c].retry # "every"
  /\ cmd' = [cmd EXCEPT ![c] = [at |-> "idle"]]
  /\ UNCHANGED <<stored, reached, noted, holds, fetches, has, faults>>

\* publish_targets: the policy's directories and the earlier one's.
Targets(held, earlier) == held.dirs \cup earlier

\* The ones tried again: of those the policy lists, the reached, or all.
Patient(held, retry) == IF retry = "every" THEN held.dirs ELSE reached \cap held.dirs

\* publish_current reads policy.json, publish_current_on reads it again and
\* works out whom to publish to.
ReadStored(c) ==
  /\ cmd[c].at = "read"
  /\ LET held == stored
         k    == cmd[c]
     IN cmd' = [cmd EXCEPT ![c] =
          [at |-> "publish", held |-> held,
           patient |-> Patient(held, k.retry),
           listed |-> held.dirs,
           asking |-> Targets(held, k.earlier),
           delivered |-> {}, missed |-> {}, refused |-> {}, newer |-> {}]]
  /\ UNCHANGED <<stored, reached, noted, holds, fetches, has, faults>>

\* What a directory answered is the very policy published.
SameHead(answer, held) == answer = held

\* The answer holds a newer policy, or another at this version.
IsStale(answer, held) ==
  answer.version > held.version \/ (answer.version = held.version /\ ~SameHead(answer, held))

\* The lists d moves to, of a command's report.
Put(k, d, lists) ==
  [k EXCEPT !.asking = @ \ {d},
            !.delivered = IF "delivered" \in lists THEN @ \cup {d} ELSE @,
            !.missed = IF "missed" \in lists THEN @ \cup {d} ELSE @,
            !.refused = IF "refused" \in lists THEN @ \cup {d} ELSE @,
            !.newer = IF "newer" \in lists THEN @ \cup {d} ELSE @]

\* One exchange of publish_all: the directory takes the policy if it is newer
\* than its own, and answers what it holds then.
Exchange(c, d) ==
  /\ cmd[c].at = "publish" /\ d \in cmd[c].asking
  /\ LET k      == cmd[c]
         answer == Adopted(k.held, holds[d])
     IN  /\ holds' = [holds EXCEPT ![d] = answer]
         /\ cmd' = [cmd EXCEPT ![c] =
                      Put(k, d, IF IsStale(answer, k.held) THEN {"newer"}
                                ELSE IF SameHead(answer, k.held) THEN {"delivered"}
                                ELSE {"missed", "refused"})]
  /\ UNCHANGED <<stored, reached, noted, fetches, has, faults>>

\* The directory does not run, cannot be dialed, is busy, or its answer is lost
\* after it took the policy, or not.
Miss(c, d) ==
  /\ cmd[c].at = "publish" /\ d \in cmd[c].asking
  /\ \/ UNCHANGED holds
     \/ holds' = [holds EXCEPT ![d] = Adopted(cmd[c].held, @)]
  /\ cmd' = [cmd EXCEPT ![c] = Put(cmd[c], d, {"missed"})]
  /\ UNCHANGED <<stored, reached, noted, fetches, has, faults>>

\* The directory answers with a refusal.
Refuse(c, d) ==
  /\ cmd[c].at = "publish" /\ d \in cmd[c].asking
  /\ cmd' = [cmd EXCEPT ![c] = Put(cmd[c], d, {"missed", "refused"})]
  /\ UNCHANGED <<stored, reached, noted, holds, fetches, has, faults>>

\* publish_retrying: whom the next round asks.
Again(k) == (k.missed \cap k.patient) \ k.refused

\* A round is over and there is time for another.
NextRound(c) ==
  /\ cmd[c].at = "publish" /\ cmd[c].asking = {} /\ Again(cmd[c]) # {}
  /\ LET k == cmd[c]
     IN cmd' = [cmd EXCEPT ![c] = [k EXCEPT !.asking = Again(k), !.missed = @ \ Again(k)]]
  /\ UNCHANGED <<stored, reached, noted, holds, fetches, has, faults>>

\* missed_running: the listed directories that missed it and are on record.
MissedRunning(k) == k.missed \cap k.listed \cap reached

\* Propagation::from_publish: how the command ends.
Outcome(k) ==
  IF k.newer # {} THEN "stale"
  ELSE IF MissedRunning(k) # {} THEN "missed" ELSE "ok"

\* The publish is over (everything asked, and no one to ask again or no time
\* left): settle reads reached.json for the outcome.
Settle(c) ==
  /\ cmd[c].at = "publish" /\ cmd[c].asking = {}
  /\ LET k == cmd[c]
     IN cmd' = [cmd EXCEPT ![c] = [at |-> "note", held |-> k.held, listed |-> k.listed,
                                   delivered |-> k.delivered, outcome |-> Outcome(k)]]
  /\ UNCHANGED <<stored, reached, noted, holds, fetches, has, faults>>

\* note_reached reads reached.json again ...
ReadReached(c) ==
  /\ cmd[c].at = "note"
  /\ LET k == cmd[c]
     IN cmd' = [cmd EXCEPT ![c] = [at |-> "write", delivered |-> k.delivered, all |-> reached]]
  /\ UNCHANGED <<stored, reached, noted, holds, fetches, has, faults>>

\* Mutant of WithDelivered: the file names this publish's directories.
DeliveredAlone(all, delivered) == delivered

WithDelivered(all, delivered) == all \cup delivered

\* ... and writes it with the delivered added, unless all are on it.
WriteReached(c) ==
  /\ cmd[c].at = "write"
  /\ LET k == cmd[c]
     IN  /\ reached' = IF k.delivered \subseteq k.all THEN reached
                       ELSE WithDelivered(k.all, k.delivered)
         /\ noted' = noted \cup k.delivered
  /\ cmd' = [cmd EXCEPT ![c] = [at |-> "idle"]]
  /\ UNCHANGED <<stored, holds, fetches, has, faults>>

Kill(c) ==
  /\ Busy(c) /\ faults < MaxFaults /\ faults' = faults + 1
  /\ cmd' = [cmd EXCEPT ![c] = [at |-> "idle"]]
  /\ UNCHANGED <<stored, reached, noted, holds, fetches, has>>

-----------------------------------------------------------------------------
\* The operator restores policy.json from a directory's copy, no command
\* running meanwhile.
Restore ==
  /\ \A c \in Commands : ~Busy(c)
  /\ faults < MaxFaults /\ faults' = faults + 1
  /\ \E d \in Dirs : holds[d] # NoPolicy /\ stored' = holds[d]
  /\ UNCHANGED <<reached, noted, holds, cmd, fetches, has>>

-----------------------------------------------------------------------------
\* A host's fetch (fetch_now), once at a start whose preflight fails: the
\* directories of the policy it holds, or of its network string, asked in turn
\* until an answer settles it or its budget is over.  One that was asked in vain
\* leaves nothing behind; that it is not asked again in the same fetch is left out.

\* directories_of
DirectoriesOf(h) == IF has[h] = NoPolicy THEN FirstDirs ELSE has[h].dirs

StartFetch(h) ==
  /\ fetches[h] = "idle"
  /\ fetches' = [fetches EXCEPT ![h] = "asking"]
  /\ UNCHANGED <<stored, reached, noted, holds, cmd, has, faults>>

\* Mutant of Settled: only the version after the held one is taken.
SettledByNext(answer, held) == answer.version = held.version + 1 \/ answer = held

\* The answer is a newer policy, or says the held one is the current one.
Settled(answer, held) == IsNewer(answer, held) \/ answer = held

\* A directory answers, and that settles the fetch; it vouches only under a
\* head that lists it.
Ask(h, d) ==
  /\ fetches[h] = "asking" /\ d \in DirectoriesOf(h)
  /\ holds[d] # NoPolicy /\ d \in holds[d].dirs /\ Settled(holds[d], has[h])
  /\ has' = [has EXCEPT ![h] = Adopted(holds[d], @)]
  /\ fetches' = [fetches EXCEPT ![h] = "idle"]
  /\ UNCHANGED <<stored, reached, noted, holds, cmd, faults>>

\* Each was asked in vain (it does not run, cannot be dialed, is busy, refuses, or
\* answers what settles nothing: an older policy, one that does not list it, a word
\* that has lapsed), or the COLD_FETCH_BUDGET is over first.
EndFetch(h) ==
  /\ fetches[h] = "asking"
  /\ fetches' = [fetches EXCEPT ![h] = "idle"]
  /\ UNCHANGED <<stored, reached, noted, holds, cmd, has, faults>>

-----------------------------------------------------------------------------
CommandStep(c) ==
  \/ Begin(c) \/ Edit(c) \/ EditFails(c) \/ ReadStored(c) \/ NextRound(c)
  \/ Settle(c) \/ ReadReached(c) \/ WriteReached(c) \/ Kill(c)
  \/ \E d \in Dirs : Exchange(c, d) \/ Miss(c, d) \/ Refuse(c, d)

HostStep(h) == StartFetch(h) \/ EndFetch(h) \/ \E d \in Dirs : Ask(h, d)

Next ==
  \/ \E c \in Commands : CommandStep(c)
  \/ \E h \in Hosts : HostStep(h)
  \/ Restore

Spec == Init /\ [][Next]_vars

\* A command goes on to its end, and a fetch within its budget.  Of the world:
\* the operator runs policy push again and again, and each directory is, in some
\* publish that asks it, reached; a host without the policy it needs is started
\* again and again, its preflight failing until it has it, and where a directory
\* has what settles its fetch, some start is answered.  Nothing makes the
\* operator edit.
OperatorTriesAgain(c) == Begin(c) /\ cmd'[c].retry = "every"
GoesOn(c) ==
  \/ Edit(c) \/ EditFails(c) \/ ReadStored(c) \/ ReadReached(c) \/ WriteReached(c)
  \/ \E d \in Dirs : Miss(c, d)

LiveSpec ==
  /\ Spec
  /\ \A c \in Commands :
       /\ SF_vars(OperatorTriesAgain(c)) /\ WF_vars(GoesOn(c)) /\ SF_vars(Settle(c))
       /\ \A d \in Dirs : SF_vars(Exchange(c, d))
  /\ \A h \in Hosts :
       /\ WF_vars(StartFetch(h)) /\ WF_vars(EndFetch(h))
       /\ SF_vars(\E d \in Dirs : Ask(h, d))

-----------------------------------------------------------------------------
\* A directory reported as delivered holds the very policy published, or one
\* newer (publish_all compares heads, since the same version may be another
\* policy).
DeliveredHolds ==
  \A c \in Commands : cmd[c].at = "publish" =>
    \A d \in cmd[c].delivered : holds[d] = cmd[c].held \/ IsNewer(holds[d], cmd[c].held)

\* A command that succeeds left no directory behind that the policy lists and
\* that took a publish from this admin before (propagate.rs:12-15: "the
\* command fails when a directory the new head lists, and that has taken a
\* publish from this admin before, still missed it").
NoSilentMiss ==
  [][\A c \in Commands :
       cmd[c].at = "publish" /\ cmd'[c].at = "note" /\ cmd'[c].outcome = "ok" =>
         \A d \in cmd[c].listed \cap noted :
           holds[d] = cmd[c].held \/ IsNewer(holds[d], cmd[c].held)]_vars

\* A command that fails as stale is right that this admin's policy.json is
\* behind: some directory holds a newer policy than it, or another at its
\* version (propagate.rs:25-29).
Behind == \E d \in Dirs : holds[d] # stored /\ ~IsNewer(stored, holds[d])
StaleOnlyWhenBehind ==
  [][\A c \in Commands :
       cmd[c].at = "publish" /\ cmd'[c].at = "note" /\ cmd'[c].outcome = "stale" => Behind]_vars

\* What a command says of the directories, as it goes and as it ends, is so.
ReportsAreTrue == []DeliveredHolds /\ NoSilentMiss /\ StaleOnlyWhenBehind

\* With policy push run again and again and the host started again and again, a
\* host comes to hold the stored policy, though tries are lost, budgets run out
\* and commands are killed.  Two hosts are left out: one that still asks a
\* directory an edit dropped, which is told once at most and may go on vouching
\* for the policy before (PublishReport::dropped); and one where a version was
\* signed twice, from a restored policy.json: the node that holds the other
\* signing keeps it (propagate.rs:25-32, the stale copy), and the command says so.
GoesBefore(p) == p = stored \/ IsNewer(stored, p)
HostsGetIt ==
  <>[](\A h \in Hosts :
         /\ DirectoriesOf(h) \subseteq stored.dirs
         /\ GoesBefore(has[h]) /\ \A d \in DirectoriesOf(h) : GoesBefore(holds[d])
         => has[h] = stored)
=============================================================================
