---------------------------- MODULE Directories ----------------------------
(***************************************************************************)
(* The admin's edits, and the directories that store, serve and vouch for  *)
(* the newest policy (wires/directory, wires/policy/store.rs,              *)
(* wires/admin/service.rs).                                                *)
(*                                                                         *)
(* A directory process keeps the head it serves in memory (mem, with its   *)
(* own word for it, fresh) and on disk (disk: policy.json).  It has one    *)
(* writer lock, which an accept and a beat each hold over two steps: what  *)
(* they read or store first, and what they announce.  Between the two,     *)
(* readers see the old snapshot, the clock moves, other processes on the   *)
(* keystore adopt policies, and the process may crash.  Those other        *)
(* processes share policy.json and its lock file with the directory.       *)
(***************************************************************************)
EXTENDS Policies

CONSTANTS CanLoseAdmin, ShownLapsed, MaxTime   \* as in Witnesses

VARIABLES
  now,       \* the admin's clock
  signed,    \* every head the root ever signed and stored
  admin,     \* the admin's policy.json
  string,    \* the directories each node's network.json names
  disk,      \* each node's policy.json
  serving,   \* whether the node runs the directory
  mem,       \* Directory.current: the head a running directory serves ...
  fresh,     \* ... and its own word for it, at most one
  beating,   \* a beat under way: what it read and signed, to be announced
  accepting, \* an accept under way: the time its candidate was checked at
  storing,   \* what another process, holding policy.json.lock, is to write
  words      \* every word announced that anyone may still show

vars == <<now, signed, admin, string, disk, serving, mem, fresh, beating,
          accepting, storing, words>>

-----------------------------------------------------------------------------
Clock(n) == now + Ahead[n]

\* No beat is under way.
NoBeat == [head |-> NoHead, fresh |-> {}]

\* Mutant of LockFree: nobody takes Directory.write.
NoLock(n) == TRUE

\* Directory.write is free at n.
LockFree(n) == beating[n] = NoBeat /\ accepting[n] = {}

\* Mutant of FileFree: the lock file is not taken.
NoFileLock(n) == TRUE

\* No other process holds policy.json.lock on n.
FileFree(n) == storing[n] = {}

\* Whether n runs the directory mode: the policy it holds lists it or,
\* holding none, its network string does.
listed(n) ==
  IF disk[n] = NoHead THEN n \in string[n] ELSE n \in disk[n].directories

\* The directories a network string names: the policy's first two.
NetworkString(ds) ==
  {s \in SUBSET ds : Cardinality(s) = IF Cardinality(ds) < 2 THEN Cardinality(ds) ELSE 2}

\* The words that anyone may still show at t.
Remembered(ws, t) == {w \in ws : w.until + ShownLapsed >= t}

\* What a directory process's own steps leave alone.
Steady == UNCHANGED <<now, signed, admin, string, storing>>

TypeOK ==
  /\ now \in Nat
  /\ signed \subseteq Heads
  /\ admin \in Heads
  /\ string \in [Nodes -> SUBSET Nodes]
  /\ disk \in [Nodes -> Heads \cup {NoHead}]
  /\ serving \in [Nodes -> BOOLEAN]
  /\ mem \in [Nodes -> Heads \cup {NoHead}]
  /\ fresh \in [Nodes -> SUBSET Words]
  /\ beating \in [Nodes -> [head : Heads \cup {NoHead}, fresh : SUBSET Words]]
  /\ accepting \in [Nodes -> SUBSET Nat]
  /\ storing \in [Nodes -> SUBSET Heads]
  /\ words \subseteq Words

Init ==
  /\ now = 0
  /\ signed = {FirstHead}
  /\ admin = FirstHead
  /\ string = [n \in Nodes |-> {}]
  /\ disk = [n \in Nodes |-> NoHead]
  /\ serving = [n \in Nodes |-> FALSE]
  /\ mem = [n \in Nodes |-> NoHead]
  /\ fresh = [n \in Nodes |-> {}]
  /\ beating = [n \in Nodes |-> NoBeat]
  /\ accepting = [n \in Nodes |-> {}]
  /\ storing = [n \in Nodes |-> {}]
  /\ words = {}

Tick ==
  /\ now < MaxTime
  /\ now' = now + 1
  /\ words' = Remembered(words, now')
  /\ UNCHANGED <<signed, admin, string, disk, serving, mem, fresh, beating, accepting, storing>>

-----------------------------------------------------------------------------
(* The admin. *)

\* edit_policy: sign and store the version after the stored one.
Sign(directories, hosts) ==
  /\ admin.version < MaxVersion
  /\ KeepsADirectory(admin, directories)
  /\ admin' = NextHead(admin, directories, hosts, now)
  /\ signed' = signed \cup {admin'}
  /\ UNCHANGED <<now, string, disk, serving, mem, fresh, beating, accepting, storing, words>>

AddDirectory(n) ==
  /\ n \notin admin.directories
  /\ Sign(admin.directories \cup {n}, admin.hosts)

RemoveDirectory(n) ==
  /\ n \in admin.directories
  /\ Sign(admin.directories \ {n}, admin.hosts)

AssignHost(n) ==
  /\ n \notin admin.hosts
  /\ Sign(admin.directories, admin.hosts \cup {n})

UnassignHost(n) ==
  /\ n \in admin.hosts
  /\ Sign(admin.directories, admin.hosts \ {n})

\* wires remove <node>: dropped from every service and from the directories.
RemoveNode(n) ==
  /\ n \in admin.directories \cap admin.hosts
  /\ Sign(admin.directories \ {n}, admin.hosts \ {n})

\* A lost policy.json, copied back from a node (admin_policy's way back).
RecoverAdmin(n) ==
  /\ CanLoseAdmin
  /\ disk[n] \notin {NoHead, admin}
  /\ admin' = disk[n]
  /\ UNCHANGED <<now, signed, string, disk, serving, mem, fresh, beating, accepting, storing,
                 words>>

\* wires join on n, with the string wires network prints now.
Join(n) ==
  /\ \E s \in NetworkString(admin.directories) :
       /\ s # string[n]
       /\ string' = [string EXCEPT ![n] = s]
  /\ UNCHANGED <<now, signed, admin, disk, serving, mem, fresh, beating, accepting, storing,
                 words>>

-----------------------------------------------------------------------------
(* A directory. *)

\* open_standalone, Directory::open: read the store, sign a first word.
Start(n) ==
  /\ ~serving[n]
  /\ listed(n)
  /\ LET signs == SignFresh(n, disk[n], Clock(n)) IN
       /\ fresh' = [fresh EXCEPT ![n] = signs]
       /\ words' = words \cup signs
  /\ mem' = [mem EXCEPT ![n] = disk[n]]
  /\ serving' = [serving EXCEPT ![n] = TRUE]
  /\ UNCHANGED <<disk, beating, accepting>>
  /\ Steady

\* Directory::beat: take the lock, read the head served, sign.
BeginBeat(n) ==
  /\ serving[n]
  /\ LockFree(n)
  /\ mem[n] # NoHead
  /\ beating' = [beating EXCEPT ![n] =
       [head |-> mem[n], fresh |-> SignFresh(n, mem[n], Clock(n))]]
  /\ UNCHANGED <<disk, serving, mem, fresh, accepting, words>>
  /\ Steady

\* Directory::beat: announce, release the lock.
AnnounceBeat(n) ==
  /\ beating[n] # NoBeat
  /\ mem' = [mem EXCEPT ![n] = beating[n].head]
  /\ fresh' = [fresh EXCEPT ![n] = beating[n].fresh]
  /\ words' = words \cup beating[n].fresh
  /\ beating' = [beating EXCEPT ![n] = NoBeat]
  /\ UNCHANGED <<disk, serving, accepting>>
  /\ Steady

\* Mutant of BeginAccept: announces before it stores.
AnnounceFirst(n, h) ==
  /\ serving[n]
  /\ Unexpired(h, Clock(n))
  /\ LockFree(n)
  /\ IsNewer(h, mem[n])
  /\ mem' = [mem EXCEPT ![n] = h]
  /\ fresh' = [fresh EXCEPT ![n] = SignFresh(n, h, Clock(n))]
  /\ words' = words \cup fresh'[n]
  /\ accepting' = [accepting EXCEPT ![n] = {Clock(n)}]
  /\ UNCHANGED <<disk, serving, beating>>
  /\ Steady

\* Directory::accept of a publish of h (by anyone: check_head and publish) or
\* of what this node's follower brings: take the lock, wait for policy.json.lock,
\* and store it unless policy.json holds as new a one already.
BeginAccept(n, h) ==
  /\ serving[n]
  /\ Unexpired(h, Clock(n))
  /\ LockFree(n)
  /\ IsNewer(h, mem[n])
  /\ FileFree(n)
  /\ disk' = IF IsNewer(h, disk[n]) THEN [disk EXCEPT ![n] = h] ELSE disk
  /\ accepting' = [accepting EXCEPT ![n] = {Clock(n)}]
  /\ UNCHANGED <<serving, mem, fresh, beating, words>>
  /\ Steady

\* Mutant of AnnounceAccepted: an early return leaves the lock taken.
KeepTheLock(n) ==
  /\ accepting[n] # {}
  /\ IsNewer(disk[n], mem[n])
  /\ mem' = [mem EXCEPT ![n] = disk[n]]
  /\ UNCHANGED <<disk, serving, beating, accepting, fresh, words>>
  /\ Steady

\* Directory::accept: read policy.json back, and when it is newer than the
\* head served, sign a word for it and announce both; release the lock.
AnnounceAccepted(n) ==
  /\ accepting[n] # {}
  /\ IF IsNewer(disk[n], mem[n])
     THEN \E t \in accepting[n] :
            /\ mem' = [mem EXCEPT ![n] = disk[n]]
            /\ fresh' = [fresh EXCEPT ![n] = SignFresh(n, disk[n], t)]
            /\ words' = words \cup SignFresh(n, disk[n], t)
     ELSE UNCHANGED <<mem, fresh, words>>
  /\ accepting' = [accepting EXCEPT ![n] = {}]
  /\ UNCHANGED <<disk, serving, beating>>
  /\ Steady

\* The process ends, at any point: memory goes, policy.json stays.
Crash(n) ==
  /\ serving[n]
  /\ serving' = [serving EXCEPT ![n] = FALSE]
  /\ mem' = [mem EXCEPT ![n] = NoHead]
  /\ fresh' = [fresh EXCEPT ![n] = {}]
  /\ beating' = [beating EXCEPT ![n] = NoBeat]
  /\ accepting' = [accepting EXCEPT ![n] = {}]
  /\ UNCHANGED <<disk, words>>
  /\ Steady

\* Mutant of BeginAdopt: takes any unexpired head it is handed.
BeginAdoptAny(n, h) ==
  /\ Unexpired(h, Clock(n))
  /\ FileFree(n)
  /\ storing' = [storing EXCEPT ![n] = {h}]
  /\ UNCHANGED <<now, signed, admin, string, disk, serving, mem, fresh, beating,
                 accepting, words>>

\* store::adopt_if_newer by another process on n's keystore, a host with no
\* directory mode following one or fetching at its start: check the candidate,
\* take policy.json.lock, and find the stored copy older ...
BeginAdopt(n, h) ==
  /\ Unexpired(h, Clock(n))
  /\ FileFree(n)
  /\ IsNewer(h, disk[n])
  /\ storing' = [storing EXCEPT ![n] = {h}]
  /\ UNCHANGED <<now, signed, admin, string, disk, serving, mem, fresh, beating,
                 accepting, words>>

\* ... then replace the file, and release the lock ...
EndAdopt(n) ==
  /\ \E h \in storing[n] : disk' = [disk EXCEPT ![n] = h]
  /\ storing' = [storing EXCEPT ![n] = {}]
  /\ UNCHANGED <<now, signed, admin, string, serving, mem, fresh, beating,
                 accepting, words>>

\* ... or die before the file is replaced: the system drops the lock.
AbandonAdopt(n) ==
  /\ storing[n] # {}
  /\ storing' = [storing EXCEPT ![n] = {}]
  /\ UNCHANGED <<now, signed, admin, string, disk, serving, mem, fresh, beating,
                 accepting, words>>

Edit ==
  \/ \E n \in Nodes : AddDirectory(n) \/ RemoveDirectory(n)
  \/ \E n \in Hosts : AssignHost(n) \/ UnassignHost(n) \/ RemoveNode(n)

Run(n) ==
  \/ Start(n) \/ BeginBeat(n) \/ AnnounceBeat(n) \/ AnnounceAccepted(n) \/ Crash(n)
  \/ EndAdopt(n) \/ AbandonAdopt(n)
  \/ \E h \in signed : BeginAccept(n, h) \/ BeginAdopt(n, h)

Next == Tick \/ Edit \/ \E n \in Nodes : RecoverAdmin(n) \/ Join(n) \/ Run(n)

Spec == Init /\ [][Next]_vars

\* What the processes and the admin's retries guarantee: an announcement under
\* way is made unless the process ends, not every process that took
\* policy.json.lock dies before its write, and the admin's newest policy is
\* published again (publish_retrying, wires policy push) to a directory that
\* keeps being ready to take it.
Publish(n) == BeginAccept(n, admin)

LiveSpec ==
  /\ Spec
  /\ \A n \in Nodes :
       /\ WF_vars(AnnounceBeat(n))
       /\ WF_vars(AnnounceAccepted(n))
       /\ SF_vars(EndAdopt(n))
       /\ SF_vars(Publish(n))

-----------------------------------------------------------------------------
(* Properties. *)

\* The head directory n answers for: the one it serves or, down, the one it
\* will start from.
Held(n) == IF serving[n] THEN mem[n] ELSE disk[n]

\* A running directory serves a head its store covers, its own word is for
\* that head, and what a beat is about to announce is still that head: what
\* Directory.write is held for across accept's and beat's two halves.
ServesWhatItStored ==
  \A n \in Nodes : serving[n] =>
    /\ Covers(disk[n], mem[n])
    /\ \A w \in fresh[n] : w.head = mem[n] /\ w.directory = n
    /\ beating[n] # NoBeat => beating[n].head = mem[n]

\* The store of every directory covers every word the directory ever
\* announced, so a crash at any point loses no head it vouched for:
\* Directory::accept stores before it announces.
StoreCoversWords == \A w \in words : Covers(disk[w.directory], w.head)

\* So does the head it answers for, which no beat and no restart takes back.
HeldCoversWords == \A w \in words : Covers(Held(w.directory), w.head)

\* Every copy of the policy is one the root signed and the admin stored; only
\* a lost copy lets the admin's fall behind one it signed (sign_next).
CopiesAreSigned ==
  /\ admin \in signed
  /\ \A n \in Nodes : {disk[n], mem[n]} \subseteq signed \cup {NoHead}
  /\ CanLoseAdmin \/ \A h \in signed : Covers(admin, h)

\* A process that is down holds nothing in memory.
DownHoldsNothing ==
  \A n \in Nodes : ~serving[n] =>
    /\ mem[n] = NoHead /\ fresh[n] = {}
    /\ beating[n] = NoBeat /\ accepting[n] = {}

\* Directory.write has one holder, and what it is about to announce was
\* signed by this node, now or before, for a head it may sign for.
OneWriter ==
  \A n \in Nodes :
    /\ beating[n] = NoBeat \/ accepting[n] = {}
    /\ beating[n].fresh = {} \/ \E at \in 0 .. Clock(n) :
         beating[n].fresh = SignFresh(n, beating[n].head, at)
    /\ accepting[n] = {} \/ \E at \in 0 .. Clock(n) : accepting[n] = {at}

\* Who holds policy.json.lock holds a signed head newer than the file: nobody
\* replaced the file since the holder read it.
StoresWhatIsNewer ==
  \A n \in Nodes : \A h \in storing[n] : h \in signed /\ IsNewer(h, disk[n])

\* The inductive invariant of Directory's two-step accept and beat.
Inv ==
  /\ TypeOK
  /\ ServesWhatItStored
  /\ HeldCoversWords
  /\ CopiesAreSigned
  /\ DownHoldsNothing
  /\ OneWriter
  /\ StoresWhatIsNewer

\* policy.json is replaced only by a strictly newer head, although the
\* directory's accept and another process's follower or fetch each compare it
\* with their candidate before they write: policy.json.lock is held across both
\* (adopt_if_newer).
CopiesOnlyGrow ==
  [][\A n \in Nodes : disk'[n] # disk[n] => IsNewer(disk'[n], disk[n])]_vars

\* While a directory runs, the head it serves never goes back: beat does not
\* overwrite what an accept announced after beat read it.
ServedOnlyGrows ==
  [][\A n \in Nodes : serving[n] /\ serving'[n] => Covers(mem'[n], mem[n])]_vars

\* No directory ever announces a word for a head older than (or other than,
\* at one version) one it announced a word for before, across beats, accepts,
\* crashes, restarts, and an admin whose lost copy makes it sign a version
\* twice.
NeverVouchesBackwards ==
  [][\A w \in words' \ words, v \in words :
       w.directory = v.directory => Covers(w.head, v.head)]_vars

\* What the directories promise (Witnesses): each holds one head, which only
\* moves to a newer signed one, and vouches only for it.
Promise == INSTANCE Witnesses WITH holds <- [n \in Nodes |-> Held(n)]

\* Directory's accept, beat, open and crash keep that promise.
ImplementsWitnesses == Promise!Spec

\* The admin's last edit, unless an older copy of the policy replaced what it
\* was made on, reaches every directory it lists that stays up, past beats and
\* other publishes that hold the lock (accept, publish_retrying).
EditArrives ==
  \A n \in Nodes :
    <>[](/\ serving[n] /\ n \in admin.directories /\ Unexpired(admin, Clock(n))
         /\ \A h \in signed : Covers(admin, h))
      => <>[](mem[n] = admin)

\* docs/usage.md:777 of `wires directory serve`: it refuses "a node neither
\* the policy nor the network string lists".  So one that both list, the
\* admin's newest policy and the string it joined again with, may start
\* (listed).
ListedNodeStarts ==
  \A n \in Nodes : n \in admin.directories \cap string[n] => listed(n)
=============================================================================
