------------------------------ MODULE Policies ------------------------------
(***************************************************************************)
(* The signed data the network agrees on, and the pure checks every role   *)
(* makes on it: policy heads (library/services/head.rs) and the words a    *)
(* directory signs for a head (library/services/fresh.rs).                 *)
(*                                                                         *)
(* A head is a record; two heads are equal exactly when their HeadHash is. *)
(* Signatures are not modelled: every head and word here is one the root,  *)
(* or the directory it names, did sign.  The admin's order of directories  *)
(* is abstracted to a set.                                                 *)
(***************************************************************************)
EXTENDS Integers, FiniteSets

CONSTANTS
  Nodes,            \* the nodes that may be directories, and ...
  Hosts,            \* ... among them, or beside them, the ones that may be hosts
  FirstDirectories, \* the directories and ...
  FirstHosts,       \* ... the hosts of the head the model starts from
  FreshSecs,        \* settings.fresh_secs: how long a word lasts
  ClockSkew,        \* CLOCK_SKEW_SECS
  PolicyTtl,        \* how far ahead of the admin's clock a head expires
  Ahead,            \* how far each node's clock is ahead of the admin's
  MaxVersion        \* bound: the last version the admin signs

ASSUME PoliciesAssumption ==
  /\ IsFiniteSet(Nodes)
  /\ FirstDirectories \subseteq Nodes
  /\ FirstHosts \subseteq Hosts
  /\ FreshSecs \in Nat \ {0}
  /\ ClockSkew \in Nat
  /\ PolicyTtl \in Nat
  /\ Ahead \in [Nodes -> Nat]
  /\ MaxVersion \in Nat \ {0}

Heads == [version : Nat \ {0}, not_after : Nat,
          directories : SUBSET Nodes, hosts : SUBSET Hosts]

\* What a node that holds no policy.json has: version 0, nothing listed.
NoHead == [version |-> 0, not_after |-> 0, directories |-> {}, hosts |-> {}]

FirstHead == [version |-> 1, not_after |-> PolicyTtl,
              directories |-> FirstDirectories, hosts |-> FirstHosts]

\* A directory's statement that head is the newest it holds, from at to until.
Words == [directory : Nodes, head : Heads, at : Nat, until : Nat]

-----------------------------------------------------------------------------
\* SignedPolicyHead::is_newer_than
IsNewer(g, h) == g.version > h.version

\* h is as new as g, and the same head at the same version.
Covers(h, g) == IsNewer(h, g) \/ h = g

\* SignedPolicyHead::check_fresh
Unexpired(h, t) == t <= h.not_after

\* The head sign_next makes of base at time t.
NextHead(base, directories, hosts, t) ==
  [version     |-> base.version + 1,
   not_after   |-> IF t + PolicyTtl > base.not_after
                   THEN t + PolicyTtl ELSE base.not_after,
   directories |-> directories,
   hosts       |-> hosts]

\* edit_policy refuses to leave a network that has directories with none.
KeepsADirectory(base, directories) ==
  base.directories # {} => directories # {}

-----------------------------------------------------------------------------
\* Fresh::sign for d at t.
WordOf(d, h, t) == [directory |-> d, head |-> h, at |-> t, until |-> t + FreshSecs]

\* Directory::sign_fresh: the word, or none for an expired head or one that
\* does not list d.
SignFresh(d, h, t) ==
  IF Unexpired(h, t) /\ d \in h.directories THEN {WordOf(d, h, t)} ELSE {}

\* Fresh::verify
Verifies(w, h) ==
  /\ w.head = h
  /\ w.directory \in h.directories
  /\ w.at <= w.until
  /\ w.until - w.at <= FreshSecs

\* Fresh::is_current
IsCurrent(w, t) == w.at - ClockSkew <= t /\ t <= w.until

\* Mutant of Vouches: a node may vouch for itself.
VouchesForItself(w, h, host, t) == Verifies(w, h) /\ IsCurrent(w, t)

\* Fresh::vouches, to someone dialing host at t.
Vouches(w, h, host, t) ==
  /\ Verifies(w, h)
  /\ IsCurrent(w, t)
  /\ w.directory = host => h.directories = {host}
=============================================================================
