----------------------------- MODULE Witnesses -----------------------------
(***************************************************************************)
(* What the directories of a network promise, whatever they run on: each   *)
(* is a register that holds one root-signed head, moves only to a strictly *)
(* newer one, and signs words only for the head it then holds.  The        *)
(* detailed Directories implements it; Calling builds on it.               *)
(***************************************************************************)
EXTENDS Policies

CONSTANTS
  CanLoseAdmin,  \* whether the admin's policy.json may be lost and copied back
  ShownLapsed,   \* bound: how long after it lapsed a word is still shown
  MaxTime        \* bound: the last instant

ASSUME WitnessesAssumption ==
  /\ CanLoseAdmin \in BOOLEAN
  /\ ShownLapsed \in Nat
  /\ MaxTime \in Nat

VARIABLES
  now,     \* the admin's clock
  signed,  \* every head the root ever signed and stored
  holds,   \* the head each directory holds
  words    \* every word announced that anyone may still show

vars == <<now, signed, holds, words>>

Clock(n) == now + Ahead[n]

\* The words that anyone may still show at t.
Remembered(ws, t) == {w \in ws : w.until + ShownLapsed >= t}

TypeOK ==
  /\ now \in Nat
  /\ signed \subseteq Heads
  /\ holds \in [Nodes -> Heads \cup {NoHead}]
  /\ words \subseteq Words

Init ==
  /\ now = 0
  /\ signed = {FirstHead}
  /\ holds = [n \in Nodes |-> NoHead]
  /\ words = {}

Tick ==
  /\ now < MaxTime
  /\ now' = now + 1
  /\ words' = Remembered(words, now')
  /\ UNCHANGED <<signed, holds>>

\* The admin signs the next version: over the newest head, or, its copy lost
\* and copied back from a node, over an older one.
Issue(base, directories, hosts) ==
  /\ base.version < MaxVersion
  /\ CanLoseAdmin \/ \A h \in signed : Covers(base, h)
  /\ KeepsADirectory(base, directories)
  /\ signed' = signed \cup {NextHead(base, directories, hosts, now)}
  /\ UNCHANGED <<now, holds, words>>

\* Directory n comes to hold the newer h, and vouches for nothing yet.
Take(n, h) ==
  /\ IsNewer(h, holds[n])
  /\ holds' = [holds EXCEPT ![n] = h]
  /\ UNCHANGED <<now, signed, words>>

\* Directory n announces a word for h, the head it then holds, dated when it
\* signed it.
Vouch(n, h, at) ==
  /\ Covers(h, holds[n])
  /\ at <= Clock(n)
  /\ SignFresh(n, h, at) # {}
  /\ holds' = [holds EXCEPT ![n] = h]
  /\ words' = words \cup SignFresh(n, h, at)
  /\ UNCHANGED <<now, signed>>

Next ==
  \/ Tick
  \/ \E base \in signed, directories \in SUBSET Nodes, hosts \in SUBSET Hosts :
       Issue(base, directories, hosts)
  \/ \E n \in Nodes, h \in signed : Take(n, h)
  \/ \E n \in Nodes, h \in signed : \E at \in 0 .. Clock(n) : Vouch(n, h, at)

Spec == Init /\ [][Next]_vars

-----------------------------------------------------------------------------
=============================================================================
