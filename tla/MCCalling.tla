----------------------------- MODULE MCCalling -----------------------------
(* Small networks for TLC: see the cfg files for the bounds. *)
EXTENDS Calling

\* Directory "b"'s clock runs a second ahead.
MCAhead == [n \in Nodes |-> IF n = "b" THEN 1 ELSE 0]
MCInSync == [n \in Nodes |-> 0]

\* Words are announced as soon as they are signed, and an edit changes one
\* node: what a later or another edit adds is dominated.
Prompt ==
  /\ \A w \in words' \ words : w.at = Clock(w.directory)
  /\ \A h \in signed' \ signed :
       \E g \in signed, n \in Everyone :
         /\ h.version = g.version + 1
         /\ h.directories \ {n} = g.directories \ {n}
         /\ h.hosts \ {n} = g.hosts \ {n}

\* Nor does an edit change the directories.
OnlyHosts == Prompt /\ \A h \in signed' : h.directories = FirstDirectories

\* A host's proof carries at most one word, a directory's two, and the caller
\* keeps at most two.
FewWords ==
  /\ \A c \in call : Cardinality(c.words) <= 1
  /\ \A a \in ask : Cardinality(a.words) <= 2
  /\ Cardinality(kept) <= 2
=============================================================================
