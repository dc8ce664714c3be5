--------------------------- MODULE MCDirectories ---------------------------
(* Two nodes that may both be directories, and one of them a host. *)
EXTENDS Directories

\* Node "b"'s clock runs a second ahead of the admin's and of the other's.
MCAhead == [n \in Nodes |-> IF n = "b" THEN 1 ELSE 0]

\* The nodes learn of the first policies as hosts do.
NoStrings == \A n \in Nodes : string[n] = {}
=============================================================================
