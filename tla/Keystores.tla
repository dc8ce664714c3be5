------------------------------ MODULE Keystores ------------------------------
(***************************************************************************)
(* One keystore directory and the commands that write it: init, id, join   *)
(* (and login, which joins the same way), the labels and the login client  *)
(* the admin's commands record, and the network string it prints.          *)
(* (wires/admin/keystore.rs, init.rs, labels.rs, login_client.rs,          *)
(* network.rs, wires/caller/join.rs.)                                      *)
(*                                                                         *)
(* Commands are processes: each reads and writes one file at a time, and   *)
(* may be killed between two steps.  A file is replaced whole              *)
(* (write_private renames), but a seed is created, or refused, and then    *)
(* written (write_secret).  A key is named by the process that generated   *)
(* it.                                                                     *)
(***************************************************************************)
EXTENDS Integers, Sequences, FiniteSets, TLC

CONSTANTS
  Jobs,           \* the processes
  CommandLines,   \* what each may be started with, some of Lines
  Alone,          \* whether the operator runs one command at a time
  MaxDirectories, \* NETWORK_MAX_DIRECTORIES
  None,           \* no such file, or no value
  Blank           \* a seed file created and not written yet

VARIABLES
  root, node,  \* root.seed, node.seed: the key, Blank or None
  network,     \* network.json: the network string joined, or None
  policy,      \* policy.json: the root that signed it, its directories and issuers
  labels,      \* labels.json: a function from labels to nodes
  login,       \* login-client.json: the marked issuer, and each issuer's secret
  job          \* [Jobs -> what it is doing]

files == <<root, node, network, policy, labels, login>>
vars  == <<root, node, network, policy, labels, login, job>>

\* Command lines, by what they do.
Lines(do) == {l \in CommandLines : l.do = do}

\* Processes are neither None nor Blank, and a string to join is one that
\* Network::decode takes.
KeystoreAssumption ==
  /\ None \notin Jobs /\ Blank \notin Jobs /\ Blank # None /\ MaxDirectories \in Nat
  /\ \A l \in Lines("join") : Len(l.string.directories) <= MaxDirectories

NoPolicy == [root |-> None, directories |-> <<>>, issuers |-> {}]
NoLogin  == [issuer |-> None, secrets |-> <<>>]

Init ==
  /\ root = None /\ node = None /\ network = None
  /\ policy = NoPolicy
  /\ labels = <<>> /\ login = NoLogin
  /\ job = [j \in Jobs |-> [at |-> "new"]]

Running(j) == job[j].at \notin {"new", "done"}

\* The step j is at, of a command that does one of dos.
At(j, pc, dos) == job[j].at = pc /\ job[j].line.do \in dos

Goto(j, pc) == job' = [job EXCEPT ![j].at = pc]
End(j) == Goto(j, "done")

-----------------------------------------------------------------------------
\* A seed file that parses: reading a blank one is an error, not no key.
Key(seed) == seed \in Jobs

\* Keystore::network_root: the root key's network, or the one joined.
NetworkRoot == IF root # None THEN root ELSE IF network # None THEN network.root ELSE None

\* write_secret first creates the file, unless there is one: what is there then.
Created(seed) == IF seed = None THEN Blank ELSE seed

Start(j) ==
  /\ job[j].at = "new"
  /\ Alone => \A i \in Jobs : ~Running(i)
  /\ \E l \in CommandLines :
       job' = [job EXCEPT ![j] = [at |-> "start", line |-> l, seen |-> None]]
  /\ UNCHANGED files

\* A command is killed between two steps.
Kill(j) == Running(j) /\ End(j) /\ UNCHANGED files

-----------------------------------------------------------------------------
\* id_in, of id and join, and the same of init: read the node key.  A blank seed
\* stops init; id_in takes it for none.
ReadNode(j) ==
  /\ At(j, "node", {"id", "init", "join"}) \/ At(j, "start", {"id"})
  /\ IF node = Blank /\ job[j].line.do = "init" THEN End(j)
     ELSE job' = [job EXCEPT ![j].at = "node save", ![j].seen = node]
  /\ UNCHANGED files

AfterNode(j) ==
  CASE job[j].line.do = "init" -> "policy"
    [] job[j].line.do = "join" -> "network"
    [] OTHER                   -> "done"

\* With no key found make one: create the file (refused if there is one), ...
SaveNode(j) ==
  /\ job[j].at = "node save"
  /\ IF Key(job[j].seen) THEN Goto(j, AfterNode(j)) /\ UNCHANGED node
     ELSE /\ node' = Created(node)
          /\ Goto(j, IF node = None THEN "node write" ELSE "done")
  /\ UNCHANGED <<root, network, policy, labels, login>>

\* ... and write it.
WriteNode(j) ==
  /\ job[j].at = "node write"
  /\ node' = j
  /\ Goto(j, AfterNode(j))
  /\ UNCHANGED <<root, network, policy, labels, login>>

\* init_in: refused in a keystore already in a network, or whose root seed is blank.
InitCheck(j) ==
  /\ At(j, "start", {"init"})
  /\ Goto(j, IF NetworkRoot = None THEN "root" ELSE "done")
  /\ UNCHANGED files

ReadRoot(j) ==
  /\ At(j, "root", {"init"})
  /\ IF root = Blank THEN End(j)
     ELSE job' = [job EXCEPT ![j].at = "root save", ![j].seen = root]
  /\ UNCHANGED files

SaveRoot(j) ==
  /\ At(j, "root save", {"init"})
  /\ IF Key(job[j].seen) THEN Goto(j, "node") /\ UNCHANGED root
     ELSE /\ root' = Created(root)
          /\ Goto(j, IF root = None THEN "root write" ELSE "done")
  /\ UNCHANGED <<node, network, policy, labels, login>>

WriteRoot(j) ==
  /\ job[j].at = "root write"
  /\ root' = j
  /\ Goto(j, "node")
  /\ UNCHANGED <<node, network, policy, labels, login>>

\* first_policy: sign_next under the root key, which it reads again.
FirstPolicy(j) ==
  /\ At(j, "policy", {"init"})
  /\ IF ~Key(root) THEN End(j) /\ UNCHANGED policy
     ELSE /\ policy' = [policy EXCEPT !.root = root, !.issuers = @ \cup {job[j].line.issuer}]
          /\ Goto(j, "record")
  /\ UNCHANGED <<root, node, network, labels, login>>

-----------------------------------------------------------------------------
\* join_in's checks: not the admin's keystore (a blank root seed stops it too), nor
\* one in another network.
MayJoin(string) == root = None /\ (network # None => network.root = string.root)

\* Mutant of AfterMayJoin: the string is stored before there is a node key.
StringFirst == "network"

\* What join_in does once it may: the node key first.
AfterMayJoin == "node"

JoinCheck(j) ==
  /\ At(j, "start", {"join"})
  /\ Goto(j, IF MayJoin(job[j].line.string) THEN AfterMayJoin ELSE "done")
  /\ UNCHANGED files

\* save_network
SaveNetwork(j) ==
  /\ At(j, "network", {"join"})
  /\ network' = job[j].line.string
  /\ End(j)
  /\ UNCHANGED <<root, node, policy, labels, login>>

-----------------------------------------------------------------------------
\* An admin command that edits the policy: an issuer, or the directories.
\* The edits themselves, and their races, are PolicyEdits'.
Edit(j) ==
  /\ At(j, "start", {"issuer set", "issuer rm", "directory add"})
  /\ IF ~Key(root) \/ policy = NoPolicy
     THEN End(j) /\ UNCHANGED policy
     ELSE LET l == job[j].line
          IN  /\ policy' = CASE l.do = "issuer set" -> [policy EXCEPT !.issuers = @ \cup {l.issuer}]
                             [] l.do = "issuer rm" -> [policy EXCEPT !.issuers = @ \ {l.issuer}]
                             [] OTHER -> [policy EXCEPT !.directories = Append(@, j)]
              /\ Goto(j, IF l.do = "issuer set" THEN "record" ELSE "done")
  /\ UNCHANGED <<root, node, network, labels, login>>

\* LoginClient::record: load, then save with this issuer's secret and mark.
LoadLogin(j) ==
  /\ At(j, "record", {"init", "issuer set"})
  /\ job' = [job EXCEPT ![j].at = "record save", ![j].seen = login]
  /\ UNCHANGED files

Recorded(held, l) ==
  [issuer  |-> IF l.login THEN l.issuer ELSE held.issuer,
   secrets |-> IF l.secret = None THEN held.secrets
               ELSE (l.issuer :> l.secret) @@ held.secrets]

SaveLogin(j) ==
  /\ At(j, "record save", {"init", "issuer set"})
  /\ login' = Recorded(job[j].seen, job[j].line)
  /\ End(j)
  /\ UNCHANGED <<root, node, network, policy, labels>>

-----------------------------------------------------------------------------
\* Labels::load, by a command whose line says label=node.
LoadLabels(j) ==
  /\ At(j, "start", {"label"})
  /\ job' = [job EXCEPT ![j].at = "label save", ![j].seen = labels]
  /\ UNCHANGED files

\* Labels::resolve: a label must be free or already name that node.
MayBind(held, l) == l.label \in DOMAIN held => held[l.label] = l.node

\* Labels::save, of the labels loaded with this one bound.
SaveLabels(j) ==
  /\ At(j, "label save", {"label"})
  /\ LET held == job[j].seen
         l    == job[j].line
     IN labels' = IF MayBind(held, l) THEN (l.label :> l.node) @@ held ELSE labels
  /\ End(j)
  /\ UNCHANGED <<root, node, network, policy, login>>

-----------------------------------------------------------------------------
\* LoginClient::settings: the marked issuer if the policy trusts it, else the
\* first it trusts.
LoginIssuer ==
  IF login.issuer \in policy.issuers THEN login.issuer
  ELSE CHOOSE i \in policy.issuers : TRUE

Secret(i) == IF i \in DOMAIN login.secrets THEN login.secrets[i] ELSE None

\* Network::new truncates the directories.
FirstOf(directories) ==
  SubSeq(directories, 1, IF Len(directories) < MaxDirectories
                         THEN Len(directories) ELSE MaxDirectories)

\* admin_network: the string `wires network` prints on the admin, if any.
Prints ==
  IF root = None THEN IF network = None THEN {} ELSE {network}
  ELSE IF ~Key(root) \/ policy.issuers = {} THEN {}
  ELSE {[root |-> root, directories |-> FirstOf(policy.directories),
         issuer |-> LoginIssuer, secret |-> Secret(LoginIssuer)]}

\* Network::decode
Decodes(string) == Len(string.directories) <= MaxDirectories

Next ==
  \E j \in Jobs :
    \/ Start(j) \/ Kill(j)
    \/ ReadNode(j) \/ SaveNode(j) \/ WriteNode(j)
    \/ InitCheck(j) \/ ReadRoot(j) \/ SaveRoot(j) \/ WriteRoot(j) \/ FirstPolicy(j)
    \/ JoinCheck(j) \/ SaveNetwork(j)
    \/ Edit(j) \/ LoadLogin(j) \/ SaveLogin(j)
    \/ LoadLabels(j) \/ SaveLabels(j)

Spec == Init /\ [][Next]_vars

-----------------------------------------------------------------------------
\* A key, once written, is this machine's for good, whatever runs at once
\* (keystore.rs save_node: "an existing key is never overwritten").
KeysStay ==
  /\ Key(root) => root' = root
  /\ Key(node) => node' = node

\* A keystore that is in a network has a node key to be in it with, written whole,
\* even if a join was killed half way (join_in makes the key, then stores the
\* string), and a policy is signed only by the root key that is kept.
KeyBeforeNetwork ==
  /\ network # None => Key(node)
  /\ policy.root # None => Key(root) /\ policy.root = root

\* One keystore, one network: it does not move to another one, nor is it an
\* admin's and another network's member (join_in; init_in).
OneNetwork ==
  [][NetworkRoot \notin {None, Blank}
       => NetworkRoot' = NetworkRoot /\ (root # None => network' = network)]_vars

\* A label goes on naming the node it was bound to (labels.rs:3-6: "from then
\* on the bare label names that node").
LabelsStay ==
  [][\A l \in DOMAIN labels : l \in DOMAIN labels' /\ labels'[l] = labels[l]]_vars

\* Every network string printed can be joined with (Network::decode accepts
\* what Network::new made) and signs in at an issuer the policy trusts.
StringsDecode ==
  \A string \in Prints :
    /\ Decodes(string)
    /\ root # None => string.issuer \in policy.issuers

\* init makes a network in one step (init.rs:1): a root key never stands
\* without the policy it signs, once no command is running.
RootHasPolicy ==
  root # None /\ (\A j \in Jobs : ~Running(j)) => policy # NoPolicy

\* "a reader sees either the previous contents or the new ones" (write_private, of
\* "every file this module writes"): no seed is left blank, which no command reads
\* or replaces, once no command is running.
SeedsAreWhole ==
  (\A j \in Jobs : ~Running(j)) => root # Blank /\ node # Blank

\* What the files of a keystore say of each other, whatever ran at once and
\* wherever it was killed: no step replaces a key, leaves a network without one,
\* or makes a string that does not decode.
KeystoreHolds == [][KeysStay /\ KeyBeforeNetwork' /\ StringsDecode']_vars
=============================================================================
