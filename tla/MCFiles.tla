------------------------------- MODULE MCFiles -------------------------------
(* Commands that read and write a home's files whole, and may be killed      *)
(* anywhere: an admin's edits of the policy, the keystore they run on, a     *)
(* sign-in, and the inbox.  The parts share no state the models keep, so a   *)
(* behaviour is of one of them.                                              *)
EXTENDS Mailbox, Sequences

CONSTANTS
  Machines, IdPs, Addresses, Groups, RoleNames, ServiceNames, Admins, OwnNode, Edits,
  MaxVersion,                                               \* as in PolicyEdits
  Jobs, CommandLines, Alone, MaxDirectories, None, Blank,   \* as in Keystores
  Logins, Modes, People, Before, Partial                    \* as in SignIn

VARIABLES
  stored, cmd, signed,                                      \* as in PolicyEdits
  root, node, network, policy, labels, login, job,          \* as in Keystores
  file, temp, content, signing, redirect, overlapped,       \* as in SignIn
  part                                       \* which part this behaviour is of

E == INSTANCE PolicyEdits
K == INSTANCE Keystores
S == INSTANCE SignIn WITH login <- signing, raced <- overlapped

edited == <<stored, cmd, signed>>
keystore == <<root, node, network, policy, labels, login, job>>
signedIn == <<file, temp, content, signing, redirect, overlapped>>

ASSUME FilesAssumption ==
  E!EditsAssumption /\ K!KeystoreAssumption /\ S!SignInAssumption

MCInit ==
  /\ Init /\ E!Init /\ K!Init /\ S!Init
  /\ part \in {"mailbox", "policy", "keystore", "sign-in"}
  \* a part that is left alone starts in one way only
  /\ part # "policy" => stored.content.issuers = {"i"}
  /\ part # "sign-in" => file["token"] = None /\ content[Before]["refresh"] = "alice"

MCNext ==
  /\ UNCHANGED part
  /\ \/ part = "mailbox" /\ Next /\ UNCHANGED <<edited, keystore, signedIn>>
     \/ part = "policy" /\ E!Next /\ UNCHANGED <<vars, keystore, signedIn>>
     \/ part = "keystore" /\ K!Next /\ UNCHANGED <<vars, edited, signedIn>>
     \/ part = "sign-in" /\ S!Next /\ UNCHANGED <<vars, edited, keystore>>

MCSpec == MCInit /\ [][MCNext]_<<vars, edited, keystore, signedIn, part>>

\* Each is asked of the behaviours of its part: the others leave it as it was.
PolicyIsTrue == part = "policy" => E!PolicyIsTrue
\* No admin's signed edit is undone by another's save (PolicyEdits).
EditsStay == E!EditsStay
\* The files of a keystore go on agreeing, wherever a command was killed (Keystores).
KeystoreHolds == K!KeystoreHolds
\* The token kept is of one person, for this node's key (SignIn).
OneSignInIsKept == part = "sign-in" => S!OneSignInIsKept

-----------------------------------------------------------------------------
Anyone(i) == [issuer |-> i, emails |-> {}, groups |-> {}]
InGroup(i, g) == [issuer |-> i, emails |-> {}, groups |-> {g}]
Eve == [issuer |-> "i", email |-> "eve"]

Service(do, allow, hosts) == [do |-> do, name |-> "svc", allow |-> allow, hosts |-> hosts]
Role(matchers) == [do |-> "role set", name |-> "staff", matchers |-> matchers]
Name(do, name) == [do |-> do, name |-> name]

\* Every kind of edit, on one service, one role, two issuers and two nodes.
MCEdits ==
  {Service("service add", {{"staff"}}, {{"n"}}), Service("service set", {{}}, {{"n"}}),
   Name("service rm", "svc"),
   Role({Anyone("i")}), Role({InGroup("j", "g")}), Name("role rm", "staff"),
   Name("issuer set", "j"), Name("issuer rm", "i"),
   Name("directory add", "n"), Name("directory add", "me"), Name("directory rm", "n"),
   Name("ban", "n"), Name("unban", "n"),
   Name("ban person", Eve), Name("unban person", Eve),
   [do |-> "settings", beat |-> {3}, fresh |-> {3}]}

String(r) == [root |-> r, directories |-> <<>>, issuer |-> "i", secret |-> None]

\* Keys, two networks to join, and what an admin records.
MCCommandLines ==
  {[do |-> "id"],
   [do |-> "join", string |-> String("x")], [do |-> "join", string |-> String("y")],
   [do |-> "init", issuer |-> "i", secret |-> None, login |-> TRUE],
   [do |-> "issuer set", issuer |-> "j", secret |-> "t", login |-> TRUE],
   [do |-> "issuer rm", issuer |-> "i"], [do |-> "directory add"],
   [do |-> "label", label |-> "bench", node |-> "n"]}
=============================================================================
