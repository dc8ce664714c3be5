----------------------------- MODULE PolicyEdits -----------------------------
(***************************************************************************)
(* The admin's commands that change the policy (wires/admin/service.rs,    *)
(* remove.rs, settings.rs, init.rs), several of them at once on the one    *)
(* keystore: a command reads policy.json up to three times -- for its own  *)
(* checks, for edit_policy's `listed`, for sign_next -- then changes what  *)
(* it read last, validates and signs it, and stores it if it is newer.     *)
(***************************************************************************)
EXTENDS PolicyContents

CONSTANTS
  Admins,    \* admin commands that may run at once
  OwnNode,   \* the admin machine's own node
  Edits,     \* the command lines they are given, some of EditLines
  MaxVersion \* bound: the last version stored

VARIABLES
  stored, \* policy.json
  cmd,    \* what each command is doing
  signed  \* history: every service entry a stored policy held

vars == <<stored, cmd, signed>>

Idle == [at |-> "idle"]

Options(S) == {{}} \cup {{x} : x \in S}

\* One command line: what to do, and to what.
EditLines ==
  [do : {"service add", "service set"}, name : ServiceNames,
   allow : Options(SUBSET RoleNames), hosts : Options(SUBSET Machines)]
  \cup [do : {"service rm"}, name : ServiceNames]
  \cup [do : {"role set"}, name : RoleNames, matchers : SUBSET Matchers \ {{}}]
  \cup [do : {"role rm"}, name : RoleNames]
  \cup [do : {"issuer set", "issuer rm"}, name : IdPs]
  \cup [do : {"directory add", "directory rm", "ban", "unban"}, name : Machines]
  \cup [do : {"ban person", "unban person"}, name : Persons]
  \cup [do : {"settings"}, beat : Options(0 .. 3), fresh : Options(0 .. 3)]

EditsAssumption == Edits \subseteq EditLines /\ MaxVersion \in Nat \ {0}

EntriesOf(p) == {[name |-> s, version |-> p.entries[s], body |-> p.content.services[s]] :
                   s \in DOMAIN p.entries}

-----------------------------------------------------------------------------
\* The change a command makes to c, or none when it bails.

Without(f, x) == [y \in DOMAIN f \ {x} |-> f[y]]
With(f, x, v) == [y \in DOMAIN f \cup {x} |-> IF y = x THEN v ELSE f[y]]

\* An option's value, or what was there.
Given(option, old) == IF option = {} THEN old ELSE CHOOSE x \in option : TRUE

\* ServiceEdit::apply
Apply(e, svc) == [allow |-> Given(e.allow, svc.allow), hosts |-> Given(e.hosts, svc.hosts)]

\* check_hosts
HostsMayServe(c, e) == \A hosts \in e.hosts : hosts \cap c.bans = {}

\* add
ServiceAdd(c, e) ==
  IF e.name \notin DOMAIN c.services /\ HostsMayServe(c, e)
  THEN {[c EXCEPT !.services = With(@, e.name, Apply(e, [allow |-> {}, hosts |-> {}]))]}
  ELSE {}

\* set
ServiceSet(c, e) ==
  IF e.name \in DOMAIN c.services /\ HostsMayServe(c, e)
  THEN {[c EXCEPT !.services = With(@, e.name, Apply(e, @[e.name]))]} ELSE {}

\* rm
ServiceRm(c, e) ==
  IF e.name \in DOMAIN c.services
  THEN {[c EXCEPT !.services = Without(@, e.name)]} ELSE {}

RoleSet(c, e) == {[c EXCEPT !.roles = With(@, e.name, e.matchers)]}

\* role_rm: validation refuses it while a service names the role.
RoleRm(c, e) ==
  IF e.name \in DOMAIN c.roles THEN {[c EXCEPT !.roles = Without(@, e.name)]} ELSE {}

IssuerSet(c, e) == {[c EXCEPT !.issuers = @ \cup {e.name}]}

\* issuer_rm
IssuerRm(c, e) ==
  IF e.name \in c.issuers /\ \A person \in c.person_bans : person.issuer # e.name
  THEN {[c EXCEPT !.issuers = @ \ {e.name}]} ELSE {}

DirectoryAdd(c, e) ==
  IF e.name \notin c.bans \cup c.directories
  THEN {[c EXCEPT !.directories = @ \cup {e.name}]} ELSE {}

DirectoryRm(c, e) ==
  IF e.name \in c.directories THEN {[c EXCEPT !.directories = @ \ {e.name}]} ELSE {}

\* remove_in's edit of a node.
Ban(c, e) ==
  IF e.name \notin c.bans
  THEN {[c EXCEPT !.bans = @ \cup {e.name}, !.directories = @ \ {e.name},
                  !.services = [s \in DOMAIN c.services |->
                                  [c.services[s] EXCEPT !.hosts = @ \ {e.name}]]]}
  ELSE {}

\* restore_in's edit of a node: the ban alone is lifted.
Unban(c, e) == IF e.name \in c.bans THEN {[c EXCEPT !.bans = @ \ {e.name}]} ELSE {}

\* remove_in's edit of a person.
BanPerson(c, e) ==
  IF e.name \notin c.person_bans
  THEN {[c EXCEPT !.person_bans = @ \cup {e.name}]} ELSE {}

UnbanPerson(c, e) ==
  IF e.name \in c.person_bans
  THEN {[c EXCEPT !.person_bans = @ \ {e.name}]} ELSE {}

\* SettingsArgs::apply
SettingsEdit(c, e) ==
  {[c EXCEPT !.beat = Given(e.beat, @), !.fresh = Given(e.fresh, @)]}

Change(c, e) ==
  CASE e.do = "service add"   -> ServiceAdd(c, e)
    [] e.do = "service set"   -> ServiceSet(c, e)
    [] e.do = "service rm"    -> ServiceRm(c, e)
    [] e.do = "role set"      -> RoleSet(c, e)
    [] e.do = "role rm"       -> RoleRm(c, e)
    [] e.do = "issuer set"    -> IssuerSet(c, e)
    [] e.do = "issuer rm"     -> IssuerRm(c, e)
    [] e.do = "directory add" -> DirectoryAdd(c, e)
    [] e.do = "directory rm"  -> DirectoryRm(c, e)
    [] e.do = "ban"           -> Ban(c, e)
    [] e.do = "unban"         -> Unban(c, e)
    [] e.do = "ban person"    -> BanPerson(c, e)
    [] e.do = "unban person"  -> UnbanPerson(c, e)
    [] e.do = "settings"      -> SettingsEdit(c, e)

-----------------------------------------------------------------------------
\* init_in: the first policy trusts one issuer and says nothing else.
Init ==
  /\ \E i \in IdPs :
       stored = SignAfter([EmptyPolicy EXCEPT !.issuers = {i}], 1, EmptySigned)
  /\ cmd = [a \in Admins |-> Idle]
  /\ signed = {}

\* remove_in's checks, on the policy admin_held read for them: the issuer of
\* a person is trusted, and the node is not this machine's own.
MayStart(e) ==
  /\ e.do = "ban person" => e.name.issuer \in stored.content.issuers
  /\ e.do = "ban" => e.name # OwnNode

\* A command starts: its own checks, on policy.json as it is.
Start(a, e) ==
  /\ cmd[a] = Idle
  /\ MayStart(e)
  /\ cmd' = [cmd EXCEPT ![a] = [at |-> "checked", edit |-> e]]
  /\ UNCHANGED <<stored, signed>>

\* edit_policy's `listed`.
Listed == stored.content.directories # {}

\* edit_policy reads policy.json for `listed`.
ReadListed(a) ==
  /\ cmd[a].at = "checked"
  /\ cmd' = [cmd EXCEPT ![a] = [at |-> "listed", edit |-> cmd[a].edit, listed |-> Listed]]
  /\ UNCHANGED <<stored, signed>>

\* The policies sign_next may sign of base for command c: none when the
\* change bails, when it would drop the last directory, or when the result
\* is not valid.
Signs(base, c) ==
  {SignAfter(next, base.version + 1, base) :
     next \in {n \in Change(base.content, c.edit) :
                 /\ c.listed => n.directories # {}
                 /\ Validate(n)}}

\* sign_next reads policy.json again, changes and signs it; or fails, and
\* the command ends.
Sign(a) ==
  /\ cmd[a].at = "listed"
  /\ LET nexts == Signs(stored, cmd[a])
     IN  \/ \E next \in nexts :
              cmd' = [cmd EXCEPT ![a] = [at |-> "signed", base |-> stored, next |-> next]]
         \/ nexts = {} /\ cmd' = [cmd EXCEPT ![a] = Idle]
  /\ UNCHANGED <<stored, signed>>

\* Mutant of IsNewer: the version need only not be older.
IsNewerOrSame(next, held) == next.version >= held.version

\* SignedPolicy::is_newer_than
IsNewer(next, held) == next.version > held.version

\* adopt_if_newer, under policy.lock: stored, or "another admin command
\* changed the policy meanwhile".
Write(a) ==
  /\ cmd[a].at = "signed"
  /\ stored.version < MaxVersion
  /\ IF IsNewer(cmd[a].next, stored)
     THEN /\ stored' = cmd[a].next
          /\ signed' = signed \cup EntriesOf(cmd[a].next)
     ELSE UNCHANGED <<stored, signed>>
  /\ cmd' = [cmd EXCEPT ![a] = Idle]

\* The command is interrupted before it stores anything.
Stop(a) ==
  /\ cmd[a] # Idle
  /\ cmd' = [cmd EXCEPT ![a] = Idle]
  /\ UNCHANGED <<stored, signed>>

Next ==
  \E a \in Admins :
    \/ \E e \in Edits : Start(a, e)
    \/ ReadListed(a) \/ Sign(a) \/ Write(a) \/ Stop(a)

Spec == Init /\ [][Next]_vars

-----------------------------------------------------------------------------
\* Nothing in a stored policy dangles, however many commands edited it: a
\* service names defined roles only, a role trusted issuers only, and nobody
\* removed is listed (the rules of Policy::validate's doc); every service has
\* one entry, signed at a version the policy has reached.
TypeOK ==
  /\ stored.version \in 1 .. MaxVersion
  /\ IsContent(stored.content)
  /\ \A a \in Admins : cmd[a] # Idle => cmd[a].at = "signed" \/ cmd[a].edit \in Edits
  /\ LET c == stored.content
     IN  /\ \A s \in DOMAIN c.services : c.services[s].allow \subseteq DOMAIN c.roles
         /\ \A r \in DOMAIN c.roles : \A m \in c.roles[r] : m.issuer \in c.issuers
         /\ \A n \in c.bans : n \notin c.directories
         /\ c.fresh >= c.beat /\ c.beat # 0
  /\ DOMAIN stored.entries = DOMAIN stored.content.services
  /\ \A s \in DOMAIN stored.entries : stored.entries[s] \in 1 .. stored.version

\* Two admin commands at once lose neither's edit: the policy stored was
\* signed over the one it replaces (sign_next's "another admin command
\* changed the policy meanwhile; run this one again").
EditsNotLost ==
  [][stored' # stored =>
       \E a \in Admins : /\ cmd[a].at = "signed"
                         /\ cmd[a].base = stored
                         /\ stored' = cmd[a].next]_vars

\* A removed node hosts nothing and is no directory, and a node restored is
\* neither until it is added again (remove_in; restore_in's "it hosts nothing
\* and is no directory until you add it again").
Serves(c, n) == n \in c.directories \/ IsHost(c, n)
RemovedStaysOut ==
  [][\A n \in stored.content.bans :
       /\ ~Serves(stored.content, n)
       /\ ~Serves(stored'.content, n)]_vars

\* A service entry's version says which entry it is: no two stored policies
\* hold, for one service and one version, different bodies (sign_after: a
\* caller holding an unchanged entry needs nothing new).
EntriesAgree ==
  \A x, y \in signed : x.name = y.name /\ x.version = y.version => x.body = y.body

\* The view a directory serves shows a caller exactly the services a host
\* would let it call (view_for against authorize), and whoever may call one
\* is in the network (check_admitted).
ViewTellsTheTruth ==
  \A n \in Machines, p \in Principals :
    /\ ViewFor(stored.content, n, {p}, ServiceNames)
         = {s \in ServiceNames : Authorize(stored.content, n, {p}, s)}
    /\ \A s \in ServiceNames :
         Authorize(stored.content, n, {p}, s) => CheckAdmitted(stored.content, n, p)

\* What sign_next stores is read back whole: every reader's verify accepts the
\* items under their head, they make the same policy again, and the view cut
\* from them verifies by itself (Held::verify, SignedPolicy::verify,
\* View::verify).
StoredIsReadBack ==
  LET head  == HeadOf(stored)
      items == Items(stored)
  IN  /\ CheckItems(head, items)
      /\ FromItems(head, items) = stored.content
      /\ \A p \in Principals :
           ViewVerifies(head, {e \in OfKind("service", items) :
                                 e[2] \in ViewFor(stored.content, OwnNode, {p}, ServiceNames)})

\* What is stored, read back, served and held elsewhere is one policy.
PolicyIsTrue == TypeOK /\ StoredIsReadBack /\ ViewTellsTheTruth /\ EntriesAgree

\* An edit takes effect and keeps it, whatever else is edited.
EditsStay == EditsNotLost /\ RemovedStaysOut

\* Every person ban names an issuer the policy trusts (remove_in refuses
\* another; issuer_rm, service.rs:394: "refused while ... a person ban does:
\* lifting that trust would make the ban name nobody").
PersonBansBite ==
  \A person \in stored.content.person_bans : person.issuer \in stored.content.issuers

\* A network that lists a directory keeps one (edit_policy: "this edit would
\* leave the network with no directory, and with none no caller would call
\* any host").
LastDirectoryStays ==
  [][stored.content.directories # {} => stored'.content.directories # {}]_vars
=============================================================================
