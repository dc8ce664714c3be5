---------------------------- MODULE PolicyContents -------------------------------
(***************************************************************************)
(* What a policy says and the checks made on it: the rules it must keep    *)
(* (Policy::validate), whom its roles admit, who may call what (authorize),*)
(* who is in the network (check_admitted), and the view a directory serves *)
(* (view_for).  Pure operators.                                            *)
(*                                                                         *)
(* Lists the code keeps free of repeats are sets.  An email stands for one *)
(* address in whatever case the IdP reports it, since every comparison of  *)
(* emails ignores case; a pattern is the set of addresses it matches.  An  *)
(* option is a set of at most one member.                                  *)
(***************************************************************************)
EXTENDS Integers

CONSTANTS
  Machines,  \* node keys: callers, hosts and directories
  IdPs,      \* issuers
  Addresses, \* emails
  Groups,    \* what an IdP may say besides: orgs and groups
  RoleNames,
  ServiceNames

\* A Principal verify_claim made: its issuer, the verified email if it has
\* one, and the orgs and groups it carries.
PrincipalsOf(emails, groups) ==
  [issuer : IdPs, email : {{}} \cup {{e} : e \in emails}, groups : SUBSET groups]
Principals == PrincipalsOf(Addresses, Groups)

Persons  == [issuer : IdPs, email : Addresses]
Matchers == [issuer : IdPs, emails : {{}} \cup {{s} : s \in SUBSET Addresses},
             groups : SUBSET Groups]
Services == [allow : SUBSET RoleNames, hosts : SUBSET Machines]

\* A Policy's fields, its version apart.
IsContent(c) ==
  /\ c.directories \cup c.bans \subseteq Machines
  /\ DOMAIN c.roles \subseteq RoleNames
  /\ \A r \in DOMAIN c.roles : c.roles[r] \subseteq Matchers
  /\ DOMAIN c.services \subseteq ServiceNames
  /\ \A s \in DOMAIN c.services : c.services[s] \in Services
  /\ c.person_bans \subseteq Persons /\ c.issuers \subseteq IdPs
  /\ c.beat \in Nat /\ c.fresh \in Nat

\* Policy::new
EmptyPolicy ==
  [directories |-> {}, roles |-> <<>>, services |-> <<>>, bans |-> {},
   person_bans |-> {}, issuers |-> {}, beat |-> 1, fresh |-> 2]

-----------------------------------------------------------------------------
\* Matcher::matches: the issuer exactly, and every other key present.
Matches(m, p) ==
  /\ m.issuer = p.issuer
  /\ \A pattern \in m.emails : \E e \in p.email : e \in pattern
  /\ m.groups \subseteq p.groups

\* admits: no role admits a principal with no verified email.
Admits(matchers, p) == p.email # {} /\ \E m \in matchers : Matches(m, p)

\* Policy::role_admits, for a caller that presents at most one principal.
RoleAdmits(c, role, presented) ==
  role \in DOMAIN c.roles /\ \E p \in presented : Admits(c.roles[role], p)

AnyRoleAdmits(c, p) == \E role \in DOMAIN c.roles : RoleAdmits(c, role, {p})

\* Person::matches
IsPerson(person, p) == person.issuer = p.issuer /\ person.email \in p.email

BansPerson(c, p) == \E person \in c.person_bans : IsPerson(person, p)

IsHost(c, n) ==
  n \notin c.bans /\ \E s \in DOMAIN c.services : n \in c.services[s].hosts

-----------------------------------------------------------------------------
\* authorize: whether some allowed role lets caller, presenting at most one
\* principal, call the service.
Authorize(c, caller, presented, s) ==
  /\ caller \notin c.bans
  /\ \A p \in presented : ~BansPerson(c, p)
  /\ s \in DOMAIN c.services
  /\ \E role \in c.services[s].allow : RoleAdmits(c, role, presented)

\* check_admitted
CheckAdmitted(c, caller, p) ==
  /\ caller \notin c.bans
  /\ p.email # {}
  /\ ~BansPerson(c, p)
  /\ AnyRoleAdmits(c, p)

\* Mutant of ViewFor: a removed person still sees what their roles name.
ViewForTheRemoved(c, caller, presented, query) ==
  IF caller \in c.bans THEN {}
  ELSE {s \in DOMAIN c.services \cap query :
          \E role \in c.services[s].allow : RoleAdmits(c, role, presented)}

\* SignedPolicy::view_for: the services a directory shows caller, of those
\* the query names.
ViewFor(c, caller, presented, query) ==
  IF caller \in c.bans \/ \E p \in presented : BansPerson(c, p) THEN {}
  ELSE {s \in DOMAIN c.services \cap query :
          \E role \in c.services[s].allow : RoleAdmits(c, role, presented)}

-----------------------------------------------------------------------------
\* Policy::validate
Validate(c) ==
  /\ c.directories \cap c.bans = {}
  /\ \A r \in DOMAIN c.roles :
       c.roles[r] # {} /\ \A m \in c.roles[r] : m.issuer \in c.issuers
  /\ \A s \in DOMAIN c.services :
       /\ c.services[s].allow \subseteq DOMAIN c.roles
       /\ c.services[s].hosts \cap c.bans = {}
  /\ c.beat > 0 /\ c.fresh >= c.beat

-----------------------------------------------------------------------------
\* A signed policy: its contents, version, and the version at which each
\* service entry was last signed.
EmptySigned == [version |-> 0, content |-> EmptyPolicy, entries |-> <<>>]

\* SignedEntry::is_for and the version test of Policy::items: what previous
\* holds for s is the same entry.
SameEntry(c, previous, s, version) ==
  /\ s \in DOMAIN previous.entries
  /\ previous.content.services[s] = c.services[s]
  /\ previous.entries[s] <= version

\* Policy::sign_after: the entries the edit left alone keep their version.
SignAfter(c, version, previous) ==
  [version |-> version, content |-> c,
   entries |-> [s \in DOMAIN c.services |->
                  IF SameEntry(c, previous, s, version)
                  THEN previous.entries[s] ELSE version]]

-----------------------------------------------------------------------------
\* The items of a signed policy, each a kind, a key and a body; its head, and
\* the way back.  The hash of the items is the items.

\* Policy::items
Items(p) ==
  LET c == p.content
  IN  {<<"role", r, c.roles[r]>> : r \in DOMAIN c.roles}
      \cup {<<"service", s, [entry |-> c.services[s], version |-> p.entries[s]]>> :
               s \in DOMAIN c.services}
      \cup {<<"ban", n>> : n \in c.bans}
      \cup {<<"person ban", person>> : person \in c.person_bans}
      \cup {<<"issuer", i>> : i \in c.issuers}
      \cup {<<"settings", <<c.beat, c.fresh>>>>}

\* PolicyHead::sign over the items' hash.
HeadOf(p) ==
  [version |-> p.version, directories |-> p.content.directories,
   fresh_secs |-> p.content.fresh, items_hash |-> Items(p)]

OfKind(kind, items) == {item \in items : item[1] = kind}
Keys(kind, items) == {item[2] : item \in OfKind(kind, items)}

\* The body of the one item a kind and key name (check_order: each key once).
BodyOf(kind, key, items) ==
  (CHOOSE item \in OfKind(kind, items) : item[2] = key)[3]

\* Policy::from_items
FromItems(head, items) ==
  LET settings == (CHOOSE item \in OfKind("settings", items) : TRUE)[2]
  IN  [directories |-> head.directories,
       roles |-> [r \in Keys("role", items) |-> BodyOf("role", r, items)],
       services |-> [s \in Keys("service", items) |-> BodyOf("service", s, items).entry],
       bans |-> Keys("ban", items), person_bans |-> Keys("person ban", items),
       issuers |-> Keys("issuer", items), beat |-> settings[1], fresh |-> settings[2]]

\* check_entry_version, for the entries of some services.
EntriesInOrder(head, entries) == \A e \in entries : e[3].version <= head.version

\* SignedPolicy::check_items
CheckItems(head, items) ==
  /\ items = head.items_hash
  /\ FromItems(head, items).fresh = head.fresh_secs
  /\ EntriesInOrder(head, OfKind("service", items))
  /\ Validate(FromItems(head, items))

\* View::verify, of the entries a view shows under its head.
ViewVerifies(head, entries) == EntriesInOrder(head, entries)
=============================================================================
