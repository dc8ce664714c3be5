-------------------------------- MODULE Floods --------------------------------
(***************************************************************************)
(* What keeps strangers from flooding a process: Throttle                  *)
(* (wires/host/transport.rs), which turns their refusals into a line of    *)
(* the log now and then, and RateLimit (wires/gateway/mod.rs), which       *)
(* counts an address's requests to the web gateway's open endpoints.       *)
(*                                                                         *)
(* A throttle is two atomics that tasks go through step by step; the table *)
(* of a limit is behind a lock.  The two share nothing, so that a          *)
(* behaviour is of one of them.                                            *)
(***************************************************************************)
EXTENDS Integers, FiniteSets, Sequences

CONSTANTS
  Tasks,       \* refusals under way at once
  Every,       \* EVERY_MS
  MaxRefusals, \* bound: refusals
  Clients,     \* who asks the gateway
  Nets,        \* their addresses' keys: an IPv4 address or an IPv6 /64
  Home,        \* Home[c]: the net c is in
  TrustProxy,  \* --trust-proxy
  PerMinute,   \* OAUTH_PER_MINUTE
  MaxTracked,  \* MAX_TRACKED_ADDRS
  Window,      \* the minute
  MaxRequests, \* bound: requests
  MaxTime      \* bound: the clock

FloodsAssumption ==
  /\ Every \in Nat \ {0} /\ Window \in Nat \ {0} /\ PerMinute \in Nat /\ IsFiniteSet(Tasks)
  /\ {MaxTime, MaxRequests, MaxRefusals} \subseteq Nat
  /\ MaxTracked \in Nat \ {0} /\ Home \in [Clients -> Nets] /\ TrustProxy \in BOOLEAN

VARIABLES
  now,
  part,     \* which of the two this is: "throttle" or "limit"
  last,     \* last_ms: Absent before the first line
  since,    \* refusals since the last line
  task,     \* task[t]: a refusal under way
  lines,    \* the lines written: [at, n], oldest first
  refusals, \* how many refusals were counted
  seen,     \* the gateway's table: for a net, when its window began and its count
  requests, \* how many requests were made
  granted,  \* those let through: by whom, when
  forgot    \* the nets that left the table within their window (a ghost)

vars == <<now, part, last, since, task, lines, refusals, seen, requests, granted, forgot>>
throttle == <<last, since, task, lines, refusals>>
limit == <<seen, requests, granted, forgot>>

Absent == -1
Idle == [step |-> "idle", at |-> 0, last |-> Absent]

Init ==
  /\ now = 0 /\ part \in {"throttle", "limit"}
  /\ last = Absent /\ since = 0 /\ refusals = 0 /\ lines = << >>
  /\ task = [t \in Tasks |-> Idle]
  /\ seen = [n \in {} |-> 0]
  /\ requests = 0 /\ granted = {} /\ forgot = {}

-----------------------------------------------------------------------------
(* Throttle::refused, Throttle::tick. *)

Begin(t) ==
  /\ part = "throttle" /\ task[t].step = "idle" /\ refusals < MaxRefusals
  /\ task' = [task EXCEPT ![t] = [Idle EXCEPT !.step = "counting", !.at = now]]
  /\ refusals' = refusals + 1
  /\ UNCHANGED <<now, part, last, since, lines, limit>>

Count(t) ==
  /\ task[t].step = "counting"
  /\ since' = since + 1
  /\ task' = [task EXCEPT ![t].step = "loading"]
  /\ UNCHANGED <<now, part, last, lines, refusals, limit>>

Load(t) ==
  /\ task[t].step = "loading"
  /\ task' = [task EXCEPT ![t] =
       IF last # Absent /\ task[t].at - last < Every THEN Idle
       ELSE [@ EXCEPT !.step = "exchanging", !.last = last]]
  /\ UNCHANGED <<now, part, last, since, lines, refusals, limit>>

\* compare_exchange: the mark is still what was loaded.
Unmoved(t) == last = task[t].last

Exchange(t) ==
  /\ task[t].step = "exchanging"
  /\ IF Unmoved(t)
     THEN /\ last' = task[t].at
          /\ task' = [task EXCEPT ![t].step = "writing"]
     ELSE /\ UNCHANGED last
          /\ task' = [task EXCEPT ![t] = Idle]
  /\ UNCHANGED <<now, part, since, lines, refusals, limit>>

Write(t) ==
  /\ task[t].step = "writing"
  /\ lines' = Append(lines, [at |-> task[t].at, n |-> since])
  /\ since' = 0
  /\ task' = [task EXCEPT ![t] = Idle]
  /\ UNCHANGED <<now, part, last, refusals, limit>>

-----------------------------------------------------------------------------
(* RateLimit. *)

\* Mutant of ClientAddr: a header is taken as it comes.
AnyHeader(c, header) == IF header \in Nets THEN header ELSE Home[c]

\* client_addr and addr_key: a proxy's header only if it is trusted, and only if
\* it names an address.
ClientAddr(c, header) == IF TrustProxy /\ header \in Nets THEN header ELSE Home[c]

Current(n) == now - seen[n].start < Window

\* Room for one more: the windows that are over go, then the oldest.
Kept(n) ==
  LET current == {m \in DOMAIN seen : Current(m)}
      oldest == {m \in current : \A o \in current : seen[m].start <= seen[o].start}
  IN  IF n \in DOMAIN seen \/ Cardinality(DOMAIN seen) < MaxTracked THEN {DOMAIN seen}
      ELSE IF Cardinality(current) < MaxTracked THEN {current}
      ELSE {current \ {m} : m \in oldest}

Counted(n) ==
  IF n \in DOMAIN seen /\ Current(n) THEN [seen[n] EXCEPT !.count = @ + 1]
  ELSE [start |-> now, count |-> 1]

\* limit_oauth: let through, or told to come back in a minute.
Request(c, header) ==
  LET n == ClientAddr(c, header) IN
  /\ part = "limit" /\ requests < MaxRequests
  /\ requests' = requests + 1
  /\ \E kept \in Kept(n) :
       /\ seen' = [m \in kept \cup {n} |-> IF m = n THEN Counted(n) ELSE seen[m]]
       /\ forgot' = forgot \cup {m \in DOMAIN seen \ kept : Current(m)}
  /\ granted' = IF Counted(n).count <= PerMinute
                THEN granted \cup {[by |-> c, at |-> now, no |-> requests]} ELSE granted
  /\ UNCHANGED <<now, part, throttle>>

-----------------------------------------------------------------------------
Tick ==
  /\ now < MaxTime
  /\ now' = now + 1
  /\ UNCHANGED <<part, throttle, limit>>

Next ==
  \/ \E t \in Tasks : Begin(t) \/ Count(t) \/ Load(t) \/ Exchange(t) \/ Write(t)
  \/ \E c \in Clients, header \in Nets \cup {Absent} : Request(c, header)
  \/ Tick

Spec == Init /\ [][Next]_vars

-----------------------------------------------------------------------------
TypeOK ==
  /\ now \in 0 .. MaxTime /\ since \in Nat /\ last \in {Absent} \cup 0 .. MaxTime
  /\ \A t \in Tasks : task[t].step \in {"idle", "counting", "loading", "exchanging", "writing"}
  /\ DOMAIN seen \subseteq Nets /\ requests \in 0 .. MaxRequests

\* total[i]: what the first i lines say.
Totals ==
  {total \in [0 .. Len(lines) -> 0 .. refusals] :
     total[0] = 0 /\ \A i \in 1 .. Len(lines) : total[i] = total[i - 1] + lines[i].n}

\* "At most one info line per EVERY_MS says how many there were": whatever the
\* interleaving, the lines' times are that far apart, and every refusal is in a
\* line, in what the next will say, or about to be counted (transport.rs:107-145).
EveryRefusalCounted ==
  /\ \A i, j \in DOMAIN lines : i # j =>
       \/ lines[i].at - lines[j].at >= Every
       \/ lines[j].at - lines[i].at >= Every
  /\ \E total \in Totals :
       refusals = since + Cardinality({t \in Tasks : task[t].step = "counting"}) + total[Len(lines)]

\* Whatever headers they send, the clients behind one address get no more through
\* than two windows' worth in any minute, unless a table full of others put the
\* address out (mod.rs:392-484).
OneBudgetAnAddress ==
  /\ Cardinality(DOMAIN seen) <= MaxTracked
  /\ \A n \in Nets : ~TrustProxy /\ n \notin forgot =>
       \A from \in 0 .. now :
         Cardinality({g \in granted : /\ Home[g.by] = n
                                      /\ g.at \in from .. from + Window - 1})
           <= 2 * PerMinute

\* Neither the log nor the gateway is flooded, and nobody is forgotten for it.
FloodsAreBounded == TypeOK /\ EveryRefusalCounted /\ OneBudgetAnAddress

\* "Some(n), the events since the last info line, this one included": but a task
\* that was overtaken writes a line of none, the other's line having said it.
ThisOneIncluded == \A i \in DOMAIN lines : lines[i].n > 0
=============================================================================
