------------------------------ MODULE Failover ------------------------------
(***************************************************************************)
(* A call of a service from end to end (wires/caller/call.rs, pick.rs and  *)
(* the call side of wires/host/transport.rs): the entry it dials from, the *)
(* hosts in the order they are tried, what it says to each and what makes  *)
(* it go to the next, the ack, the exit code, and unanswered.json, which   *)
(* the calls of one user share.                                            *)
(*                                                                         *)
(* A policy is its version; Serving[v] are the hosts it lists for the      *)
(* service.  Whether a host's words vouch is Calling's: here each proof    *)
(* either does or does not.  Hosts are honest: one that was told the call  *)
(* and refused does not run it.                                            *)
(***************************************************************************)
EXTENDS Integers, Sequences, FiniteSets

CONSTANTS
  Hosts,
  Versions,   \* of the policy
  Serving,    \* Serving[v]: the hosts v lists for the service
  Calls,      \* calls, each a process of its own
  DemoteSecs, \* DEMOTE_SECS
  MaxTime     \* bound: the clock

FailoverAssumption ==
  /\ IsFiniteSet(Hosts) /\ Versions \subseteq Nat /\ Serving \in [Versions -> SUBSET Hosts]
  /\ DemoteSecs \in Nat /\ MaxTime \in Nat

VARIABLES
  now,
  stored,     \* view.json: the version this node's view is of
  seen,       \* the newest version a host has shown this node
  word,       \* whether the view's keeper holds a current word for `stored`
  unanswered, \* unanswered.json: when each host last failed, or -1
  call,       \* each call: see IdleCall
  verdict     \* verdict[c][h]: what host h decided of call c

vars == <<now, stored, seen, word, unanswered, call, verdict>>
shared == <<now, stored, seen, word, unanswered>>

IdleCall ==
  [phase |-> "idle", at |-> 0,
   view |-> 0,         \* the version of the view it decides by (vouch.held)
   tried |-> << >>,    \* its hosts in order
   next |-> 0,         \* the one dialed
   atOnce |-> FALSE,   \* it spoke before the proof
   lapsed |-> {},      \* the positions that failed for want of a word
   told |-> {},        \* the hosts sent the Hello and the Invoke
   under |-> {},       \* history: <<host, version>> each was told under
   loaded |-> [h \in Hosts |-> -1],
   exit |-> -1]

Init ==
  /\ now = 0
  /\ stored \in Versions /\ seen = stored
  /\ word \in BOOLEAN
  /\ unanswered \in [Hosts -> {-1, 0}]  \* of earlier calls
  /\ call = [c \in Calls |-> IdleCall]
  /\ verdict = [c \in Calls |-> [h \in Hosts |-> "none"]]

Newest(a, b) == IF a > b THEN a ELSE b

In(c, phase) == call[c].phase = phase
Host(c) == call[c].tried[call[c].next]

\* The call in its new state; the host decides nothing.
Becomes(c, r) == call' = [call EXCEPT ![c] = r] /\ UNCHANGED verdict

\* It ends, with its exit code.
EndsAs(c, code) == [call[c] EXCEPT !.phase = "done", !.exit = code]

-----------------------------------------------------------------------------
(* Which hosts, in which order. *)

\* Unanswered::failed_recently, with -1 for None: a time ahead of now counts.
FailedRecently(h, t) ==
  IF unanswered[h] # -1 /\ t - unanswered[h] < DemoteSecs THEN unanswered[h] ELSE -1

\* candidates: a random order but for the demoted, who go last, the oldest
\* failure first.
Candidates(v) ==
  {s \in [1 .. Cardinality(Serving[v]) -> Serving[v]] :
     \A i, j \in DOMAIN s : i < j =>
       /\ s[i] # s[j]
       /\ FailedRecently(s[i], now) <= FailedRecently(s[j], now)}

Dials(c, v) ==
  IF Serving[v] = {} THEN Becomes(c, EndsAs(c, 1))
  ELSE \E s \in Candidates(v) :
    Becomes(c, [IdleCall EXCEPT !.phase = "dialing", !.at = now, !.view = v,
                                !.tried = s, !.next = 1])

\* call_service_with: the service is in the view.
Start(c) ==
  /\ In(c, "idle")
  /\ Dials(c, stored)
  /\ UNCHANGED shared

\* resolve_entry: it is not, and a directory resolves it under v, which is
\* not kept.  One older than what this node has seen is refused.
Resolve(c, v) ==
  /\ In(c, "idle")
  /\ IF v < Newest(stored, seen) THEN Becomes(c, EndsAs(c, 1)) ELSE Dials(c, v)
  /\ UNCHANGED shared

\* call_cmd: a filter that does not compile, data on stdin in locked mode, no
\* token, no view that is fresh, no directory to resolve the name.
NotDialed(c) ==
  /\ In(c, "idle")
  /\ Becomes(c, EndsAs(c, 2))
  /\ UNCHANGED shared

-----------------------------------------------------------------------------
(* call_service_on and speak. *)

\* The next host is tried, or none is left.
Fails(c, lapsed) ==
  LET r == [call[c] EXCEPT !.lapsed = @ \cup (IF lapsed THEN {call[c].next} ELSE {})]
  IN IF call[c].next = Len(call[c].tried) THEN [r EXCEPT !.phase = "done", !.exit = 1]
     ELSE [r EXCEPT !.phase = "dialing", !.next = @ + 1]

\* No connection within the time limit, or no stream.
Unreachable(c) ==
  /\ In(c, "dialing")
  /\ Becomes(c, Fails(c, FALSE))
  /\ UNCHANGED shared

Tells(c, v) ==
  [call[c] EXCEPT !.view = v, !.told = @ \cup {Host(c)}, !.under = @ \cup {<<Host(c), v>>}]

\* Vouching::ready: Hello and Invoke at once; else Open alone.
Speak(c) ==
  /\ In(c, "dialing")
  /\ LET ready == Host(c) \in Serving[call[c].view] /\ word
     IN Becomes(c, [(IF ready THEN Tells(c, call[c].view) ELSE call[c])
                    EXCEPT !.phase = "proof", !.atOnce = ready])
  /\ UNCHANGED shared

\* A refusal before a proof decides nothing, whatever the host was told.
RefusedFirst(c) ==
  /\ In(c, "proof")
  /\ verdict[c][Host(c)] # "ran"
  /\ call' = [call EXCEPT ![c] = Fails(c, FALSE)]
  /\ verdict' = [verdict EXCEPT ![c][Host(c)] = "denied"]
  /\ UNCHANGED shared

\* Mutant of Unproven: the next host is tried whatever was said to this one.
UnprovenGoesOn(c, lapsed) ==
  /\ In(c, "proof")
  /\ Becomes(c, Fails(c, lapsed))
  /\ UNCHANGED shared

\* No proof, or one that does not check: the next host, unless this one was
\* told the call already.
Unproven(c, lapsed) ==
  /\ In(c, "proof")
  /\ Becomes(c, IF call[c].atOnce THEN EndsAs(c, 1) ELSE Fails(c, lapsed))
  /\ UNCHANGED shared

\* Vouching::serves, of the view as it is by now.
Serves(h, v) == h \in Serving[v]

\* Vouching::check, of the head the view has: a word vouches, and is kept.
ProofSame(c) ==
  /\ In(c, "proof")
  /\ IF call[c].atOnce THEN Becomes(c, [call[c] EXCEPT !.phase = "ack"])
     ELSE IF Serves(Host(c), call[c].view)
     THEN Becomes(c, [Tells(c, call[c].view) EXCEPT !.phase = "ack"])
     ELSE Becomes(c, Fails(c, FALSE))
  /\ word' \in {word, TRUE}
  /\ UNCHANGED <<now, stored, seen, unanswered>>

\* Of a newer one, once spoken to: it is the ack's to check.
ProofNewerAfter(c, v) ==
  /\ In(c, "proof") /\ call[c].atOnce /\ v > call[c].view
  /\ seen' = Newest(seen, v)
  /\ Becomes(c, [call[c] EXCEPT !.phase = "ack"])
  /\ UNCHANGED <<now, stored, word, unanswered>>

\* Of a newer one, before: the view is refreshed, to u if a directory answers,
\* and only the host's own version will do.
ProofNewer(c, v, u) ==
  /\ In(c, "proof") /\ ~ call[c].atOnce /\ v > call[c].view
  /\ u >= stored
  /\ seen' = Newest(seen, v)
  /\ stored' = u
  /\ word' \in {word, u # stored}
  /\ IF u = v /\ Serves(Host(c), u) THEN Becomes(c, [Tells(c, u) EXCEPT !.phase = "ack"])
     ELSE Becomes(c, [Fails(c, FALSE) EXCEPT !.view = u])
  /\ UNCHANGED <<now, unanswered>>

\* No directory answers.
NotRefreshed(c, v) ==
  /\ In(c, "proof") /\ ~ call[c].atOnce /\ v > call[c].view
  /\ seen' = Newest(seen, v)
  /\ Becomes(c, Fails(c, FALSE))
  /\ UNCHANGED <<now, stored, word, unanswered>>

-----------------------------------------------------------------------------
(* converse, and what follows. *)

\* The host decides a call it was told, at any time, once.
Decides(c, h, what) ==
  /\ h \in call[c].told /\ verdict[c][h] = "none"
  /\ verdict' = [verdict EXCEPT ![c][h] = what]
  /\ UNCHANGED <<shared, call>>

\* Denied, after the proof: final.  note_refused: the view is taken for stale.
Denied(c) ==
  /\ In(c, "ack") /\ verdict[c][Host(c)] = "denied"
  /\ Becomes(c, EndsAs(c, 77))
  /\ word' = FALSE
  /\ UNCHANGED <<now, stored, seen, unanswered>>

\* accept_ack: a newer head must still list the host, or no input is sent.
Ack(c, v) ==
  /\ In(c, "ack") /\ verdict[c][Host(c)] = "ran"
  /\ v > call[c].view /\ Host(c) \notin Serving[v] => call' = [call EXCEPT ![c] = EndsAs(c, 1)]
  /\ ~ (v > call[c].view /\ Host(c) \notin Serving[v]) =>
       call' = [call EXCEPT ![c].phase = "bridged", ![c].view = Newest(@, v)]
  /\ UNCHANGED <<shared, verdict>>

\* The host closed before its ack or before an exit code.
Closed(c) ==
  /\ call[c].phase \in {"ack", "bridged"}
  /\ Becomes(c, EndsAs(c, 1))
  /\ UNCHANGED shared

\* own_exit: the command's own 77 is reported as 1.
OwnExit(remote) == IF remote = 77 THEN 1 ELSE remote

\* The command exits: the hosts before this one are to be remembered.
Exits(c, remote) ==
  /\ In(c, "bridged")
  /\ Becomes(c, [call[c] EXCEPT !.phase = "record", !.exit = OwnExit(remote)])
  /\ UNCHANGED shared

\* Unanswered::record reads the file ...
RecordRead(c) ==
  /\ In(c, "record")
  /\ Becomes(c, [call[c] EXCEPT !.phase = "write", !.loaded = unanswered])
  /\ UNCHANGED shared

\* Unanswered::note, of the file as it was read: the hosts tried before, at
\* the time the call began; what is old is dropped.
Noted(r) ==
  [h \in Hosts |->
     IF h = r.tried[r.next] THEN -1
     ELSE IF \E i \in 1 .. r.next - 1 : r.tried[i] = h THEN r.at
     ELSE IF r.at - r.loaded[h] < DemoteSecs THEN r.loaded[h] ELSE -1]

\* ... and writes it over.  A newer head reported is noted, and with
\* refresh_after the view refreshed, to v, if a directory answers.
RecordWrite(c, v) ==
  /\ In(c, "write")
  /\ unanswered' = Noted(call[c])
  /\ seen' = Newest(seen, call[c].view)
  /\ v >= stored /\ (v = stored \/ call[c].view > stored)
  /\ stored' = v
  /\ Becomes(c, [call[c] EXCEPT !.phase = "done"])
  /\ UNCHANGED <<now, word>>

Tick ==
  /\ now < MaxTime
  /\ now' = now + 1
  /\ word' \in {word, FALSE}
  /\ UNCHANGED <<stored, seen, unanswered, call, verdict>>

Next ==
  \/ \E c \in Calls :
       \/ Start(c) \/ NotDialed(c) \/ Unreachable(c) \/ Speak(c) \/ RefusedFirst(c)
       \/ ProofSame(c) \/ Denied(c) \/ Closed(c) \/ RecordRead(c)
       \/ \E b \in BOOLEAN : Unproven(c, b)
       \/ \E h \in Hosts, what \in {"ran", "denied"} : Decides(c, h, what)
       \/ \E x \in {0, 77} : Exits(c, x)
       \/ \E v \in Versions :
            \/ Resolve(c, v) \/ ProofNewerAfter(c, v) \/ NotRefreshed(c, v)
            \/ Ack(c, v) \/ RecordWrite(c, v)
            \/ \E u \in Versions : ProofNewer(c, v, u)
  \/ Tick

Spec == Init /\ [][Next]_vars

-----------------------------------------------------------------------------
TypeOK ==
  /\ now \in 0 .. MaxTime
  /\ stored \in Versions /\ seen \in Versions /\ word \in BOOLEAN
  /\ unanswered \in [Hosts -> -1 .. MaxTime]
  /\ \A c \in Calls :
       /\ call[c].phase \in
            {"idle", "dialing", "proof", "ack", "bridged", "record", "write", "done"}
       /\ call[c].told \subseteq Hosts
       /\ call[c].exit \in {-1, 0, 1, 2, 77}
  /\ verdict \in [Calls -> [Hosts -> {"none", "ran", "denied"}]]

\* However many hosts a call goes through, at most one runs it; what it exits
\* with is that host's word; and 77 means that a host refused it and none ran
\* it.  (A host told the call at once may have run it: speak goes on to the
\* next only after a refusal.)
OneVerdict ==
  \A c \in Calls :
    LET ran == {h \in Hosts : verdict[c][h] = "ran"}
    IN /\ Cardinality(ran) <= 1
       /\ call[c].exit = 0 => ran = {Host(c)}
       /\ call[c].exit = 77 => ran = {} /\ verdict[c][Host(c)] = "denied"

\* A host is told the call (the token, the arguments) only under a version
\* that lists it, though the hosts were picked under an older one and the view
\* was refreshed between two of them.
ToldWhileListed ==
  \A c \in Calls : \A t \in call[c].under : t[1] \in Serving[t[2]]

\* A call is one host's: what it ends with, and whom it told, whatever was
\* refused, lost or changed on the way.
CallIsOneHosts == TypeOK /\ OneVerdict /\ ToldWhileListed

\* Not checked, since it fails (see README): a host that failed to answer a
\* call that another host answered is tried last for DEMOTE_SECS.  pick.rs:9
\* says so of every host that failed to answer; a call that ends in a refusal,
\* a failure or at no host records none.
DownIsRemembered ==
  \A c \in Calls :
    In(c, "done") /\ call[c].next > 1 =>
      \A i \in 1 .. call[c].next - 1 : unanswered[call[c].tried[i]] # -1
=============================================================================
