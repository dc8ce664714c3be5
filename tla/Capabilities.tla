---------------------------- MODULE Capabilities ----------------------------
(***************************************************************************)
(* What a service holds of a call on a host: the push token of the call    *)
(* (wires/host/capability.rs), which a child uses over the child socket    *)
(* (control.rs) and a native service in-process (native.rs), and, for a    *)
(* service of the Python or Node bindings (bindings/lib.rs,                *)
(* bindings/node/lib.rs), the call's stdio behind locks (SharedIo).        *)
(*                                                                         *)
(* A token is named by its call: one serve mints one for each.  Jobs a     *)
(* call started may keep its token for good.  Who is admitted to call, and *)
(* how the bridge ends a call, is HostGate's; what becomes of a push that  *)
(* is let through is Pushing's.                                            *)
(***************************************************************************)
EXTENDS Integers, FiniteSets

CONSTANTS
  Calls,
  Nodes,       \* nodes a call may come from, or a push may name
  Grace,       \* CAPABILITY_GRACE
  MaxTime,     \* bound: the clock
  MaxRestarts  \* bound: serve restarted

CapabilitiesAssumption == Nodes # {} /\ Grace \in Nat \ {0} /\ MaxTime \in Nat

VARIABLES
  now,
  call,        \* each call's session: see NoCall
  io,          \* its stdio, for a binding's service: see Streams
  grants,      \* Capabilities: token -> when it expires, or Live
  pushing,     \* whether serve's push service still takes commands
  restarts,
  pushed       \* history: the last push let through

vars == <<now, call, io, grants, pushing, restarts, pushed>>

Live == -1

Kinds == {"child", "native", "foreign"}

NoCall == [phase |-> "new", kind |-> "child", from |-> CHOOSE n \in Nodes : TRUE,
           ended |-> 0]

\* SharedIo: who holds each stream's lock, and what `close` has taken.  The
\* caller's stdin may be at its end; its stdout may be behind.
Streams == [stdin |-> "free", stdout |-> "free", closed |-> {},
            eof |-> FALSE, behind |-> FALSE]

NoPush == [token |-> CHOOSE c \in Calls : TRUE, to |-> CHOOSE n \in Nodes : TRUE,
           at |-> 0, some |-> FALSE]

Init ==
  /\ now = 0
  /\ call = [c \in Calls |-> NoCall]
  /\ io = [c \in Calls |-> Streams]
  /\ grants = [c \in {} |-> 0]
  /\ pushing = TRUE
  /\ restarts = 0
  /\ pushed = NoPush

Phase(c, phase) == call[c].phase = phase
Goes(c, phase) == [call EXCEPT ![c].phase = phase]

-----------------------------------------------------------------------------
(* The tokens. *)

\* prune
Prune(g, t) == [c \in {d \in DOMAIN g : g[d] = Live \/ g[d] > t} |-> g[c]]

Mint(c) ==
  LET kept == Prune(grants, now)
  IN [d \in DOMAIN kept \cup {c} |-> IF d = c THEN Live ELSE kept[d]]

\* Capabilities::finish, when the session drops the call's CallCapability.
Finish(c) ==
  [d \in DOMAIN grants |-> IF d = c THEN now + Grace ELSE grants[d]]

\* The session of an admitted call, its ack sent, on a host with `push`.
Start(c, kind, from) ==
  /\ Phase(c, "new")
  /\ call' = [call EXCEPT ![c] = [NoCall EXCEPT !.phase = "running", !.kind = kind,
                                                !.from = from]]
  /\ grants' = Mint(c)
  /\ UNCHANGED <<now, io, pushing, restarts, pushed>>

\* The child's command cannot be spawned: the token is dropped all the same.
NotSpawned(c) ==
  /\ Phase(c, "running") /\ call[c].kind = "child"
  /\ call' = [call EXCEPT ![c].phase = "ended", ![c].ended = now]
  /\ grants' = Finish(c)
  /\ UNCHANGED <<now, io, pushing, restarts, pushed>>

-----------------------------------------------------------------------------
(* Capabilities::check, and the two ways to it. *)

\* Mutant of Check: an expired token that nothing has pruned is taken.
CheckHeld(c, to) == c \in DOMAIN grants /\ to = call[c].from

Check(c, to) == c \in DOMAIN Prune(grants, now) /\ to = call[c].from

\* serve_conn on the child socket, and Call::push_to_caller: the push is let
\* through to the push service.  A push on the operator socket needs no token.
CallerPush(c, to) ==
  /\ ~ Phase(c, "new") /\ pushing
  /\ Check(c, to)
  /\ grants' = Prune(grants, now)
  /\ pushed' = [token |-> c, to |-> to, at |-> now, some |-> TRUE]
  /\ UNCHANGED <<now, call, io, pushing, restarts>>

\* An unknown or expired token, or another node than the call's caller.
Refused(c, to) ==
  /\ ~ Phase(c, "new")
  /\ ~ Check(c, to)
  /\ grants' = Prune(grants, now)
  /\ UNCHANGED <<now, call, io, pushing, restarts, pushed>>

-----------------------------------------------------------------------------
(* A call's service. *)

\* A child exits, or a native handler returns, panics or is aborted: the
\* bridge ends the call.
Ends(c) ==
  /\ call' = [call EXCEPT ![c].phase = "ended", ![c].ended = now]
  /\ grants' = Finish(c)
  /\ UNCHANGED <<now, io, pushing, restarts, pushed>>

Exits(c) ==
  /\ Phase(c, "running") /\ call[c].kind # "foreign"
  /\ Ends(c)

\* The caller is gone, or its service was started by a session that is: the
\* child is killed, the task aborted at its next await.  (A binding's handler
\* runs on, on its own thread, with nobody at the other end of its streams.)
Aborted(c) ==
  /\ call[c].phase \in {"running", "returned"}
  /\ call' = [call EXCEPT ![c].phase = "ended", ![c].ended = now]
  /\ grants' = Finish(c)
  /\ io' = [io EXCEPT ![c] = [@ EXCEPT !.eof = TRUE, !.behind = FALSE]]
  /\ UNCHANGED <<now, pushing, restarts, pushed>>

-----------------------------------------------------------------------------
(* A binding's service: run_foreign, and the call object its handler's       *)
(* threads (or Promises) share.                                              *)

Takes(c, stream, who) == [io EXCEPT ![c][stream] = who]

\* SharedIo::read: holds the lock until input comes, or its end.
ReadBegin(c) ==
  /\ call[c].kind = "foreign" /\ call[c].phase # "new"
  /\ io[c].stdin = "free" /\ "stdin" \notin io[c].closed
  /\ io' = Takes(c, "stdin", "read")
  /\ UNCHANGED <<now, call, grants, pushing, restarts, pushed>>

\* Some input has come.
ReadSome(c) ==
  /\ io[c].stdin = "read" /\ ~ io[c].eof
  /\ io' = Takes(c, "stdin", "free")
  /\ UNCHANGED <<now, call, grants, pushing, restarts, pushed>>

ReadEnd(c) ==
  /\ io[c].stdin = "read" /\ io[c].eof
  /\ io' = Takes(c, "stdin", "free")
  /\ UNCHANGED <<now, call, grants, pushing, restarts, pushed>>

\* write_all, of stdout or stderr: holds the lock while the caller is behind.
WriteBegin(c) ==
  /\ call[c].kind = "foreign" /\ call[c].phase # "new"
  /\ io[c].stdout = "free" /\ "stdout" \notin io[c].closed
  /\ io' = Takes(c, "stdout", "write")
  /\ UNCHANGED <<now, call, grants, pushing, restarts, pushed>>

WriteEnd(c) ==
  /\ io[c].stdout = "write" /\ ~ io[c].behind
  /\ io' = Takes(c, "stdout", "free")
  /\ UNCHANGED <<now, call, grants, pushing, restarts, pushed>>

\* The handler returned, or raised (its text then goes to stderr).
Returns(c) ==
  /\ Phase(c, "running") /\ call[c].kind = "foreign"
  /\ call' = Goes(c, "returned")
  /\ UNCHANGED <<now, io, grants, pushing, restarts, pushed>>

\* SharedIo::close: stdout (and stderr), then stdin, each under its lock.
CloseOut(c) ==
  /\ Phase(c, "returned") /\ io[c].closed = {} /\ io[c].stdout = "free"
  /\ io' = [io EXCEPT ![c].closed = {"stdout"}]
  /\ UNCHANGED <<now, call, grants, pushing, restarts, pushed>>

CloseIn(c) ==
  /\ Phase(c, "returned") /\ io[c].closed = {"stdout"} /\ io[c].stdin = "free"
  /\ io' = [io EXCEPT ![c].closed = {"stdout", "stdin"}]
  /\ UNCHANGED <<now, call, grants, pushing, restarts, pushed>>

\* close is over: the task ends with the handler's code.
Closed(c) ==
  /\ Phase(c, "returned") /\ io[c].closed = {"stdout", "stdin"}
  /\ Ends(c)

-----------------------------------------------------------------------------
(* The world. *)

\* The caller ends its stdin, falls behind, or reads on.
CallerEof(c) ==
  /\ call[c].phase # "new" /\ ~ io[c].eof
  /\ io' = [io EXCEPT ![c].eof = TRUE]
  /\ UNCHANGED <<now, call, grants, pushing, restarts, pushed>>

CallerBehind(c, b) ==
  /\ call[c].phase \in {"running", "returned"} /\ io[c].behind # b
  /\ io' = [io EXCEPT ![c].behind = b]
  /\ UNCHANGED <<now, call, grants, pushing, restarts, pushed>>

\* serve is shutting down: dispatch_push answers that it is.
ShutsDown ==
  /\ pushing
  /\ pushing' = FALSE
  /\ UNCHANGED <<now, call, io, grants, restarts, pushed>>

\* serve begins again, its calls and its tokens gone with it.
Restart ==
  /\ restarts < MaxRestarts
  /\ restarts' = restarts + 1
  /\ pushing' = TRUE
  /\ grants' = [c \in {} |-> 0]
  /\ call' = [c \in Calls |-> IF call[c].phase \in {"running", "returned"}
                              THEN [call[c] EXCEPT !.phase = "lost", !.ended = now]
                              ELSE IF Phase(c, "ended") THEN Goes(c, "lost")[c]
                              ELSE call[c]]
  /\ UNCHANGED <<now, io, pushed>>

Tick ==
  /\ now < MaxTime
  /\ now' = now + 1
  /\ UNCHANGED <<call, io, grants, pushing, restarts, pushed>>

Next ==
  \/ \E c \in Calls :
       \/ \E kind \in Kinds, from \in Nodes : Start(c, kind, from)
       \/ NotSpawned(c) \/ Exits(c) \/ Aborted(c)
       \/ \E to \in Nodes : CallerPush(c, to) \/ Refused(c, to)
       \/ ReadBegin(c) \/ ReadSome(c) \/ ReadEnd(c) \/ WriteBegin(c) \/ WriteEnd(c)
       \/ Returns(c) \/ CloseOut(c) \/ CloseIn(c) \/ Closed(c)
       \/ CallerEof(c)
       \/ \E b \in BOOLEAN : CallerBehind(c, b)
  \/ ShutsDown \/ Restart \/ Tick

Spec == Init /\ [][Next]_vars

\* Tokio runs what can run: reads that have come to their end, writes the
\* caller has room for, the closing of a call whose handler returned.  Nothing
\* makes a caller write, end its stdin or read.
LiveSpec ==
  /\ Spec
  /\ \A c \in Calls :
       /\ WF_vars(ReadEnd(c)) /\ WF_vars(WriteEnd(c))
       /\ SF_vars(CloseOut(c)) /\ SF_vars(CloseIn(c)) /\ WF_vars(Closed(c))

-----------------------------------------------------------------------------
TypeOK ==
  /\ now \in 0 .. MaxTime
  /\ \A c \in Calls :
       /\ call[c].phase \in {"new", "running", "returned", "ended", "lost"}
       /\ call[c].kind \in Kinds /\ call[c].from \in Nodes
       /\ io[c].stdin \in {"free", "read"} /\ io[c].stdout \in {"free", "write"}
  /\ DOMAIN grants \subseteq Calls

\* A push goes through only to the caller of the call its token was minted
\* for, while that call runs or for less than CAPABILITY_GRACE after it ended,
\* and never across a restart of serve.
PushesReachTheCaller ==
  LET c == pushed.token
  IN pushed.some =>
       /\ pushed.to = call[c].from
       /\ call[c].phase \in {"ended", "lost"} => pushed.at < call[c].ended + Grace

\* However a call ends (its child never spawned, its caller gone), its token
\* is on its way out: what lives without an end is a call under way.
LiveTokensHaveCalls ==
  \A c \in DOMAIN grants : grants[c] = Live => call[c].phase \in {"running", "returned"}

\* A token is worth what its call is worth: only its caller can be reached by
\* it, and it does not outlive the call but for the grace.
TokensFollowCalls == TypeOK /\ PushesReachTheCaller /\ LiveTokensHaveCalls

\* Not checked in a passing run (see README): a call whose handler returned
\* ends, unless its caller leaves its stdout unread.  A thread of the handler
\* left in read_stdin holds the lock that close waits for.
ReturnedEnds ==
  \A c \in Calls :
    Phase(c, "returned") ~> (~ Phase(c, "returned") \/ io[c].behind)
=============================================================================
