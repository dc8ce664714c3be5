---------------------------- MODULE PushCommands ----------------------------
(***************************************************************************)
(* `wires push` (wires/host/push.rs): the command, its way to the `wires   *)
(* serve` of its machine over one of two control sockets (control.rs),     *)
(* and what the command says of the push when it exits.                    *)
(*                                                                         *)
(* What becomes of a message the host took is Pushing's; how long a call's *)
(* token is good for is Capabilities', and when a serve binds its sockets, *)
(* Serving's: here one process serves at a time.                           *)
(***************************************************************************)
EXTENDS Integers, FiniteSets

CONSTANTS
  Pushers,      \* `wires push` commands
  Calls,        \* calls of services, each made by the node Caller names
  Caller,
  Nodes,        \* recipients
  Role,         \* a role name, which is no node id
  Deep,         \* whether $WIRES_HOME is too deep for a socket's path
  Temps,        \* temporary directories a process may be told of
  Capacity,     \* commands the push service's channel holds
  Admissions,   \* policies, by whom they let be pushed to and who is in Role
  MaxServes,    \* bound: serve started
  MaxPolicies   \* bound: policies taken

VARIABLES
  serve,        \* the serving process: see Down
  made,         \* by which serve each call was taken, if it was
  tokens,       \* calls whose token this serve holds
  admits,       \* the nodes that may be pushed to, and those known to be in Role
  policies,
  cmd,          \* each command: see NewCommand
  conn,         \* the host's end of its connection: see NoConn
  accepted      \* history: the nodes each command's message was queued for

vars == <<serve, made, tokens, admits, policies, cmd, conn, accepted>>

\* A role's name tells it from a node's id, and its members are nodes.
CommandsAssumption ==
  /\ Temps # {} /\ Role \notin Nodes /\ Caller \in [Calls -> Nodes]
  /\ \A to \in Admissions : to.role \subseteq Nodes
  /\ MaxServes \in Nat

Operator == "operator"

Down == [phase |-> "down", count |-> 0, temp |-> CHOOSE t \in Temps : TRUE]

\* PushRoute and PushSpec: by the operator, or under a call's token, to whom.
NewCommand == [phase |-> "new", route |-> Operator, to |-> Role, exit |-> -1]

\* Where its request is: "line", "queued", "sending", "answered"; what the reply
\* says of each recipient, or that the push was refused.
NoConn == [phase |-> "none", todo |-> {}, denied |-> {}, took |-> {}, err |-> FALSE]

Init ==
  /\ serve = Down /\ made = [c \in Calls |-> 0] /\ tokens = {}
  /\ admits \in Admissions /\ policies = 0
  /\ cmd = [p \in Pushers |-> NewCommand]
  /\ conn = [p \in Pushers |-> NoConn]
  /\ accepted = [p \in Pushers |-> {}]

Exits(p, code) == cmd' = [cmd EXCEPT ![p].phase = "done", ![p].exit = code]

-----------------------------------------------------------------------------
(* The sockets. *)

\* short_socket_path: a name that only the long path tells, under the temporary
\* directory of the process that asks.
Short(temp) == <<temp, "hash of the home">>

\* host_socket: in the home, if a socket's path can be that long.
Socket(temp) == IF Deep THEN Short(temp) ELSE <<"home", "run">>

\* push_sockets, in a serve that can bind both.  The child socket is in a
\* directory of this serve's own.
Starts(temp) ==
  /\ serve.phase = "down" /\ serve.count < MaxServes
  /\ serve' = [phase |-> "up", count |-> serve.count + 1, temp |-> temp]
  /\ UNCHANGED <<made, tokens, admits, policies, cmd, conn, accepted>>

\* Who answers on the socket a command finds in its environment or its home.
Reached(route, temp) ==
  /\ serve.phase = "up"
  /\ IF route = Operator THEN Socket(temp) = Socket(serve.temp)
     ELSE made[route] = serve.count

\* PushRoute::from_env, connect or connect_child, and the request.
Asks(p, route, temp) ==
  /\ cmd[p].phase = "new" /\ Reached(route, temp)
  /\ \E to \in Nodes \cup {Role} :
       cmd' = [cmd EXCEPT ![p] = [phase |-> "asked", route |-> route, to |-> to, exit |-> -1]]
  /\ conn' = [conn EXCEPT ![p].phase = "line"]
  /\ UNCHANGED <<serve, made, tokens, admits, policies, accepted>>

\* A token without a socket, no serve that answers, a subject or a body that is
\* too long: it exits before it asks.
Unasked(p) ==
  /\ cmd[p].phase = "new"
  /\ Exits(p, 1)
  /\ UNCHANGED <<serve, made, tokens, admits, policies, conn, accepted>>

-----------------------------------------------------------------------------
(* The host: serve_conn, dispatch_push, PushHost::run and send. *)

Answers(p, reply) == conn' = [conn EXCEPT ![p] = [reply EXCEPT !.phase = "answered"]]

Refusal == [NoConn EXCEPT !.err = TRUE]

\* What a socket takes: on the child socket, a push under a token this serve
\* holds, to that token's caller and no role.
Allowed(c) == c.route = Operator \/ (c.route \in tokens /\ c.to = Caller[c.route])

Waiting == {p \in Pushers : conn[p].phase = "queued"}

Dispatch(p) ==
  /\ conn[p].phase = "line"
  /\ \/ Allowed(cmd[p]) /\ serve.phase = "up" /\ Cardinality(Waiting) < Capacity
        /\ conn' = [conn EXCEPT ![p].phase = "queued"]
     \/ Allowed(cmd[p]) /\ serve.phase = "stopping" /\ Answers(p, Refusal)
     \/ ~ Allowed(cmd[p]) /\ Answers(p, Refusal)
  /\ UNCHANGED <<serve, made, tokens, admits, policies, cmd, accepted>>

\* recipients, push_recipients: a node as it is, a role's nodes by what is known
\* of them now.
Recipients(to) == IF to = Role THEN admits.role ELSE {to}

\* run takes a command and spawns its send.
Take(p) ==
  /\ conn[p].phase = "queued" /\ serve.phase = "up"
  /\ LET to == Recipients(cmd[p].to)
     IN IF to = {} THEN Answers(p, Refusal)
        ELSE conn' = [conn EXCEPT ![p].phase = "sending", ![p].todo = to]
  /\ UNCHANGED <<serve, made, tokens, admits, policies, cmd, accepted>>

\* One recipient after another, each authorized as the policy has it then.
Send(p, n) ==
  /\ conn[p].phase = "sending" /\ n \in conn[p].todo
  /\ IF n \in admits.nodes
     THEN /\ accepted' = [accepted EXCEPT ![p] = @ \cup {n}]
          /\ conn' = [conn EXCEPT ![p].todo = @ \ {n}, ![p].took = @ \cup {n}]
     ELSE /\ conn' = [conn EXCEPT ![p].todo = @ \ {n}, ![p].denied = @ \cup {n}]
          /\ UNCHANGED accepted
  /\ UNCHANGED <<serve, made, tokens, admits, policies, cmd>>

\* The report; nobody may be left to read it.
Report(p) ==
  /\ conn[p].phase = "sending" /\ conn[p].todo = {}
  /\ Answers(p, conn[p])
  /\ UNCHANGED <<serve, made, tokens, admits, policies, cmd, accepted>>

-----------------------------------------------------------------------------
(* The command again. *)

\* report: 0 if anyone got it or will, 77 if every recipient was refused.
Code(reply) == IF reply.err THEN 1 ELSE IF reply.took # {} THEN 0 ELSE 77

Hear(p) ==
  /\ cmd[p].phase = "asked" /\ conn[p].phase = "answered"
  /\ Exits(p, Code(conn[p]))
  /\ UNCHANGED <<serve, made, tokens, admits, policies, conn, accepted>>

\* REPLY_TIMEOUT, the user's patience, or a connection that was closed: the
\* host, if it lives, goes on with the push.
GivesUp(p) ==
  /\ cmd[p].phase = "asked"
  /\ Exits(p, 1)
  /\ UNCHANGED <<serve, made, tokens, admits, policies, conn, accepted>>

-----------------------------------------------------------------------------
(* The host's life. *)

\* A call is made while it serves; its token is pruned, or serve ends.
Mints(c) ==
  /\ serve.phase = "up" /\ made[c] = 0
  /\ made' = [made EXCEPT ![c] = serve.count]
  /\ tokens' = tokens \cup {c}
  /\ UNCHANGED <<serve, admits, policies, cmd, conn, accepted>>

Prunes(c) ==
  /\ c \in tokens
  /\ tokens' = tokens \ {c}
  /\ UNCHANGED <<serve, made, admits, policies, cmd, conn, accepted>>

\* serve_until is told to stop: the sockets go, and the channel with what it
\* holds, whose replies are dropped; open connections and sends go on.
Stops ==
  /\ serve.phase = "up"
  /\ serve' = [serve EXCEPT !.phase = "stopping"]
  /\ conn' = [p \in Pushers |->
                IF conn[p].phase = "queued" THEN [Refusal EXCEPT !.phase = "answered"]
                ELSE conn[p]]
  /\ UNCHANGED <<made, tokens, admits, policies, cmd, accepted>>

\* The process is gone, stopped or killed: of a connection, only the reply that
\* was written is left to read.
Dies ==
  /\ serve.phase # "down"
  /\ serve' = [serve EXCEPT !.phase = "down"]
  /\ tokens' = {}
  /\ conn' = [p \in Pushers |-> IF conn[p].phase = "answered" THEN conn[p] ELSE NoConn]
  /\ UNCHANGED <<made, admits, policies, cmd, accepted>>

\* The host takes another policy, or verifies who a node is.
PolicyMoves(to) ==
  /\ policies < MaxPolicies
  /\ policies' = policies + 1
  /\ admits' = to
  /\ UNCHANGED <<serve, made, tokens, cmd, conn, accepted>>

Next ==
  \/ \E t \in Temps : Starts(t)
  \/ \E p \in Pushers :
       \/ \E t \in Temps, r \in Calls \cup {Operator} : Asks(p, r, t)
       \/ Unasked(p) \/ Dispatch(p) \/ Take(p) \/ Report(p) \/ Hear(p) \/ GivesUp(p)
       \/ \E n \in Nodes : Send(p, n)
  \/ \E c \in Calls : Mints(c) \/ Prunes(c)
  \/ Stops \/ Dies
  \/ \E to \in Admissions : PolicyMoves(to)

Spec == Init /\ [][Next]_vars

-----------------------------------------------------------------------------
TypeOK ==
  /\ serve.phase \in {"down", "up", "stopping"} /\ serve.temp \in Temps
  /\ tokens \subseteq Calls
  /\ admits \in Admissions
  /\ made \in [Calls -> 0 .. MaxServes]
  /\ \A p \in Pushers :
       /\ cmd[p].phase \in {"new", "asked", "done"}
       /\ cmd[p].exit \in {-1, 0, 1, 77}
       /\ conn[p].phase \in {"none", "line", "queued", "sending", "answered"}
       /\ accepted[p] \subseteq Nodes

\* What a command exits with is true whatever the host went through meanwhile:
\* 0, that some node has or will have its message; 77, that none ever will.
\* (1 says neither: a host that was too slow, or that stopped, may have it.)
ExitsAreTrue ==
  \A p \in Pushers :
    /\ cmd[p].exit = 0 => accepted[p] # {}
    /\ cmd[p].exit = 77 => accepted[p] = {}

\* A command run under a call's token reaches that call's caller or nobody,
\* whoever runs it and however late, over a stop and another serve.
ScopedToTheCaller ==
  \A p \in Pushers : cmd[p].route # Operator => accepted[p] \subseteq {Caller[cmd[p].route]}

\* Both, for every command.
CommandsAreTrue == TypeOK /\ ExitsAreTrue /\ ScopedToTheCaller

\* Not checked in a passing run (see README): while a serve is up, an operator's
\* command finds it.  In a home that is too deep for a socket, each looks under
\* the temporary directory of its own environment.
FindsTheHost ==
  serve.phase = "up" => \A t \in Temps : Socket(t) = Socket(serve.temp)
=============================================================================
