------------------------------ MODULE MCCalls -------------------------------
(* A caller's calls: under which view, words and proofs it speaks to a host  *)
(* (Calling, with the directories), how one call goes from host to host      *)
(* (Failover), what the MCP server makes of it for its client (Tools), and    *)
(* what a service or an operator is told of a push (PushCommands).           *)
(* The parts share no state the models keep, so a behaviour is of one.       *)
EXTENDS MCCalling, Integers, Sequences

CONSTANTS
  Servers, Policies, Serving, Calling, DemoteSecs, Ticks, ha, hb, hc, \* as in Failover
  Views, Lines, Outcomes, Threshold, MaxOutput, Commands, MaxLines, MaxGrants, None,
                                                                  \* as in Tools
  Pushers, Jobs, Peers, Role, Deep, Temps, Capacity, Admissions, MaxServes, MaxPolicies
                                                                  \* as in PushCommands
VARIABLES
  clock, stored, seen, word, unanswered, trying, verdict,         \* as in Failover
  granted, grants, views, tools, services, negotiated, calling, written, unread, open,
  out, ran,                                                       \* as in Tools
  serve, made, tokens, admits, edits, cmd, conn, accepted,        \* as in PushCommands
  part                                       \* which part this behaviour is of

\* Every job is one node's call.
MadeBy == [j \in Jobs |-> CHOOSE n \in Peers : TRUE]

F == INSTANCE Failover WITH
       Hosts <- Servers, Versions <- Policies, Calls <- Calling, MaxTime <- Ticks,
       now <- clock, call <- trying
T == INSTANCE Tools
W == INSTANCE PushCommands WITH
       Calls <- Jobs, Nodes <- Peers, Caller <- MadeBy, policies <- edits

ASSUME CallsAssumption ==
  F!FailoverAssumption /\ T!ToolsAssumption /\ W!CommandsAssumption

called == <<clock, stored, seen, word, unanswered, trying, verdict>>
served == <<granted, grants, views, tools, services, negotiated, calling,
            written, unread, open, out, ran>>
commanded == <<serve, made, tokens, admits, edits, cmd, conn, accepted>>

\* Versions that each list one host less for the service.
MCServing == <<{ha, hb, hc}, {hb, hc}, {hc}>>

NoShape == [jq |-> None, head |-> None, max |-> None]

\* Tools.SearchTool.
SearchName == "search_services"

View(names, d) == [n \in names |-> d]

\* A view that changes in what it says, in what it holds, and past the
\* threshold (1), one service by the search tool's name.
MCViews ==
  {View({"gh"}, 1), View({"gh"}, 2), View({"gh", "db"}, 1), View({"gh", SearchName}, 1)}

Line(is, meta) ==
  [is |-> is, meta |-> meta, version |-> None, name |-> "gh", service |-> "gh",
   valid |-> TRUE, shape |-> NoShape]

MCLines ==
  {Line("blank", None), Line("garbage", None), Line("notification", None),
   [Line("initialize", "1999") EXCEPT !.version = "2024"],
   Line("discover", None), Line("ping", "2026"), Line("list", None), Line("list", "1999"),
   Line("call", None), [Line("call", "2026") EXCEPT !.name = SearchName],
   [Line("call", None) EXCEPT !.name = "call_service", !.service = "db"],
   [Line("call", None) EXCEPT !.shape.jq = "invalid"]}

Text == <<"a", "first", "rest", "rest", "rest", "newline", "first", "rest", "newline">>

Exited(exit) == [is |-> "exited", exit |-> exit, stdout |-> Text]

MCOutcomes ==
  {[is |-> "unreached"], [is |-> "denied"], Exited(0), Exited(3), Exited(77)}

MCCommands ==
  [shape : [jq : {None, "keeps", "stops", "invalid"}, head : {None, 0, 1, 2},
            max : {None, 0, 1, 3, 4, 5, 7, 9}],
   env : {None, "off", "1"}, stdin : {"terminal", "data", "late_data"}]

Lets(nodes, role) == [nodes |-> nodes, role |-> role]

\* Everyone; one who lost the right to be pushed to; nobody known in the role.
MCAdmissions == {Lets({"m", "n"}, {"m", "n"}), Lets({"n"}, {"m", "n"}), Lets({"m"}, {})}

MCInit ==
  /\ CallingInit /\ F!Init /\ T!Init /\ W!Init
  /\ part \in {"calling", "failover", "tools", "pushes"}
  \* a part that is left alone starts in one way only
  /\ part # "failover" => stored = 1 /\ word /\ \A x \in Servers : unanswered[x] = -1
  /\ part # "pushes" => admits = Lets({"m", "n"}, {"m", "n"})
  /\ part # "tools" => granted = View({"gh"}, 1) /\ services = <<>>

MCNext ==
  /\ UNCHANGED part
  /\ \/ part = "calling" /\ CallingNext /\ UNCHANGED <<called, served, commanded>>
     \/ part = "failover" /\ F!Next /\ UNCHANGED <<allVars, served, commanded>>
     \/ part = "tools" /\ T!Next /\ UNCHANGED <<allVars, called, commanded>>
     \/ part = "pushes" /\ W!Next /\ UNCHANGED <<allVars, called, served>>

MCSpec == MCInit /\ [][MCNext]_<<allVars, called, served, commanded, part>>

\* A call runs on one host, one that proved its key and that a view lists (Failover).
CallIsOneHosts == F!CallIsOneHosts
\* No list of tools a client was given goes stale in silence (Tools).
ToldOfChanges == T!ToldOfChanges
\* What a client, a service or an operator is told is what was done (Tools, PushCommands).
RepliesAreTrue == T!RepliesAreTrue /\ W!CommandsAreTrue
=============================================================================
