-------------------------------- MODULE Tools --------------------------------
(***************************************************************************)
(* `wires mcp` (caller/mcp.rs): the services of a caller's view as the     *)
(* tools of an MCP client, and how a call's output is shaped before the    *)
(* client, or the caller of `wires call`, reads it (caller/shape.rs,       *)
(* lock.rs, call_cmd of call.rs).                                          *)
(*                                                                         *)
(* A view goes from the poll to the mapper to the server through two watch *)
(* channels; the server answers one line at a time, in order, and between  *)
(* two lines takes a new list of services.  The poll and view.json are     *)
(* ViewFile's, the call itself Calling's and Failover's: here a round of   *)
(* the poll brings what is granted now, and a call comes to any outcome.   *)
(***************************************************************************)
EXTENDS Integers, Sequences, FiniteSets, FiniteSetsExt

CONSTANTS
  Views,       \* what a directory may cut for the caller: name -> description
  Lines,       \* what the client may write: see Line
  Outcomes,    \* what a call may come to: see Exited
  Threshold,   \* SEARCH_THRESHOLD
  MaxOutput,   \* MAX_OUTPUT_BYTES
  Commands,    \* `wires call` command lines: see CallCmd
  MaxLines,    \* bound: lines the client writes
  MaxGrants,   \* bound: edits that change the view
  None

VARIABLES
  granted,     \* the caller's entries under the network's policy
  grants,
  views,       \* the poll's watch channel: its value, and whether it is new
  tools,       \* the mapper's
  services,    \* McpServer.services
  negotiated,  \* McpServer.negotiated
  calling,     \* the tools/call being run, or None
  written,     \* history: every line the client wrote
  unread,      \* those serve_following has not read
  open,        \* the client's end of the input
  out,         \* what was written to the output
  ran          \* history: the last `wires call` on this machine

vars == <<granted, grants, views, tools, services, negotiated, calling,
          written, unread, open, out, ran>>

feed == <<granted, grants, views>>

SearchTool == "search_services"
CallTool   == "call_service"
Legacy     == {"2024", "2025"}
Modern     == {"2026"}

\* mcp_cmd: with no view it starts with no tools.
Init ==
  /\ granted \in Views
  /\ grants = 0
  /\ services \in {granted, <<>>}
  /\ views = [value |-> services, new |-> FALSE]
  /\ tools = [value |-> services, new |-> FALSE]
  /\ negotiated = None
  /\ calling = None
  /\ written = <<>> /\ unread = <<>> /\ open = TRUE
  /\ out = <<>>
  /\ ran = None

-----------------------------------------------------------------------------
(* Shaping.  A byte is "a", a newline, or a part of a character of several *)
(* bytes: its first, or one that continues it.                             *)

Bytes == {"a", "newline", "first", "rest"}

\* No character is longer than four bytes, and none lacks its first.
IsText(bytes) ==
  \A i \in 1..Len(bytes) : bytes[i] = "rest" =>
    \E j \in 1..(i - 1) : /\ i - j <= 3 /\ bytes[j] = "first"
                         /\ \A m \in (j + 1)..i : bytes[m] = "rest"

\* What may be in `calling`.
Callings ==
  [id : Nat, service : UNION {DOMAIN v : v \in Views},
   shape : {line.shape : line \in Lines}, version : Legacy \cup Modern \cup {None}]

\* What a command may ask for, and what a host may send: of bytes that are no
\* text the properties say nothing.
ToolsAssumption ==
  /\ \A cmd \in Commands :
       /\ cmd.shape.head \in Nat \cup {None}
       /\ cmd.shape.max \in Nat \cup {None}
  /\ \A outcome \in Outcomes :
       /\ outcome.is \in {"unreached", "denied", "exited"}
       /\ outcome.is = "exited" =>
            outcome.stdout \in Seq(Bytes) /\ IsText(outcome.stdout) /\ outcome.exit \in Nat
  /\ None \notin Callings

Newlines(bytes) == {i \in 1..Len(bytes) : bytes[i] = "newline"}

HeadLen(bytes, n) ==
  IF n = 0 THEN 0
  ELSE IF Cardinality(Newlines(bytes)) < n THEN Len(bytes)
  ELSE CHOOSE i \in Newlines(bytes) :
         Cardinality({j \in Newlines(bytes) : j <= i}) = n

\* The cuts that split no character, among those the loop tries.
CharFloor(bytes, n) ==
  LET cuts == {k \in (IF n > 3 THEN n - 3 ELSE 0)..n : bytes[k + 1] # "rest"}
  IN IF n >= Len(bytes) THEN Len(bytes) ELSE IF cuts = {} THEN n ELSE Max(cuts)

\* A shape keeps None where a stage is not set.  What a jq program makes of
\* the output is the program's: it gives the output, or stops after a line.
JqRun(jq, bytes) ==
  IF jq = "stops" THEN SubSeq(bytes, 1, HeadLen(bytes, 1)) ELSE bytes

Apply(shape, bytes) ==
  LET filtered == JqRun(shape.jq, bytes)
      head == IF shape.head = None THEN filtered
              ELSE SubSeq(filtered, 1, HeadLen(filtered, shape.head))
      cuts == shape.max # None /\ Len(head) > shape.max
  IN [stdout |-> IF cuts THEN SubSeq(head, 1, CharFloor(head, shape.max)) ELSE head,
      error  |-> shape.jq = "stops"]

EXIT_SHAPE  == 2
EXIT_LOCKED == 2
EXIT_DENIED == 77

\* exit_code
ExitCode(remote, shaped) == IF remote = 0 /\ shaped.error THEN EXIT_SHAPE ELSE remote

-----------------------------------------------------------------------------
(* `wires call`. *)

OwnExit(remote) == IF remote = EXIT_DENIED THEN 1 ELSE remote

IsLocked(value) == value \notin {None, "", "0", "false", "no", "off"}

\* check_process_stdin: a harness may hold stdin open and write nothing, or
\* write only once the check has given up.
StdinRefused(stdin) == stdin = "data"

\* What a command is left with: its exit code, whether it dialed, and the
\* output it printed.
CallCmd(cmd, outcome) ==
  LET locked == IsLocked(cmd.env)
      ends(code, dialed, stdout) ==
        [cmd |-> cmd, outcome |-> outcome, code |-> code, dialed |-> dialed, stdout |-> stdout,
         forwarded |-> dialed /\ ~locked /\ cmd.stdin \in {"data", "late_data"}]
  IN IF cmd.shape.jq = "invalid" THEN ends(EXIT_SHAPE, FALSE, <<>>)
     ELSE IF locked /\ StdinRefused(cmd.stdin) THEN ends(EXIT_LOCKED, FALSE, <<>>)
     ELSE CASE outcome.is = "unreached" -> ends(1, TRUE, <<>>)
            [] outcome.is = "denied"    -> ends(EXIT_DENIED, TRUE, <<>>)
            [] OTHER -> LET shaped == Apply(cmd.shape, outcome.stdout)
                        IN ends(ExitCode(OwnExit(outcome.exit), shaped), TRUE, shaped.stdout)

\* It shares nothing with the server but the keystore: one is run where the
\* server was asked nothing (a bound).
Call ==
  /\ ~open /\ written = <<>> /\ grants = 0 /\ ~views.new /\ ~tools.new /\ ran = None
  /\ \E cmd \in Commands, outcome \in Outcomes : ran' = CallCmd(cmd, outcome)
  /\ UNCHANGED <<feed, tools, services, negotiated, calling, written, unread, open, out>>

-----------------------------------------------------------------------------
(* The followed view. *)

Grant ==
  /\ grants < MaxGrants
  /\ grants' = grants + 1
  /\ granted' \in Views \ {granted}
  /\ UNCHANGED <<views, tools, services, negotiated, calling, written, unread, open, out, ran>>

\* A round of the poll a directory answers; it sends even what it sent.
Poll ==
  /\ open \/ unread # <<>>
  /\ views' = [value |-> granted, new |-> TRUE]
  /\ UNCHANGED <<granted, grants, tools, services, negotiated, calling, written, unread, open,
                 out, ran>>

\* The mapper of mcp_cmd.
MapView ==
  /\ views.new
  /\ tools' = [value |-> views.value, new |-> TRUE]
  /\ views' = [views EXCEPT !.new = FALSE]
  /\ UNCHANGED <<granted, grants, services, negotiated, calling, written, unread, open, out,
                 ran>>

\* Mutant of Changed: the names of the services are compared.
ChangedByName(before, after) == DOMAIN before # DOMAIN after

\* changed: anything a tool's listing says.
Changed(before, after) == before # after

\* In `out`, a request has the id the client gave it.
NoteId == -1
NullId == 0

Note == [id |-> NoteId]

TakeTools ==
  /\ calling = None /\ tools.new
  /\ tools' = [tools EXCEPT !.new = FALSE]
  /\ services' = tools.value
  /\ out' = IF Changed(services, tools.value) THEN Append(out, Note) ELSE out
  /\ UNCHANGED <<feed, negotiated, calling, written, unread, open, ran>>

-----------------------------------------------------------------------------
(* One line.  Its id is its place among those the client wrote. *)

Searching == Cardinality(DOMAIN services) > Threshold

\* What tools/list lists: each tool and its description (the search tool
\* tells how many services there are).
ToolsList ==
  IF Searching
  THEN [t \in {SearchTool, CallTool} |->
          IF t = SearchTool THEN Cardinality(DOMAIN services) ELSE 0]
  ELSE services

VersionFor(line) == IF line.meta # None THEN line.meta ELSE negotiated

\* initialize: a legacy version of ours, else the newest of them.
Agreed(requested) == IF requested \in Legacy THEN requested ELSE "2025"

\* A reply: the version stamped on a modern result, the tools a list names.
Reply(id, says, version) ==
  [id |-> id, says |-> says, stamp |-> IF version \in Modern THEN version ELSE None,
   tools |-> None, text |-> None, exit |-> None, is_error |-> FALSE]

Fails(id, code) == Reply(id, code, None)

ToolError(id, version) == [Reply(id, "tool", version) EXCEPT !.is_error = TRUE]

\* The service a tools/call runs, None if none: a service by its own name, or
\* the one `call_service` names.
ServiceOf(line) ==
  IF line.name \in DOMAIN services THEN line.name
  ELSE IF line.name = CallTool /\ Searching /\ line.service \in DOMAIN services
  THEN line.service ELSE None

IsSearch(line) ==
  line.name = SearchTool /\ SearchTool \notin DOMAIN services /\ Searching

\* Mutant of Silent: a notification is answered.
SilentIfBlank(line) == line.is = "blank"

\* What gets no reply, whatever it is.
Silent(line) == line.is \in {"blank", "notification"}

\* tools_call, where no call is made: the last is a bad jq filter.
CallFails(line, id, version) ==
  IF IsSearch(line) THEN Reply(id, "search", version)
  ELSE IF ServiceOf(line) = None \/ ~line.valid THEN Fails(id, "invalid_params")
  ELSE ToolError(id, version)

\* A request in a version it has.
Served(line, id, version) ==
  CASE line.is = "discover" ->
         Reply(id, "discover", IF version = None THEN "2026" ELSE version)
    [] line.is = "ping" /\ version \notin Modern -> Reply(id, "ping", version)
    [] line.is = "list" -> [Reply(id, "list", version) EXCEPT !.tools = ToolsList]
    [] line.is = "call" -> CallFails(line, id, version)
    [] OTHER -> Fails(id, "method_not_found")

Answer(line, id) ==
  CASE line.is = "garbage"    -> Fails(NullId, "parse_error")
    [] line.is = "not_an_object" -> Fails(NullId, "invalid_request")
    [] line.is = "no_method"  -> Fails(id, "invalid_request")
    [] line.is = "initialize" -> Reply(id, "initialize", Agreed(line.version))
    [] OTHER -> IF VersionFor(line) \in Legacy \cup Modern \cup {None}
                THEN Served(line, id, VersionFor(line))
                ELSE Fails(id, "unsupported_version")

\* Handled with no call made; an empty sequence where no reply is due.
Handle(line, id) == IF Silent(line) THEN <<>> ELSE <<Answer(line, id)>>

Dials(line) ==
  /\ line.is = "call"
  /\ VersionFor(line) \in Legacy \cup Modern \cup {None}
  /\ ~IsSearch(line) /\ ServiceOf(line) # None
  /\ line.valid /\ line.shape.jq # "invalid"

HandleLine ==
  /\ calling = None /\ unread # <<>>
  /\ unread' = Tail(unread)
  /\ LET line == Head(unread)
         id == Len(written) - Len(unread) + 1
     IN /\ negotiated' = IF line.is = "initialize" THEN Agreed(line.version) ELSE negotiated
        /\ IF Dials(line)
           THEN calling' = [id |-> id, service |-> ServiceOf(line), shape |-> line.shape,
                            version |-> VersionFor(line)] /\ UNCHANGED out
           ELSE UNCHANGED calling /\ out' = out \o Handle(line, id)
  /\ UNCHANGED <<feed, tools, services, written, open, ran>>

\* render_outcome of the shaped outcome.
Capped(bytes) ==
  IF Len(bytes) > MaxOutput
  THEN SubSeq(bytes, 1, CHOOSE k \in 0..MaxOutput :
         /\ bytes[k + 1] # "rest"
         /\ \A m \in (k + 1)..MaxOutput : bytes[m + 1] = "rest")
  ELSE bytes

Rendered(c, outcome) ==
  LET shaped == Apply(c.shape, outcome.stdout)
      exit   == ExitCode(outcome.exit, shaped)
      failed == ToolError(c.id, c.version)
  IN IF outcome.is # "exited" THEN failed
     ELSE [failed EXCEPT !.text = Capped(shaped.stdout), !.exit = exit, !.is_error = exit # 0]

CallEnds ==
  /\ calling # None
  /\ \E outcome \in Outcomes : out' = Append(out, Rendered(calling, outcome))
  /\ calling' = None
  /\ UNCHANGED <<feed, tools, services, negotiated, written, unread, open, ran>>

\* The client (external).
Writes ==
  /\ open /\ Len(written) < MaxLines
  /\ \E line \in Lines : written' = Append(written, line) /\ unread' = Append(unread, line)
  /\ UNCHANGED <<feed, tools, services, negotiated, calling, open, out, ran>>

Closes ==
  /\ open
  /\ open' = FALSE
  /\ UNCHANGED <<feed, tools, services, negotiated, calling, written, unread, out, ran>>

Next ==
  \/ Grant \/ Poll \/ MapView \/ TakeTools
  \/ HandleLine \/ CallEnds \/ Writes \/ Closes \/ Call

Spec == Init /\ [][Next]_vars

-----------------------------------------------------------------------------
Handled == Len(written) - Len(unread)

\* The client's latest tools/list reply is what the poll last saw, or it has
\* been told of a change since, or a change is on its way to it: no list goes
\* stale in silence, whatever the client asks while the view moves.
ToldOfChanges ==
  \A i \in 1..Len(out) :
    /\ out[i].id # NoteId /\ out[i].says = "list"
    /\ \A j \in (i + 1)..Len(out) : out[j].id # NoteId
    => \/ views.new \/ tools.new
       \/ out[i].tools = ToolsList /\ services = views.value

\* The lines handled that a reply is due for, but the one a call is still run
\* for; and what each is answered under.
Answered ==
  {k \in 1..(Handled - (IF calling = None THEN 0 ELSE 1)) :
     written[k].is \notin {"blank", "notification"}}

AnsweredAs(k) == IF written[k].is \in {"garbage", "not_an_object"} THEN NullId ELSE k

Replies == {i \in 1..Len(out) : out[i].id # NoteId}

\* Every one of them has one reply, in the order the requests came, and
\* nothing else has.
OneReplyEach ==
  \E at \in [Answered -> Replies] :
    /\ \A i \in Replies : \E k \in Answered : at[k] = i
    /\ \A k \in Answered : out[at[k]].id = AnsweredAs(k)
    /\ \A k, m \in Answered : k < m => at[k] < at[m]

\* A cut of the output that splits no character of it.
Whole(cut, bytes) ==
  /\ cut = SubSeq(bytes, 1, Len(cut))
  /\ Len(cut) = Len(bytes) \/ bytes[Len(cut) + 1] # "rest"

\* `wires call` prints whole characters of the output, no more than it was
\* asked for, and as many as fit; it exits 77 when, and only when, the host
\* refused; and it exits 0 only when the remote command did and its output
\* was shaped, keeping any other code of it.
SaysWhatHappened ==
  ran # None /\ ran.dialed /\ ran.outcome.is # "unreached" =>
    LET shape == ran.cmd.shape
        sent  == ran.outcome.stdout
        size  == Len(ran.stdout)
    IN /\ (ran.code = EXIT_DENIED) <=> (ran.outcome.is = "denied")
       /\ ran.outcome.is = "exited" =>
            /\ Whole(ran.stdout, sent)
            /\ shape.max # None => size <= shape.max
            /\ shape.head # None => Cardinality(Newlines(ran.stdout)) <= shape.head
            /\ \/ size = Len(sent) \/ shape.head # None \/ shape.jq = "stops"
               \/ \A k \in (size + 1)..shape.max : ~Whole(SubSeq(sent, 1, k), sent)
            /\ IF ran.outcome.exit = 0
               THEN (ran.code = 0) <=> (shape.jq # "stops")
               ELSE ran.code = OwnExit(ran.outcome.exit)

\* The client is answered, once and truly.
RepliesAreTrue == OneReplyEach /\ SaysWhatHappened
=============================================================================
