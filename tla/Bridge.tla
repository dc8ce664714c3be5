------------------------------- MODULE Bridge -------------------------------
(***************************************************************************)
(* The stdio of an admitted call: converse on the caller's side and bridge *)
(* on the host's (wires/host/transport.rs), between them the two           *)
(* directions of a QUIC stream, and behind the host the running service    *)
(* (wires/host/service.rs, native.rs), a child or an app's handler.        *)
(*                                                                         *)
(* A chunk is its number in its stream.  A task that reads from one buffer *)
(* and writes to the next does both in a step: what it would hold between  *)
(* is a place of the next buffer.  The service reads, writes and exits as  *)
(* it likes.                                                               *)
(***************************************************************************)
EXTENDS Integers, Sequences

CONSTANTS
  Window,        \* frames in flight on the stream in one direction (QUIC's flow control)
  Pipe,          \* chunks in a pipe or a duplex buffer
  Queue,         \* the channel to the writer task (64)
  MaxIn, MaxOut  \* bounds: chunks of stdin, and of stdout and of stderr

BridgeAssumption == {Window, Pipe, Queue} \subseteq Nat \ {0} /\ {MaxIn, MaxOut} \subseteq Nat

Streams == {"stdout", "stderr"}

VARIABLES
  caller,  \* [phase, input, sent, printed, code]
  up,      \* the Stdin frames on their way, and whether the direction is finished
  down,    \* Stdout, Stderr and Exit frames on their way, likewise
  feed,    \* the host's stdin task: "reading" or "done"
  stdin,   \* the service's stdin: chunks, and whether it is closed
  service, \* [running, closed, read, eof, wrote, code]
  output,  \* output[s]: the chunks in the service's stdout and stderr
  pump,    \* pump[s]: "reading" or "done"
  queue,   \* the frames for the writer task
  writer,  \* "writing", "failed" or "done"
  main     \* bridge itself: "waiting", "draining", "exiting" or "over"

vars == <<caller, up, down, feed, stdin, service, output, pump, queue, writer, main>>

NoCode == -2
Killed == -1   \* ended by a signal, aborted, panicked

Init ==
  /\ caller = [phase |-> "talking", input |-> "open", sent |-> 0,
               printed |-> [s \in Streams |-> << >>], code |-> NoCode]
  /\ up = [frames |-> << >>, finished |-> FALSE]
  /\ down = [frames |-> << >>, finished |-> FALSE]
  /\ feed = "reading"
  /\ stdin = [chunks |-> << >>, closed |-> FALSE]
  /\ service = [running |-> TRUE, closed |-> FALSE, read |-> << >>, eof |-> FALSE,
                wrote |-> [s \in Streams |-> 0], code |-> NoCode]
  /\ output = [s \in Streams |-> << >>]
  /\ pump = [s \in Streams |-> "reading"]
  /\ queue = << >>
  /\ writer = "writing"
  /\ main = "waiting"

\* The service has its stdio still: it has not ended, nor closed it before that.
Holds == service.running /\ ~service.closed

\* The caller's end has closed the connection, or has vanished.
Gone == caller.phase # "talking"

-----------------------------------------------------------------------------
(* The caller: converse, once the ack is checked. *)

Sends ==
  /\ ~Gone /\ caller.input = "open"
  /\ caller.sent < MaxIn /\ Len(up.frames) < Window
  /\ caller' = [caller EXCEPT !.sent = @ + 1]
  /\ up' = [up EXCEPT !.frames = Append(@, caller.sent + 1)]
  /\ UNCHANGED <<down, feed, stdin, service, output, pump, queue, writer, main>>

\* Local stdin is at its end, or cannot be read.  Either way the task ends and
\* with it the stream: one that is dropped is finished.
InputEnds(how) ==
  /\ ~Gone /\ caller.input = "open"
  /\ caller' = [caller EXCEPT !.input = how]
  /\ up' = [up EXCEPT !.finished = TRUE]
  /\ UNCHANGED <<down, feed, stdin, service, output, pump, queue, writer, main>>

\* A frame for stdout or stderr, or the exit code, which ends the call.
Prints ==
  /\ ~Gone /\ down.frames # << >>
  /\ LET f == Head(down.frames) IN
     caller' = IF f.kind = "exit" THEN [caller EXCEPT !.phase = "exited", !.code = f.n]
               ELSE [caller EXCEPT !.printed[f.kind] = Append(@, f.n)]
  /\ down' = [down EXCEPT !.frames = Tail(@)]
  /\ UNCHANGED <<up, feed, stdin, service, output, pump, queue, writer, main>>

\* The host finished without an Exit; it is killed; its stdout is closed.
Leaves ==
  /\ ~Gone
  /\ caller' = [caller EXCEPT !.phase = "gone"]
  /\ UNCHANGED <<up, down, feed, stdin, service, output, pump, queue, writer, main>>

-----------------------------------------------------------------------------
(* The host's tasks. *)

\* The next Stdin frame goes to the service.  One that has closed it does not
\* take it and the task ends.
Feeds ==
  /\ feed = "reading" /\ up.frames # << >>
  /\ \/ /\ Holds /\ Len(stdin.chunks) < Pipe
        /\ stdin' = [stdin EXCEPT !.chunks = Append(@, Head(up.frames))]
        /\ UNCHANGED feed
     \/ /\ ~Holds
        /\ feed' = "done"
        /\ UNCHANGED stdin
  /\ up' = [up EXCEPT !.frames = Tail(@)]
  /\ UNCHANGED <<caller, down, service, output, pump, queue, writer, main>>

\* The stream is finished, or the connection is lost: the service's stdin is
\* shut down, or dropped.
FeedEnds ==
  /\ feed = "reading"
  /\ Gone \/ (up.frames = << >> /\ up.finished)
  /\ feed' = "done"
  /\ stdin' = [stdin EXCEPT !.closed = TRUE]
  /\ UNCHANGED <<caller, up, down, service, output, pump, queue, writer, main>>

Frame(kind, n) == [kind |-> kind, n |-> n]

\* pump_reader: into the channel, unless the writer is gone.
Pumps(s) ==
  /\ pump[s] = "reading" /\ output[s] # << >>
  /\ \/ /\ writer = "writing" /\ Len(queue) < Queue
        /\ queue' = Append(queue, Frame(s, Head(output[s])))
        /\ UNCHANGED pump
     \/ /\ writer = "failed"
        /\ pump' = [pump EXCEPT ![s] = "done"]
        /\ UNCHANGED queue
  /\ output' = [output EXCEPT ![s] = Tail(@)]
  /\ UNCHANGED <<caller, up, down, feed, stdin, service, writer, main>>

PumpEnds(s) ==
  /\ pump[s] = "reading" /\ output[s] = << >> /\ ~Holds
  /\ pump' = [pump EXCEPT ![s] = "done"]
  /\ UNCHANGED <<caller, up, down, feed, stdin, service, output, queue, writer, main>>

\* The writer task: the one that writes to the stream.
Writes ==
  /\ writer = "writing" /\ queue # << >> /\ ~Gone
  /\ Len(down.frames) < Window
  /\ queue' = Tail(queue)
  /\ down' = [down EXCEPT !.frames = Append(@, Head(queue))]
  /\ UNCHANGED <<caller, up, feed, stdin, service, output, pump, writer, main>>

WriteFails ==
  /\ writer = "writing" /\ queue # << >> /\ Gone
  /\ writer' = "failed"
  /\ UNCHANGED <<caller, up, down, feed, stdin, service, output, pump, queue, main>>

-----------------------------------------------------------------------------
(* bridge. *)

\* The select: the service has ended, or is stopped since the dialer is gone.
Waited ==
  /\ main = "waiting" /\ ~service.running
  /\ main' = "draining"
  /\ UNCHANGED <<caller, up, down, feed, stdin, service, output, pump, queue, writer>>

Kills ==
  /\ main = "waiting" /\ Gone
  /\ main' = "draining"
  /\ service' = [service EXCEPT !.running = FALSE,
                                !.code = IF service.running THEN Killed ELSE @]
  /\ UNCHANGED <<caller, up, down, feed, stdin, output, pump, queue, writer>>

\* Mutant of Pumped: stderr is not waited for.
PumpedOut == pump["stdout"] = "done"
\* Mutant of Pumped: the stdin task is joined, not aborted.
PumpedAndFed == (\A s \in Streams : pump[s] = "done") /\ feed = "done"
Pumped == \A s \in Streams : pump[s] = "done"

\* Both pumps are at the end; stdin is no longer waited for; the Exit goes
\* after all output, and the channel is dropped.
Exits ==
  /\ main = "draining" /\ Pumped
  /\ writer = "failed" \/ Len(queue) < Queue
  /\ main' = "exiting"
  /\ feed' = "done"
  /\ queue' = IF writer = "failed" THEN queue ELSE Append(queue, Frame("exit", service.code))
  /\ UNCHANGED <<caller, up, down, stdin, service, output, pump, writer>>

\* The writer has nothing more, or failed.
Finishes ==
  /\ main = "exiting"
  /\ writer = "failed" \/ queue = << >>
  /\ main' = "over"
  /\ writer' = IF writer = "failed" THEN writer ELSE "done"
  /\ down' = [down EXCEPT !.finished = TRUE]
  /\ UNCHANGED <<caller, up, feed, stdin, service, output, pump, queue>>

-----------------------------------------------------------------------------
(* The service. *)

Reads ==
  /\ Holds
  /\ \/ /\ stdin.chunks # << >>
        /\ service' = [service EXCEPT !.read = Append(@, Head(stdin.chunks))]
        /\ stdin' = [stdin EXCEPT !.chunks = Tail(@)]
     \/ /\ stdin.chunks = << >> /\ stdin.closed /\ ~service.eof
        /\ service' = [service EXCEPT !.eof = TRUE]
        /\ UNCHANGED stdin
  /\ UNCHANGED <<caller, up, down, feed, output, pump, queue, writer, main>>

Outputs(s) ==
  /\ Holds /\ pump[s] = "reading"
  /\ service.wrote[s] < MaxOut /\ Len(output[s]) < Pipe
  /\ service' = [service EXCEPT !.wrote[s] = @ + 1]
  /\ output' = [output EXCEPT ![s] = Append(@, service.wrote[s] + 1)]
  /\ UNCHANGED <<caller, up, down, feed, stdin, pump, queue, writer, main>>

\* Its stdio is closed for good while it runs on: a handler's call whose object
\* the app still holds, a child that closes its pipes.
Closes ==
  /\ Holds
  /\ service' = [service EXCEPT !.closed = TRUE]
  /\ UNCHANGED <<caller, up, down, feed, stdin, output, pump, queue, writer, main>>

\* Of itself or by a signal; a handler that panics.
Ends(code) ==
  /\ service.running
  /\ service' = [service EXCEPT !.running = FALSE, !.code = code]
  /\ UNCHANGED <<caller, up, down, feed, stdin, output, pump, queue, writer, main>>

-----------------------------------------------------------------------------
Tasks ==
  \/ Feeds \/ FeedEnds \/ Writes \/ WriteFails \/ Waited \/ Kills \/ Exits \/ Finishes
  \/ \E s \in Streams : Pumps(s) \/ PumpEnds(s)

Next ==
  \/ Tasks
  \/ Sends \/ Prints \/ Leaves
  \/ \E how \in {"ended", "failed"} : InputEnds(how)
  \/ Reads \/ Closes
  \/ \E s \in Streams : Outputs(s)
  \/ \E code \in {0, Killed} : Ends(code)

Spec == Init /\ [][Next]_vars

\* The host's tasks run, and the caller prints what comes.  Nothing is assumed
\* of the service.
LiveSpec == Spec /\ WF_vars(Tasks) /\ WF_vars(Prints)

-----------------------------------------------------------------------------
TypeOK ==
  /\ caller.phase \in {"talking", "exited", "gone"}
  /\ Len(up.frames) <= Window /\ Len(down.frames) <= Window
  /\ Len(queue) <= Queue /\ Len(stdin.chunks) <= Pipe
  /\ main \in {"waiting", "draining", "exiting", "over"}

UpTo(n) == [i \in 1 .. n |-> i]

\* A call that ends with an exit code has printed all that the service wrote,
\* in order, and the code is the service's; the service reads what the caller
\* sent, in order, and no end of it that is not the caller's, but when the
\* caller's stdin fails or the caller goes (transport.rs:392-463, 1123-1194).
CarriesEveryByte ==
  /\ caller.phase = "exited" =>
       /\ \A s \in Streams : caller.printed[s] = UpTo(service.wrote[s])
       /\ caller.code = service.code
  /\ \A s \in Streams : caller.printed[s] = UpTo(Len(caller.printed[s]))
  /\ service.read = UpTo(Len(service.read))
  /\ service.eof => \/ Gone
                    \/ caller.input = "failed"
                    \/ /\ caller.input = "ended"
                       /\ Len(service.read) = caller.sent

\* "A wires call whose child ignores stdin would hang until Ctrl-D": a session
\* ends once its service has ended, whatever is still to be read on stdin and
\* however full the buffers, and once its caller is gone (transport.rs:436-462).
SessionEnds == (~service.running \/ Gone) ~> (main = "over")
=============================================================================
