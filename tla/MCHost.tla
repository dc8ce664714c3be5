------------------------------- MODULE MCHost -------------------------------
(* What a host does with calls: sessions through the gate, the bytes of one  *)
(* that it let in, and the calls a binding's capabilities are minted for.    *)
(* The parts share no state the models keep, so a behaviour is of one.       *)
EXTENDS HostGate, Sequences

CONSTANTS
  Calls, Nodes, Grace, MaxTime,                       \* as in Capabilities
  Window, Pipe, Queue, MaxIn, MaxOut                  \* as in Bridge

VARIABLES
  now, call, io, grants, pushing, returns, pushed,    \* as in Capabilities
  caller, up, down, feed, stdin, service, output, pump, queue, writer, main, \* as in Bridge
  part                                    \* which part this behaviour is of

C == INSTANCE Capabilities WITH restarts <- returns
B == INSTANCE Bridge

ASSUME HostAssumption == C!CapabilitiesAssumption /\ B!BridgeAssumption

capabilities == <<now, call, io, grants, pushing, returns, pushed>>
bridged == <<caller, up, down, feed, stdin, service, output, pump, queue, writer, main>>

Says(i, s) == [trusts |-> {i}, standing |-> [c \in Callers |-> s], assigned |-> TRUE,
               fresh |-> TRUE]

\* Policies that differ in whom they let in, in whom they trust and in what they
\* say of the host.
MCContents == {Says("i", "allowed"), Says("i", "banned"), Says("j", "member"),
               [Says("i", "allowed") EXCEPT !.assigned = FALSE]}

MCInit ==
  /\ Init /\ C!Init /\ B!Init
  /\ part \in {"gate", "capabilities", "bridge"}
  \* a part that is left alone starts in one way only
  /\ part # "gate" => newest = 0 /\ \A v \in 1 .. MaxVersion : policies[v] = Says("i", "allowed")

MCNext ==
  /\ UNCHANGED part
  /\ \/ part = "gate" /\ Next /\ UNCHANGED <<capabilities, bridged>>
     \/ part = "capabilities" /\ C!Next /\ UNCHANGED <<vars, bridged>>
     \/ part = "bridge" /\ B!Next /\ UNCHANGED <<vars, capabilities>>

\* The fairness of HostGate and of Bridge, each in its own behaviours.
MCSpec ==
  /\ MCInit /\ [][MCNext]_<<vars, capabilities, bridged, part>>
  /\ \A s \in Sessions :
       WF_vars(part = "gate" /\ Killed(s)) /\ WF_vars(part = "gate" /\ Drained(s))
  /\ WF_bridged(part = "bridge" /\ B!Tasks)
  /\ WF_bridged(part = "bridge" /\ B!Prints)

\* A capability reaches its caller only, and not past its call and its grace (Capabilities).
TokensFollowCalls == C!TokensFollowCalls
\* A session carries every byte, in order, up to its exit (Bridge).
CarriesEveryByte == B!TypeOK /\ B!CarriesEveryByte
\* A session whose service or caller is gone ends, however full its buffers (Bridge).
SessionEnds == B!SessionEnds
=============================================================================
