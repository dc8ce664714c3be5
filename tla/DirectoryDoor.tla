--------------------------- MODULE DirectoryDoor ---------------------------
(***************************************************************************)
(* A running directory's two protocols (wires/directory/serve.rs,          *)
(* sub_policy.rs, node.rs): connections that open, say who they are, ask,  *)
(* publish or subscribe, at once, and the three pools of slots they take.  *)
(*                                                                         *)
(* A policy is a version; what it says is one of Contents.  An accept is   *)
(* one step here (Directories splits it), and every deadline may pass at   *)
(* any time.  A read from a peer has a deadline, a write to it has none    *)
(* (wire::write): one that holds a slot is a step to wait at.              *)
(***************************************************************************)
EXTENDS Naturals, FiniteSets, FiniteSetsExt

CONSTANTS
  Nodes,           \* the nodes that dial
  Conns,           \* bound: the connections ever made
  Contents,        \* what a policy may say: see Content
  MaxUndecided,    \* MAX_UNDECIDED
  MaxAdmitted,     \* MAX_ADMITTED
  MaxSubscribers,  \* --max-subscribers
  MaxVersion,      \* bound: the policy versions signed
  Expires          \* whether the held policy may expire

\* The hosts and directories a policy names (banned ones not), the callers it
\* admits with their token, the nodes it bans, and whether it lists this directory.
Content == [named : SUBSET Nodes, admits : SUBSET Nodes, bans : SUBSET Nodes, lists : BOOLEAN]

ASSUME DirectoryDoorAssumption ==
  /\ IsFiniteSet(Conns) /\ Contents \subseteq Content /\ Expires \in BOOLEAN
  /\ MaxUndecided \in Nat /\ MaxAdmitted \in Nat /\ MaxSubscribers \in Nat
  /\ MaxVersion \in Nat \ {0} /\ Nodes # {}

VARIABLES
  policies,     \* policies[v]: what version v says
  held,         \* the version in Directory.current, 0 before there is one
  expired,      \* whether it has expired
  fresh,        \* whether Directory.current carries a Fresh for it
  conn,         \* conn[c]: its progress
  undecided, admitted, subscribers,   \* slots taken in each pool
  given         \* history: what was handed out, to whom, and on which stream

vars == <<policies, held, expired, fresh, conn, undecided, admitted, subscribers, given>>
store == <<policies, held, expired, fresh>>
slots == <<undecided, admitted, subscribers>>

\* Where one_request or subscription stands: before its slot; waiting for the
\* stream; for the hello; for its proof to be written; for the hello after an open;
\* reading who is named; for the token to verify; for the request; for a publish's
\* items; subscribed: waiting for a change, having seen one, its frame being written;
\* the last word being written while a slot is held; over.
Steps == {"new", "opening", "hello", "proving", "rehello", "naming", "admitting",
          "request", "items", "following", "looked", "sending", "telling", "over"}

\* The steps of a connection nobody was admitted on.
Undecided == {"opening", "hello", "proving", "rehello", "naming", "admitting"}

Following == {"following", "looked", "sending"}

\* under, at: the versions held when admit() took the policy it verifies the token
\* under, and when it asked who is named; named, person: the Peer it returned.
NoConn == [step |-> "new", node |-> CHOOSE n \in Nodes : TRUE, sub |-> FALSE,
           under |-> 0, at |-> 0, named |-> FALSE, person |-> FALSE, slot |-> "none",
           head |-> 0, sent |-> 0, seen |-> 0]

TypeOK ==
  /\ policies \in [1..MaxVersion -> Content] /\ held \in 0..MaxVersion
  /\ expired \in BOOLEAN /\ fresh \in BOOLEAN
  /\ conn \in [Conns -> [step : Steps, node : Nodes, sub : BOOLEAN, under : 0..MaxVersion,
                 at : 0..MaxVersion, named : BOOLEAN, person : BOOLEAN,
                 slot : {"none", "undecided", "admitted", "subscriber"},
                 head : 0..MaxVersion, sent : 0..MaxVersion, seen : 0..MaxVersion]]
  /\ undecided \in 0..MaxUndecided /\ admitted \in 0..MaxAdmitted
  /\ subscribers \in 0..MaxSubscribers
  /\ given \subseteq [node : Nodes, version : 1..MaxVersion, by : 1..MaxVersion,
                      sub : BOOLEAN, whole : BOOLEAN, expired : BOOLEAN]

Init ==
  /\ policies \in [1..MaxVersion -> Contents] /\ held \in {0, 1}
  /\ expired = FALSE /\ fresh = (held = 1 /\ policies[1].lists)
  /\ conn = [c \in Conns |-> NoConn]
  /\ undecided = 0 /\ admitted = 0 /\ subscribers = 0 /\ given = {}

\* holds_whole: not expired is not asked.
holds_whole(n) == held # 0 /\ n \in policies[held].named

Admitted(c) == conn[c].named \/ conn[c].person

\* The slot a connection holds is dropped.
Free(s) ==
  /\ undecided'   = undecided   - IF s = "undecided"  THEN 1 ELSE 0
  /\ admitted'    = admitted    - IF s = "admitted"   THEN 1 ELSE 0
  /\ subscribers' = subscribers - IF s = "subscriber" THEN 1 ELSE 0

Over(c) == [conn EXCEPT ![c].step = "over", ![c].slot = "none"]

\* one_request or subscription returns, or has only an answer to write and no slot.
End(c) ==
  /\ conn' = Over(c)
  /\ Free(conn[c].slot)

\* It goes on to `to`, its slot with it.
GoesTo(c, to) == conn' = [conn EXCEPT ![c].step = to] /\ UNCHANGED slots

\* A refusal to be written with the slot in hand.
Tell(c) == GoesTo(c, "telling")

-----------------------------------------------------------------------------
(* Opening, and the hello. *)

\* DirectoryProtocol::accept and subscription: no undecided slot, no service.
Connect(c, n, sub) ==
  /\ conn[c].step = "new"
  /\ IF undecided < MaxUndecided
     THEN /\ undecided' = undecided + 1
          /\ conn' = [conn EXCEPT ![c] = [@ EXCEPT !.step = "opening", !.node = n,
                                                   !.sub = sub, !.slot = "undecided"]]
     ELSE /\ conn' = [conn EXCEPT ![c] = [@ EXCEPT !.step = "over", !.node = n, !.sub = sub]]
          /\ UNCHANGED undecided
  /\ UNCHANGED <<store, admitted, subscribers, given>>

\* accept_stream
Stream(c) ==
  /\ conn[c].step = "opening"
  /\ conn' = [conn EXCEPT ![c].step = "hello"]
  /\ UNCHANGED <<store, slots, given>>

\* An open: the directory's proof, if it has one, and another hello to come.
Open(c) ==
  /\ conn[c].step = "hello" /\ ~conn[c].sub
  /\ IF held # 0 /\ fresh /\ ~expired THEN GoesTo(c, "proving") ELSE Tell(c)
  /\ UNCHANGED <<store, given>>

Proven(c) ==
  /\ conn[c].step = "proving"
  /\ GoesTo(c, "rehello")
  /\ UNCHANGED <<store, given>>

\* A hello: Directory::admit takes the policy held, unless it has expired, ...
Hello(c) ==
  /\ conn[c].step \in {"hello", "rehello"}
  /\ conn' = [conn EXCEPT ![c].step = "naming", ![c].under = IF expired THEN 0 ELSE held]
  /\ UNCHANGED <<store, slots, given>>

\* ... asks holds_whole, which looks again, and then verifies the token, if any.
Named(c) ==
  /\ conn[c].step = "naming"
  /\ conn' = [conn EXCEPT ![c].step = "admitting", ![c].at = held,
                          ![c].named = holds_whole(conn[c].node)]
  /\ UNCHANGED <<store, slots, given>>

\* A deadline, the peer gone, or not the frame expected: the connection ends, or
\* with a refusal first (before the hello, and for a second hello).
GiveUp(c) ==
  /\ \/ conn[c].step \in {"opening", "request", "items"} /\ End(c)
     \/ conn[c].step \in {"hello", "rehello"} /\ Tell(c)
     \/ conn[c].step = "request" /\ conn[c].sub /\ Tell(c)
  /\ UNCHANGED <<store, given>>

\* What was being written is, or cannot be: the peer read it, or is gone.
Told(c) ==
  /\ conn[c].step = "telling"
  /\ End(c)
  /\ UNCHANGED <<store, given>>
Lost(c) ==
  /\ conn[c].step \in {"proving", "sending"}
  /\ End(c)
  /\ UNCHANGED <<store, given>>

\* admitted(): the undecided slot is dropped, then an admitted one taken, or none
\* is left (BUSY).
Trade(c, person) ==
  /\ undecided' = undecided - 1
  /\ IF admitted < MaxAdmitted
     THEN /\ admitted' = admitted + 1
          /\ conn' = [conn EXCEPT ![c] = [@ EXCEPT !.step = "request", !.person = person,
                                                   !.slot = "admitted"]]
     ELSE conn' = Over(c) /\ UNCHANGED admitted

\* admit() returns.  The peer is admitted, or may only publish (a request), or is
\* denied (a subscription).
Admit(c, token) ==
  /\ conn[c].step = "admitting"
  /\ LET person == token /\ conn[c].under # 0
                   /\ conn[c].node \in policies[conn[c].under].admits IN
     IF conn[c].named \/ person
     THEN Trade(c, person) /\ UNCHANGED subscribers
     ELSE IF conn[c].sub THEN Tell(c) ELSE GoesTo(c, "request")
  /\ UNCHANGED <<store, given>>

-----------------------------------------------------------------------------
(* One request: wires/directory/3. *)

\* Version v goes out on c, its node let in by what version `by` says.
Give(c, v, by, whole) ==
  given' = given \cup {[node |-> conn[c].node, version |-> v, by |-> by, sub |-> conn[c].sub,
                        whole |-> whole, expired |-> expired]}

\* Directory::answer: a policy request with the version already had.  The peer is
\* the one admit() returned; what is answered is what is held now.
Answer(c, request, have) ==
  /\ conn[c].step = "request" /\ ~conn[c].sub
  /\ IF /\ Admitted(c) /\ held # 0 /\ fresh /\ ~expired
        /\ \/ request = "view"
           \/ request = "policy" /\ conn[c].named /\ have < held
     THEN Give(c, held, IF conn[c].named THEN conn[c].at ELSE conn[c].under,
               request = "policy")
     ELSE UNCHANGED given
  /\ End(c)
  /\ UNCHANGED store

\* publish {head}: v is a version the root signed, 0 any head it did not, or one
\* expired.  check_head wants it only if it is newer; the items then need an
\* admitted slot.
PublishHead(c, v) ==
  /\ conn[c].step = "request" /\ ~conn[c].sub
  /\ IF v > held
     THEN IF conn[c].slot = "admitted"
          THEN /\ conn' = [conn EXCEPT ![c] = [@ EXCEPT !.step = "items", !.head = v]]
               /\ UNCHANGED slots
          ELSE /\ undecided' = undecided - 1
               /\ IF admitted < MaxAdmitted
                  THEN /\ admitted' = admitted + 1
                       /\ conn' = [conn EXCEPT ![c] = [@ EXCEPT !.step = "items",
                                                   !.slot = "admitted", !.head = v]]
                  ELSE conn' = Over(c) /\ UNCHANGED admitted
               /\ UNCHANGED subscribers
     ELSE End(c)
  /\ UNCHANGED <<store, given>>

\* Directory::accept, from a publish or this host's follower.
Accept(v) ==
  IF v > held
  THEN held' = v /\ expired' = FALSE /\ fresh' = policies[v].lists
  ELSE UNCHANGED <<held, expired, fresh>>

\* The items arrive: Directory::publish.
PublishItems(c) ==
  /\ conn[c].step = "items"
  /\ Accept(conn[c].head)
  /\ End(c)
  /\ UNCHANGED <<policies, given>>

\* This node's host followed another directory to v.
Followed(v) ==
  /\ held # 0 /\ v > held
  /\ Accept(v)
  /\ UNCHANGED <<policies, conn, slots, given>>

Expire ==
  /\ Expires /\ held # 0 /\ ~expired
  /\ expired' = TRUE
  /\ UNCHANGED <<policies, held, fresh, conn, slots, given>>

\* Directory::beat: a new Fresh, or none.  Every subscriber's watch changes.
Beat ==
  /\ held # 0
  /\ fresh' = (policies[held].lists /\ ~expired)
  /\ fresh' # fresh
  /\ UNCHANGED <<policies, held, expired, conn, slots, given>>

-----------------------------------------------------------------------------
(* A subscription: wires/directory-sub/3. *)

\* subscribe {have}: the admitted slot is dropped, a subscriber one taken.
Subscribe(c, have) ==
  /\ conn[c].step = "request" /\ conn[c].sub
  /\ admitted' = admitted - 1
  /\ IF conn[c].named /\ subscribers < MaxSubscribers
     THEN /\ subscribers' = subscribers + 1
          /\ conn' = [conn EXCEPT ![c] = [@ EXCEPT !.step = "following", !.sent = have,
                                                   !.slot = "subscriber"]]
     ELSE conn' = Over(c) /\ UNCHANGED subscribers
  /\ UNCHANGED <<store, undecided, given>>

\* Mutant of Changed: the watch is marked seen once the first frame is sent.
ChangedOnce(c) == held # 0 /\ conn[c].seen = 0

\* What the watch holds that this subscriber has not been sent.
Changed(c) == held # 0 /\ (conn[c].seen # held \/ ~fresh)

\* sub_policy::serve, on a change: it takes what the watch holds, and denies when
\* that vouches for nothing or bans the subscriber.
Look(c) ==
  /\ conn[c].step = "following" /\ Changed(c)
  /\ IF ~fresh \/ conn[c].node \in policies[held].bans
     THEN Tell(c)
     ELSE conn' = [conn EXCEPT ![c].step = "looked", ![c].seen = held] /\ UNCHANGED slots
  /\ UNCHANGED <<store, given>>

\* Mutant of Frame: only the subscription's opening is checked.
FrameUnchecked(c) ==
  /\ conn[c].step = "looked"
  /\ IF conn[c].seen > conn[c].sent THEN Give(c, conn[c].seen, held, TRUE) ELSE UNCHANGED given
  /\ GoesTo(c, "sending")
  /\ UNCHANGED store

\* Then it asks holds_whole, which looks again: denied, or the whole policy it took
\* if newer than what it sent, else the beat.
Frame(c) ==
  /\ conn[c].step = "looked"
  /\ IF ~holds_whole(conn[c].node)
     THEN Tell(c) /\ UNCHANGED given
     ELSE /\ IF conn[c].seen > conn[c].sent
             THEN Give(c, conn[c].seen, held, TRUE) ELSE UNCHANGED given
          /\ GoesTo(c, "sending")
  /\ UNCHANGED store

\* The frame is written.
Sent(c) ==
  /\ conn[c].step = "sending"
  /\ conn' = [conn EXCEPT ![c].step = "following",
                          ![c].sent = IF conn[c].seen > @ THEN conn[c].seen ELSE @]
  /\ UNCHANGED <<store, slots, given>>

\* The subscriber goes away.
Leave(c) ==
  /\ conn[c].step = "following"
  /\ End(c)
  /\ UNCHANGED <<store, given>>

\* Mutant of Deadlines: a stream may take forever to open.
DeadlinesOnceOpen(c) == GiveUp(c) /\ conn[c].step # "opening"

Deadlines(c) == GiveUp(c)
Verified(c) == \E token \in BOOLEAN : Admit(c, token)

Next ==
  \/ \E c \in Conns :
       \/ \E n \in Nodes, sub \in BOOLEAN : Connect(c, n, sub)
       \/ Stream(c) \/ Open(c) \/ Proven(c) \/ Hello(c) \/ Named(c) \/ GiveUp(c)
       \/ Told(c) \/ Lost(c)
       \/ Verified(c)
       \/ \E have \in 0..MaxVersion : Answer(c, "policy", have)
       \/ Answer(c, "view", 0)
       \/ \E v \in 0..MaxVersion : PublishHead(c, v)
       \/ PublishItems(c)
       \/ \E have \in 0..MaxVersion : Subscribe(c, have)
       \/ Look(c) \/ Frame(c) \/ Sent(c) \/ Leave(c)
  \/ \E v \in 1..MaxVersion : Followed(v)
  \/ Expire \/ Beat

Spec == Init /\ [][Next]_vars

\* Every read from a peer has a deadline, and the token's verification one of its
\* own; a subscriber's task runs on every change, and a subscriber that stays reads
\* what it is sent.  Nobody is assumed to read a proof or a refusal.
Fairness ==
  \A c \in Conns :
    /\ WF_vars(Deadlines(c)) /\ WF_vars(Named(c)) /\ WF_vars(Verified(c))
    /\ WF_vars(Look(c)) /\ WF_vars(Frame(c)) /\ WF_vars(Sent(c))

LiveSpec == Spec /\ Fairness

-----------------------------------------------------------------------------
Holding(s) == {c \in Conns : conn[c].slot = s}

\* Every slot taken is held by exactly one connection, and an ended one holds none:
\* no denial, deadline or trade leaks a slot or frees it twice.
SlotsAreHeld ==
  /\ undecided = Cardinality(Holding("undecided"))
  /\ admitted = Cardinality(Holding("admitted"))
  /\ subscribers = Cardinality(Holding("subscriber"))
  /\ \A c \in Conns : conn[c].step \in {"new", "over"} => conn[c].slot = "none"

\* "Callers never take one": a node no policy ever named or admitted holds an admitted
\* slot only while its newer, root-signed head's items are read, and never follows.
StrangersStayOutside ==
  \A c \in Conns :
    (\A v \in 1..MaxVersion : conn[c].node \notin policies[v].named \cup policies[v].admits)
    => /\ conn[c].slot = "admitted" => conn[c].step = "items"
       /\ conn[c].slot # "subscriber"

\* A policy streamed goes to a node that it does not ban, and that the policy held
\* as it went out names, which may be a newer one: serve takes the one and asks the
\* other.
StreamedToNamed ==
  \A g \in given : g.sub =>
    /\ g.version <= g.by
    /\ g.node \notin policies[g.version].bans /\ g.node \in policies[g.by].named

\* An answer goes to a node that some version held since its hello let in, though it
\* is cut from what is held by then; the whole policy, to a node that one named.
AnsweredToAdmitted ==
  \A g \in given : ~g.sub =>
    /\ g.by <= g.version
    /\ \/ g.node \in policies[g.by].named
       \/ ~g.whole /\ g.node \in policies[g.by].admits

\* The door as a whole: who is in, on whose slot, and what went out to whom.
DoorHolds ==
  TypeOK /\ SlotsAreHeld /\ StrangersStayOutside /\ StreamedToNamed /\ AnsweredToAdmitted

\* A subscriber that stays comes to have the policy the directory holds, or is denied.
SubscribersCatchUp ==
  \A c \in Conns : \A v \in 1..MaxVersion :
    conn[c].step \in Following /\ held = v
      ~> conn[c].step \in {"telling", "over"} \/ conn[c].sent >= v

\* A connection gives its undecided slot back, though its peer says nothing: only one
\* that does not read its proof or its refusal may keep it, for wire::write has no
\* deadline.
UndecidedSlotsReturn ==
  \A c \in Conns :
    conn[c].slot = "undecided"
      ~> conn[c].slot # "undecided" \/ [](conn[c].step \in {"proving", "telling"})

\* "A permit is held from the connection until its `hello` is decided, never longer"
\* (Directory.undecided).
UndecidedUntilDecided ==
  \A c \in Conns : conn[c].slot = "undecided" => conn[c].step \in Undecided

\* "the whole policy is for the network's hosts and directories" (VIEW_NOT_POLICY).
WholeOnlyToNamed ==
  \A g \in given : g.whole => g.node \in policies[g.version].named

\* "an expired policy is served by no directory" (sign_fresh).
ExpiredServedToNobody == \A g \in given : ~g.expired
=============================================================================
