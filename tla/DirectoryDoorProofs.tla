------------------------ MODULE DirectoryDoorProofs ------------------------
(***************************************************************************)
(* Proofs about DirectoryDoor, for any nodes, connections, policies and    *)
(* pool sizes: DoorHolds is an invariant.  SlotsAreHeld alone is not       *)
(* inductive, for what a connection may do with its slot depends on the    *)
(* step it stands at: InStep says which slot each step goes with, and on   *)
(* whose word a connection counts as named or admitted.                    *)
(*                                                                         *)
(* And about Following, the other end of a subscription, for any           *)
(* directories, lists, clocks, lifetimes and set sizes: a host's words are *)
(* those that keep it vouched for.  Of what a frame, the follower or the   *)
(* set has, FollowInv says that each is a word for a version the host may  *)
(* hold, signed by a directory which that version lists (Sound): so a word *)
(* that takes the place of another vouches as well as that did, unless it  *)
(* is this host's own, and then a set of more than one has another that    *)
(* vouches.                                                                *)
(***************************************************************************)
EXTENDS DirectoryDoor, MCFollowing, FiniteSetTheorems, SequenceTheorems, TLAPS

Slot == {"none", "undecided", "admitted", "subscriber"}

Progress == [step : Steps, node : Nodes, sub : BOOLEAN, under : 0..MaxVersion,
             at : 0..MaxVersion, named : BOOLEAN, person : BOOLEAN, slot : Slot,
             head : 0..MaxVersion, sent : 0..MaxVersion, seen : 0..MaxVersion]

\* What the progress k of a connection says of its slot and of its node.
InStep(k) ==
  /\ k.step \in {"new", "over"} => k.slot = "none"
  /\ k.step = "new" => ~k.named /\ ~k.person
  /\ k.step \in Undecided => k.slot = "undecided" /\ ~k.person
  /\ k.step = "request" => IF k.named \/ k.person THEN k.slot = "admitted"
                                                  ELSE k.slot = "undecided" /\ ~k.sub
  /\ k.step = "items" => k.slot = "admitted"
  /\ k.step \in Following => k.slot = "subscriber" /\ k.named /\ k.sub
  /\ k.step = "telling" => k.slot = "undecided" \/ k.named \/ k.person
  /\ k.named => k.at # 0 /\ k.node \in policies[k.at].named
  /\ k.person => k.under # 0 /\ k.node \in policies[k.under].admits
  /\ k.step = "looked" => k.seen # 0 /\ k.node \notin policies[k.seen].bans

\* Each pool counts the connections that hold one of its slots.
PoolsAreCounted ==
  /\ undecided = Cardinality(Holding("undecided"))
  /\ admitted = Cardinality(Holding("admitted"))
  /\ subscribers = Cardinality(Holding("subscriber"))

\* Of the versions that k has seen, none is newer than what is held.
SeenBy(k, v) == k.at <= v /\ k.under <= v /\ k.seen <= v

DoorInv ==
  /\ TypeOK
  /\ PoolsAreCounted
  /\ \A c \in Conns : InStep(conn[c]) /\ SeenBy(conn[c], held)
  /\ StreamedToNamed /\ AnsweredToAdmitted

Count(b) == IF b THEN 1 ELSE 0

-----------------------------------------------------------------------------
(* Counting the slots. *)

\* When one connection moves from its slot to another, or to none, every pool's
\* holders change by that connection alone (the permits of serve.rs, each owned by
\* one task).
LEMMA SlotChangesHands ==
  ASSUME TypeOK, NEW c \in Conns, NEW k \in Progress,
         conn' = [conn EXCEPT ![c] = k], NEW s \in Slot
  PROVE  /\ Cardinality(Holding(s)) \in Nat
         /\ conn[c].slot = s => Cardinality(Holding(s)) >= 1
         /\ Cardinality(Holding(s)')
              = Cardinality(Holding(s)) - Count(conn[c].slot = s) + Count(k.slot = s)
<1> DEFINE H == Holding(s)
           R == H \ {c}
<1>1. conn \in [Conns -> Progress]
  BY DEF TypeOK, Progress, Slot
<1>2. IsFiniteSet(H) /\ IsFiniteSet(R)
  BY DirectoryDoorAssumption, FS_Subset DEF Holding
<1>3. Cardinality(H) \in Nat /\ Cardinality(R) \in Nat
  BY <1>2, FS_CardinalityType
<1>4. Cardinality(H) = Cardinality(R) + Count(conn[c].slot = s)
  <2>1. CASE conn[c].slot = s
    <3>1. H = R \cup {c} /\ c \notin R
      BY <2>1 DEF Holding
    <3>2. Cardinality(R \cup {c}) = Cardinality(R) + 1
      BY <1>2, <3>1, FS_AddElement
    <3> QED BY <3>1, <3>2, <2>1 DEF Count
  <2>2. CASE conn[c].slot # s
    <3>1. H = R
      BY <2>2 DEF Holding
    <3> QED BY <3>1, <2>2, <1>3 DEF Count
  <2> QED BY <2>1, <2>2
<1>5. Cardinality(Holding(s)') = Cardinality(R) + Count(k.slot = s)
  <2>1. CASE k.slot = s
    <3>1. Holding(s)' = R \cup {c} /\ c \notin R
      BY <2>1, <1>1 DEF Holding
    <3>2. Cardinality(R \cup {c}) = Cardinality(R) + 1
      BY <1>2, <3>1, FS_AddElement
    <3> QED BY <3>1, <3>2, <2>1 DEF Count
  <2>2. CASE k.slot # s
    <3>1. Holding(s)' = R
      BY <2>2, <1>1 DEF Holding
    <3> QED BY <3>1, <2>2, <1>3 DEF Count
  <2> QED BY <2>1, <2>2
<1> QED BY <1>3, <1>4, <1>5 DEF Count

\* A pool that some connection counts in has a slot taken.
LEMMA TakenIsCounted ==
  ASSUME DoorInv, NEW c \in Conns
  PROVE  /\ conn[c].slot = "undecided" => undecided >= 1
         /\ conn[c].slot = "admitted" => admitted >= 1
         /\ conn[c].slot = "subscriber" => subscribers >= 1
<1>1. \A s \in Slot : conn[c].slot = s => Cardinality(Holding(s)) >= 1
  <2> SUFFICES ASSUME NEW s \in Slot, conn[c].slot = s PROVE Cardinality(Holding(s)) >= 1
    OBVIOUS
  <2>1. IsFiniteSet(Holding(s)) /\ c \in Holding(s)
    BY DirectoryDoorAssumption, FS_Subset DEF Holding
  <2>2. Cardinality(Holding(s)) \in Nat /\ Cardinality(Holding(s)) # 0
    BY <2>1, FS_CardinalityType, FS_EmptySet
  <2> QED BY <2>2
<1> QED BY <1>1 DEF DoorInv, PoolsAreCounted, Slot

\* The connection c moves to k: the pools follow its slot, within their limits,
\* the policies stay, and what is given on its stream, if anything is, is the
\* policy of a version that names its node.
Moves(c, k) ==
  /\ conn' = [conn EXCEPT ![c] = k] /\ policies' = policies
  /\ undecided' = undecided - Count(conn[c].slot = "undecided") + Count(k.slot = "undecided")
  /\ admitted' = admitted - Count(conn[c].slot = "admitted") + Count(k.slot = "admitted")
  /\ subscribers' = subscribers - Count(conn[c].slot = "subscriber")
                                + Count(k.slot = "subscriber")
  /\ undecided' <= MaxUndecided /\ admitted' <= MaxAdmitted /\ subscribers' <= MaxSubscribers

\* What k may be given: as StreamedToNamed and AnsweredToAdmitted say.
MayHave(k, v, by, whole) ==
  IF k.sub
  THEN v <= by /\ k.node \notin policies[v].bans /\ k.node \in policies[by].named
  ELSE /\ by <= v
       /\ k.node \in policies[by].named \/ (~whole /\ k.node \in policies[by].admits)

\* The directory holds no older version, and gives nothing, or something to c.
Gives(c) ==
  /\ held' \in held..MaxVersion /\ expired' \in BOOLEAN /\ fresh' \in BOOLEAN
  /\ \/ given' = given
     \/ \E v, by \in 1..MaxVersion, whole \in BOOLEAN :
          Give(c, v, by, whole) /\ MayHave(conn[c], v, by, whole)

\* Such a move, to where the steps allow, keeps the invariant.
LEMMA OneMoves ==
  ASSUME DoorInv, NEW c \in Conns, NEW k \in Progress, InStep(k), SeenBy(k, held), Moves(c, k),
         Gives(c)
  PROVE  DoorInv'
<1> USE DEF Moves, Gives
<1>1. conn \in [Conns -> Progress]
  BY DEF DoorInv, TypeOK, Progress, Slot
<1>2. conn' \in [Conns -> Progress]
  BY <1>1
<1>3. PoolsAreCounted'
  <2>1. TypeOK BY DEF DoorInv
  <2>2. \A s \in Slot :
          /\ Cardinality(Holding(s)) \in Nat
          /\ Cardinality(Holding(s)')
               = Cardinality(Holding(s)) - Count(conn[c].slot = s) + Count(k.slot = s)
    BY <2>1, SlotChangesHands
  <2> QED BY <2>2 DEF DoorInv, PoolsAreCounted, Slot
<1>4. /\ undecided' \in 0..MaxUndecided
      /\ admitted' \in 0..MaxAdmitted
      /\ subscribers' \in 0..MaxSubscribers
  BY TakenIsCounted, DirectoryDoorAssumption DEF DoorInv, TypeOK, Count
<1> DEFINE Handed == [node : Nodes, version : 1..MaxVersion, by : 1..MaxVersion,
                      sub : BOOLEAN, whole : BOOLEAN, expired : BOOLEAN]
<1>5. \A g \in given' : g \in given \/ (g \in Handed /\ MayHave(g, g.version, g.by, g.whole))
  <2>1. CASE given' = given
    BY <2>1
  <2>2. CASE given' # given
    <3>1. PICK v \in 1..MaxVersion, by \in 1..MaxVersion, whole \in BOOLEAN :
            Give(c, v, by, whole) /\ MayHave(conn[c], v, by, whole)
      BY <2>2
    <3> DEFINE g == [node |-> conn[c].node, version |-> v, by |-> by, sub |-> conn[c].sub,
                     whole |-> whole, expired |-> expired]
    <3>2. given' = given \cup {g}
      BY <3>1 DEF Give
    <3>3. g \in Handed
      BY <1>1 DEF Progress, DoorInv, TypeOK
    <3>4. MayHave(g, g.version, g.by, g.whole)
      BY <3>1 DEF MayHave
    <3> HIDE DEF g, Handed
    <3> QED BY <3>2, <3>3, <3>4
  <2> QED BY <2>1, <2>2
<1>6. TypeOK'
  <2>1. given' \subseteq Handed
    BY <1>5 DEF DoorInv, TypeOK
  <2>2. policies' \in [1..MaxVersion -> Content] /\ held' \in 0..MaxVersion
    BY DirectoryDoorAssumption DEF DoorInv, TypeOK
  <2> QED BY <1>2, <1>4, <2>1, <2>2 DEF TypeOK, Progress, Slot
<1>7. (\A d \in Conns : InStep(conn[d]))'
  BY <1>1 DEF DoorInv, InStep
<1>8. (StreamedToNamed /\ AnsweredToAdmitted)'
  BY <1>5 DEF DoorInv, StreamedToNamed, AnsweredToAdmitted, MayHave
<1>9. held \in 0..MaxVersion /\ held <= held' /\ held' \in 0..MaxVersion /\ MaxVersion \in Nat
  BY DirectoryDoorAssumption DEF DoorInv, TypeOK
<1>10. \A d \in Conns : conn'[d] \in Progress /\ SeenBy(conn'[d], held)
  BY <1>1, <1>2 DEF DoorInv
<1>11. (\A d \in Conns : SeenBy(conn[d], held))'
  BY <1>9, <1>10 DEF SeenBy, Progress
<1> QED BY <1>3, <1>6, <1>7, <1>8, <1>11 DEF DoorInv

\* A step that moves no connection keeps it, whatever the directory comes to hold.
LEMMA NoneMoves ==
  ASSUME DoorInv, UNCHANGED <<policies, conn, slots, given>>,
         held' \in held..MaxVersion, expired' \in BOOLEAN, fresh' \in BOOLEAN
  PROVE  DoorInv'
<1>0. held \in 0..MaxVersion /\ held <= held' /\ held' \in 0..MaxVersion /\ MaxVersion \in Nat
  BY DirectoryDoorAssumption DEF DoorInv, TypeOK
<1>1. TypeOK'
  BY <1>0 DEF DoorInv, TypeOK, slots
<1>2. PoolsAreCounted'
  BY DEF DoorInv, PoolsAreCounted, Holding, slots
<1>3. (\A c \in Conns : InStep(conn[c]))' /\ (StreamedToNamed /\ AnsweredToAdmitted)'
  BY DEF DoorInv, InStep, StreamedToNamed, AnsweredToAdmitted
<1>4. \A c \in Conns : conn[c] \in Progress /\ SeenBy(conn[c], held)
  BY DEF DoorInv, TypeOK, Progress, Slot
<1>5. (\A c \in Conns : SeenBy(conn[c], held))'
  BY <1>0, <1>4 DEF SeenBy, Progress
<1> QED BY <1>1, <1>2, <1>3, <1>5 DEF DoorInv

\* A connection that ends gives back its slot, and no other.
LEMMA EndMoves ==
  ASSUME DoorInv, NEW c \in Conns, conn[c].step # "new", End(c), policies' = policies, Gives(c)
  PROVE  DoorInv'
<1> DEFINE k == [conn[c] EXCEPT !.step = "over", !.slot = "none"]
<1>1. conn[c] \in Progress /\ InStep(conn[c]) /\ SeenBy(conn[c], held)
  BY DEF DoorInv, TypeOK, Progress, Slot
<1>2. k \in Progress /\ k.slot = "none"
  BY <1>1 DEF Progress, Slot, Steps
<1>3. InStep(k) /\ SeenBy(k, held)
  BY <1>1 DEF InStep, SeenBy, Progress, Undecided, Following
<1>4. conn' = [conn EXCEPT ![c] = k]
  BY <1>1 DEF End, Over, DoorInv, TypeOK
<1>5. Moves(c, k)
  BY <1>2, <1>4, DirectoryDoorAssumption DEF Moves, End, Free, Count, DoorInv, TypeOK
<1> HIDE DEF k
<1> QED BY <1>2, <1>3, <1>5, OneMoves

-----------------------------------------------------------------------------
(* The invariant is inductive: the initial states, and each action. *)

LEMMA InitDoor == Init => DoorInv
<1> SUFFICES ASSUME Init PROVE DoorInv
  OBVIOUS
<1>1. (CHOOSE n \in Nodes : TRUE) \in Nodes
  BY DirectoryDoorAssumption
<1>2. NoConn \in Progress /\ InStep(NoConn) /\ NoConn.slot = "none" /\ SeenBy(NoConn, 0)
  BY <1>1, DirectoryDoorAssumption
  DEF NoConn, Progress, Slot, Steps, InStep, SeenBy, Undecided, Following
<1>3. TypeOK
  <2>1. policies \in [1..MaxVersion -> Content] /\ policies[1] \in Content
    BY DirectoryDoorAssumption DEF Init
  <2>2. fresh \in BOOLEAN
    BY <2>1 DEF Init, Content
  <2>3. conn \in [Conns -> Progress]
    BY <1>2 DEF Init
  <2>4. /\ held \in 0..MaxVersion /\ undecided \in 0..MaxUndecided
        /\ admitted \in 0..MaxAdmitted /\ subscribers \in 0..MaxSubscribers
    BY DirectoryDoorAssumption DEF Init
  <2>5. expired \in BOOLEAN /\ given = {}
    BY DEF Init
  <2> QED BY <2>1, <2>2, <2>3, <2>4, <2>5 DEF TypeOK, Progress, Slot
<1>4. PoolsAreCounted
  <2>1. Holding("undecided") = {} /\ Holding("admitted") = {} /\ Holding("subscriber") = {}
    BY <1>2 DEF Init, Holding
  <2> QED BY <2>1, FS_EmptySet DEF Init, PoolsAreCounted
<1>5. \A c \in Conns : InStep(conn[c]) /\ SeenBy(conn[c], held)
  BY <1>2, DirectoryDoorAssumption DEF Init, SeenBy, NoConn
<1>6. StreamedToNamed /\ AnsweredToAdmitted
  BY DEF Init, StreamedToNamed, AnsweredToAdmitted
<1> QED BY <1>3, <1>4, <1>5, <1>6 DEF DoorInv

\* What the invariant says of the connection that an action moves.
Facts(c) ==
  /\ conn[c] \in Progress /\ InStep(conn[c]) /\ SeenBy(conn[c], held)
  /\ conn \in [Conns -> Progress]
  /\ held \in 0..MaxVersion /\ expired \in BOOLEAN /\ fresh \in BOOLEAN
  /\ undecided \in 0..MaxUndecided /\ admitted \in 0..MaxAdmitted
  /\ subscribers \in 0..MaxSubscribers
  /\ MaxUndecided \in Nat /\ MaxAdmitted \in Nat /\ MaxSubscribers \in Nat
  /\ MaxVersion \in Nat

\* Each action's proof takes these from the invariant.
LEMMA OfOne ==
  ASSUME DoorInv, NEW c \in Conns
  PROVE  Facts(c)
BY DirectoryDoorAssumption DEF Facts, DoorInv, TypeOK, Progress, Slot

\* A connection that keeps its slot leaves the pools as they are.
LEMMA SlotStays ==
  ASSUME NEW c \in Conns, Facts(c), NEW k \in Progress, k.slot = conn[c].slot,
         conn' = [conn EXCEPT ![c] = k], policies' = policies, UNCHANGED slots
  PROVE  Moves(c, k)
<1>1. /\ Count(conn[c].slot = "undecided") \in Nat
      /\ Count(conn[c].slot = "admitted") \in Nat
      /\ Count(conn[c].slot = "subscriber") \in Nat
  BY DEF Count
<1>2. undecided' = undecided /\ admitted' = admitted /\ subscribers' = subscribers
  BY DEF slots
<1>3. /\ Count(k.slot = "undecided") = Count(conn[c].slot = "undecided")
      /\ Count(k.slot = "admitted") = Count(conn[c].slot = "admitted")
      /\ Count(k.slot = "subscriber") = Count(conn[c].slot = "subscriber")
  OBVIOUS
<1>4. /\ undecided' = undecided - Count(conn[c].slot = "undecided")
                       + Count(k.slot = "undecided")
      /\ admitted' = admitted - Count(conn[c].slot = "admitted") + Count(k.slot = "admitted")
      /\ subscribers' = subscribers - Count(conn[c].slot = "subscriber")
                         + Count(k.slot = "subscriber")
  BY <1>1, <1>2, <1>3 DEF Facts
<1>5. undecided' <= MaxUndecided /\ admitted' <= MaxAdmitted /\ subscribers' <= MaxSubscribers
  BY <1>2 DEF Facts
<1> QED BY <1>4, <1>5 DEF Moves

\* A connection that goes to a step which its slot and its node allow.
LEMMA GoesOn ==
  ASSUME DoorInv, NEW c \in Conns, NEW to \in Steps \ {"new", "looked"}, GoesTo(c, to),
         InStep([conn[c] EXCEPT !.step = to]), UNCHANGED policies, Gives(c)
  PROVE  DoorInv'
<1>0. Facts(c)
  BY OfOne
<1> USE <1>0 DEF Facts
<1> DEFINE k == [conn[c] EXCEPT !.step = to]
<1>1. k \in Progress /\ k.slot = conn[c].slot /\ InStep(k) /\ SeenBy(k, held)
  BY DEF Progress, SeenBy
<1>2. conn' = [conn EXCEPT ![c] = k] /\ UNCHANGED slots
  BY DEF GoesTo
<1> HIDE DEF k
<1>3. Moves(c, k)
  BY <1>0, <1>1, <1>2, SlotStays
<1> QED BY <1>1, <1>3, OneMoves

\* A refusal is written with whatever slot there is.
LEMMA TellMoves ==
  ASSUME DoorInv, NEW c \in Conns, Tell(c), UNCHANGED policies, Gives(c),
         conn[c].step \in Undecided \cup Following \/ (conn[c].step = "request" /\ conn[c].sub)
  PROVE  DoorInv'
<1>1. Facts(c)
  BY OfOne
<1>2. InStep([conn[c] EXCEPT !.step = "telling"])
  BY <1>1 DEF Facts, InStep, Progress, Undecided, Following
<1> QED BY <1>2, GoesOn DEF Tell, Steps

LEMMA ConnectDoor ==
  ASSUME DoorInv, NEW c \in Conns, NEW n \in Nodes, NEW sub \in BOOLEAN, Connect(c, n, sub)
  PROVE  DoorInv'
<1>0. Facts(c)
  BY OfOne
<1> USE <1>0 DEF Facts
<1>1. conn[c].slot = "none" /\ ~conn[c].named /\ ~conn[c].person
  BY DEF Connect, InStep
<1>2. CASE undecided < MaxUndecided
  <2> DEFINE k == [conn[c] EXCEPT !.step = "opening", !.node = n, !.sub = sub,
                                  !.slot = "undecided"]
  <2>1. k \in Progress /\ InStep(k) /\ SeenBy(k, held) /\ k.slot = "undecided"
    BY <1>1 DEF Progress, Steps, Slot, InStep, SeenBy, Undecided, Following
  <2>2. conn' = [conn EXCEPT ![c] = k] /\ undecided' = undecided + 1
    BY <1>2 DEF Connect
  <2> HIDE DEF k
  <2>8. Moves(c, k) /\ Gives(c)
    BY <1>1, <1>2, <2>1, <2>2 DEF Moves, Gives, Connect, Count, store
  <2> QED BY <2>8, <1>1, <1>2, <2>1, <2>2, OneMoves
<1>3. CASE ~(undecided < MaxUndecided)
  <2> DEFINE k == [conn[c] EXCEPT !.step = "over", !.node = n, !.sub = sub]
  <2>1. k \in Progress /\ InStep(k) /\ SeenBy(k, held) /\ k.slot = "none"
    BY <1>1 DEF Progress, Steps, Slot, InStep, SeenBy, Undecided, Following
  <2>2. conn' = [conn EXCEPT ![c] = k] /\ undecided' = undecided
    BY <1>3 DEF Connect
  <2> HIDE DEF k
  <2>8. Moves(c, k) /\ Gives(c)
    BY <1>1, <2>1, <2>2 DEF Moves, Gives, Connect, Count, store
  <2> QED BY <2>8, <1>1, <2>1, <2>2, OneMoves
<1> QED BY <1>2, <1>3

\* The steps up to the token's verification, none of which gives anything.
LEMMA OpeningDoor ==
  ASSUME DoorInv, NEW c \in Conns, Stream(c) \/ Open(c) \/ Proven(c)
  PROVE  DoorInv'
<1>0. Facts(c)
  BY OfOne
<1> USE <1>0 DEF Facts
<1>1. Gives(c) /\ UNCHANGED policies /\ conn[c].step \in {"opening", "hello", "proving"}
  BY DEF Gives, Stream, Open, Proven, store
<1>2. CASE Tell(c)
  BY <1>1, <1>2, TellMoves DEF Undecided
<1>3. ASSUME NEW to \in {"hello", "proving", "rehello"}, GoesTo(c, to) PROVE DoorInv'
  <2>1. InStep([conn[c] EXCEPT !.step = to])
    BY <1>1 DEF InStep, Progress, Undecided, Following
  <2> QED BY <1>1, <1>3, <2>1, GoesOn DEF Steps
<1>4. Tell(c) \/ \E to \in {"hello", "proving", "rehello"} : GoesTo(c, to)
  BY DEF Stream, Open, Proven, GoesTo
<1> QED BY <1>2, <1>3, <1>4

LEMMA HelloDoor ==
  ASSUME DoorInv, NEW c \in Conns, Hello(c)
  PROVE  DoorInv'
<1>0. Facts(c)
  BY OfOne
<1> USE <1>0 DEF Facts
<1> DEFINE u == IF expired THEN 0 ELSE held
           k == [conn[c] EXCEPT !.step = "naming", !.under = u]
<1>1. u \in 0..MaxVersion /\ u <= held
  OBVIOUS
<1> HIDE DEF u
<1>2. k \in Progress /\ k.slot = conn[c].slot
  BY <1>1 DEF Progress, Steps, Slot
<1>3. InStep(k) /\ SeenBy(k, held)
  BY <1>1 DEF Hello, Progress, InStep, SeenBy, Undecided, Following
<1>4. conn' = [conn EXCEPT ![c] = k]
  BY DEF Hello, u
<1> HIDE DEF k
<1>7. Moves(c, k)
  BY <1>0, <1>2, <1>4, SlotStays DEF Hello, store
<1>8. Gives(c)
  BY DEF Gives, Hello, store
<1> QED BY <1>2, <1>3, <1>7, <1>8, OneMoves

LEMMA NamedDoor ==
  ASSUME DoorInv, NEW c \in Conns, Named(c)
  PROVE  DoorInv'
<1>0. Facts(c)
  BY OfOne
<1> USE <1>0 DEF Facts
<1> DEFINE n == holds_whole(conn[c].node)
           k == [conn[c] EXCEPT !.step = "admitting", !.at = held, !.named = n]
<1>1. n \in BOOLEAN /\ (n => held # 0 /\ conn[c].node \in policies[held].named)
  BY DEF holds_whole
<1> HIDE DEF n
<1>2. k \in Progress /\ k.slot = conn[c].slot
  BY <1>1 DEF Progress, Steps, Slot
<1>3. InStep(k) /\ SeenBy(k, held)
  BY <1>1 DEF Named, Progress, InStep, SeenBy, Undecided, Following
<1>4. conn' = [conn EXCEPT ![c] = k]
  BY DEF Named, n
<1> HIDE DEF k
<1>7. Moves(c, k)
  BY <1>0, <1>2, <1>4, SlotStays DEF Named, store
<1>8. Gives(c)
  BY DEF Gives, Named, store
<1> QED BY <1>2, <1>3, <1>7, <1>8, OneMoves

LEMMA GiveUpDoor ==
  ASSUME DoorInv, NEW c \in Conns, Deadlines(c) \/ Told(c) \/ Lost(c)
  PROVE  DoorInv'
<1>1. Facts(c)
  BY OfOne
<1>2. Gives(c) /\ UNCHANGED policies /\ conn[c].step # "new"
  BY <1>1 DEF Gives, Facts, Deadlines, GiveUp, Told, Lost, store
<1>3. \/ End(c)
      \/ /\ Tell(c)
         /\ \/ conn[c].step \in Undecided \cup Following
            \/ conn[c].step = "request" /\ conn[c].sub
  BY DEF Deadlines, GiveUp, Told, Lost, Undecided
<1> QED BY <1>2, <1>3, EndMoves, TellMoves

\* admit() returns: on the word of the policy it read first, and no other.
LEMMA AdmitDoor ==
  ASSUME DoorInv, NEW c \in Conns, NEW token \in BOOLEAN, Admit(c, token)
  PROVE  DoorInv'
<1>0. Facts(c)
  BY OfOne
<1> USE <1>0 DEF Facts
<1> DEFINE person == token /\ conn[c].under # 0
                       /\ conn[c].node \in policies[conn[c].under].admits
<1>1. person \in BOOLEAN /\ conn[c].slot = "undecided" /\ conn[c].step = "admitting"
  BY DEF Admit, InStep, Undecided
<1>2. person => conn[c].under # 0 /\ conn[c].node \in policies[conn[c].under].admits
  OBVIOUS
<1>3. CASE (conn[c].named \/ person) /\ admitted < MaxAdmitted
  <2> DEFINE k == [conn[c] EXCEPT !.step = "request", !.person = person, !.slot = "admitted"]
  <2>1. k \in Progress /\ k.slot = "admitted"
    BY <1>1 DEF Progress, Steps, Slot
  <2>2. InStep(k) /\ SeenBy(k, held)
    BY <1>1, <1>2, <1>3 DEF Progress, InStep, SeenBy, Undecided, Following
  <2>3. /\ conn' = [conn EXCEPT ![c] = k]
        /\ undecided' = undecided - 1 /\ admitted' = admitted + 1 /\ subscribers' = subscribers
    BY <1>3 DEF Admit, Trade
  <2> HIDE DEF k
  <2>8. Moves(c, k) /\ Gives(c)
    BY <1>1, <1>3, <2>1, <2>2, <2>3 DEF Moves, Gives, Admit, Count, store
  <2> QED BY <2>8, <1>1, <1>3, <2>1, <2>2, <2>3, OneMoves
<1>4. CASE (conn[c].named \/ person) /\ ~(admitted < MaxAdmitted)
  <2>1. End(c)
    BY <1>1, <1>4 DEF Admit, Trade, End, Free
  <2>8. Gives(c)
    BY DEF Gives, Admit, store
  <2> QED BY <2>8, <1>1, <2>1, EndMoves DEF Admit, store
<1>5. CASE ~(conn[c].named \/ person)
  <2>1. Gives(c) /\ UNCHANGED policies
    BY DEF Gives, Admit, store
  <2>2. CASE conn[c].sub
    BY <1>1, <1>5, <2>1, <2>2, TellMoves DEF Admit, Undecided
  <2>3. CASE ~conn[c].sub
    <3>1. InStep([conn[c] EXCEPT !.step = "request"])
      BY <1>1, <1>5, <2>3 DEF Progress, InStep, Undecided, Following
    <3>2. GoesTo(c, "request")
      BY <1>5, <2>3 DEF Admit
    <3> QED BY <2>1, <3>1, <3>2, GoesOn DEF Steps
  <2> QED BY <2>2, <2>3
<1> QED BY <1>3, <1>4, <1>5

\* One request's answer goes to the peer admit() returned, on no subscription's stream.
LEMMA AnswerDoor ==
  ASSUME DoorInv, NEW c \in Conns, NEW request \in {"policy", "view"},
         NEW have \in 0..MaxVersion, Answer(c, request, have)
  PROVE  DoorInv'
<1>0. Facts(c)
  BY OfOne
<1> USE <1>0 DEF Facts
<1>1. End(c) /\ conn[c].step # "new" /\ ~conn[c].sub /\ UNCHANGED store
  BY DEF Answer
<1>2. Gives(c)
  <2>1. CASE given' = given
    BY <1>1, <2>1 DEF Gives, store
  <2>2. CASE given' # given
    <3> DEFINE by == IF conn[c].named THEN conn[c].at ELSE conn[c].under
               whole == request = "policy"
    <3>1. /\ Give(c, held, by, whole) /\ held # 0
          /\ conn[c].named \/ conn[c].person
          /\ whole => conn[c].named
      BY <2>2 DEF Answer, Admitted
    <3>2. whole \in BOOLEAN /\ held \in 1..MaxVersion
      BY <3>1
    <3>3. by \in 1..MaxVersion /\ by <= held
      BY <3>1 DEF InStep, SeenBy, Progress
    <3>4. conn[c].node \in policies[by].named \/ (~whole /\ conn[c].node \in policies[by].admits)
      BY <3>1 DEF InStep
    <3> HIDE DEF by, whole
    <3>5. MayHave(conn[c], held, by, whole)
      BY <1>1, <3>3, <3>4 DEF MayHave
    <3> QED BY <1>1, <3>1, <3>2, <3>3, <3>5 DEF Gives, store
  <2> QED BY <2>1, <2>2
<1> QED BY <1>1, <1>2, EndMoves DEF store

LEMMA PublishHeadDoor ==
  ASSUME DoorInv, NEW c \in Conns, NEW v \in 0..MaxVersion, PublishHead(c, v)
  PROVE  DoorInv'
<1>0. Facts(c)
  BY OfOne
<1> USE <1>0 DEF Facts
<1> DEFINE k == [conn[c] EXCEPT !.step = "items", !.slot = "admitted", !.head = v]
<1>1. k \in Progress /\ InStep(k) /\ SeenBy(k, held) /\ k.slot = "admitted"
  BY DEF Progress, Steps, Slot, InStep, SeenBy, Undecided, Following
<1>2. Gives(c)
  BY DEF Gives, PublishHead, store
<1>3. conn[c].slot \in {"admitted", "undecided"} /\ conn[c].step = "request"
  BY DEF PublishHead, InStep
<1>4. CASE ~(v > held)
  <2>1. End(c)
    BY <1>4 DEF PublishHead
  <2> QED BY <1>2, <1>3, <2>1, EndMoves DEF PublishHead, store
<1>5. CASE v > held /\ conn[c].slot = "admitted"
  <2>1. conn' = [conn EXCEPT ![c] = k] /\ UNCHANGED slots
    BY <1>5 DEF PublishHead, Progress
  <2>2. k.slot = conn[c].slot
    BY <1>1, <1>5
  <2> HIDE DEF k
  <2>3. Moves(c, k)
    BY <1>0, <1>1, <2>1, <2>2, SlotStays DEF PublishHead, store
  <2> QED BY <1>1, <1>2, <2>3, OneMoves
<1>6. CASE v > held /\ conn[c].slot = "undecided" /\ admitted < MaxAdmitted
  <2>1. /\ conn' = [conn EXCEPT ![c] = k]
        /\ undecided' = undecided - 1 /\ admitted' = admitted + 1 /\ subscribers' = subscribers
    BY <1>6 DEF PublishHead
  <2> HIDE DEF k
  <2>2. Moves(c, k)
    BY <1>1, <1>6, <2>1 DEF Moves, Count, PublishHead, store
  <2> QED BY <1>1, <1>2, <2>2, OneMoves
<1>7. CASE v > held /\ conn[c].slot = "undecided" /\ ~(admitted < MaxAdmitted)
  <2>1. End(c)
    BY <1>7 DEF PublishHead, End, Free
  <2> QED BY <1>2, <1>3, <2>1, EndMoves DEF PublishHead, store
<1> QED BY <1>3, <1>4, <1>5, <1>6, <1>7

\* What accept leaves is a version, and whether it expired and is fresh.
LEMMA AcceptHolds ==
  ASSUME DoorInv, NEW v \in 0..MaxVersion, Accept(v)
  PROVE  held' \in held..MaxVersion /\ expired' \in BOOLEAN /\ fresh' \in BOOLEAN
<1>1. /\ held \in 0..MaxVersion /\ expired \in BOOLEAN /\ fresh \in BOOLEAN
      /\ policies \in [1..MaxVersion -> Content] /\ MaxVersion \in Nat
  BY DirectoryDoorAssumption DEF DoorInv, TypeOK
<1>2. v > held => policies[v].lists \in BOOLEAN
  <2>1. v > held => v \in 1..MaxVersion
    BY <1>1
  <2> QED BY <1>1, <2>1 DEF Content
<1>3. v \in 0..MaxVersion /\ held \in held..MaxVersion /\ (v > held => v \in held..MaxVersion)
  BY <1>1
<1> QED BY <1>1, <1>2, <1>3 DEF Accept

LEMMA PublishItemsDoor ==
  ASSUME DoorInv, NEW c \in Conns, PublishItems(c)
  PROVE  DoorInv'
<1>1. Facts(c)
  BY OfOne
<1>2. conn[c].head \in 0..MaxVersion /\ conn[c].step # "new"
  BY <1>1 DEF Facts, Progress, PublishItems
<1>3. Gives(c)
  BY <1>2, AcceptHolds DEF Gives, PublishItems
<1> QED BY <1>2, <1>3, EndMoves DEF PublishItems

LEMMA SubscribeDoor ==
  ASSUME DoorInv, NEW c \in Conns, NEW have \in 0..MaxVersion, Subscribe(c, have)
  PROVE  DoorInv'
<1>0. Facts(c)
  BY OfOne
<1> USE <1>0 DEF Facts
<1>1. conn[c].slot = "admitted" /\ conn[c].step = "request"
  BY DEF Subscribe, InStep
<1>2. Gives(c)
  BY DEF Gives, Subscribe, store
<1>3. CASE conn[c].named /\ subscribers < MaxSubscribers
  <2> DEFINE k == [conn[c] EXCEPT !.step = "following", !.sent = have, !.slot = "subscriber"]
  <2>1. k \in Progress /\ k.slot = "subscriber"
    BY DEF Progress, Steps, Slot
  <2>2. InStep(k) /\ SeenBy(k, held)
    BY <1>1, <1>3 DEF Subscribe, Progress, InStep, SeenBy, Undecided, Following
  <2>3. /\ conn' = [conn EXCEPT ![c] = k] /\ admitted' = admitted - 1
        /\ subscribers' = subscribers + 1 /\ undecided' = undecided
    BY <1>3 DEF Subscribe
  <2> HIDE DEF k
  <2>4. Moves(c, k)
    BY <1>1, <1>3, <2>1, <2>3 DEF Moves, Count, Subscribe, store
  <2> QED BY <1>2, <2>1, <2>2, <2>4, OneMoves
<1>4. CASE ~(conn[c].named /\ subscribers < MaxSubscribers)
  <2>1. End(c)
    BY <1>1, <1>4 DEF Subscribe, End, Free
  <2> QED BY <1>1, <1>2, <2>1, EndMoves DEF Subscribe, store
<1> QED BY <1>3, <1>4

\* A subscriber's change is taken unless it bans the subscriber, ...
LEMMA LookDoor ==
  ASSUME DoorInv, NEW c \in Conns, Look(c)
  PROVE  DoorInv'
<1>0. Facts(c)
  BY OfOne
<1> USE <1>0 DEF Facts
<1>1. held # 0 /\ conn[c].step = "following" /\ Gives(c) /\ UNCHANGED policies
  BY DEF Look, Changed, Gives, store
<1>2. CASE Tell(c)
  BY <1>1, <1>2, TellMoves DEF Following
<1>3. CASE ~Tell(c)
  <2> DEFINE k == [conn[c] EXCEPT !.step = "looked", !.seen = held]
  <2>1. conn' = [conn EXCEPT ![c] = k] /\ UNCHANGED slots /\ conn[c].node \notin policies[held].bans
    BY <1>3 DEF Look
  <2>2. k \in Progress /\ k.slot = conn[c].slot /\ SeenBy(k, held)
    <3>1. held <= held
      OBVIOUS
    <3>2. k \in Progress /\ k.slot = conn[c].slot
      BY DEF Progress, Steps
    <3> QED BY <3>1, <3>2 DEF SeenBy, Progress
  <2>3. InStep(k)
    BY <1>1, <2>1 DEF InStep, Progress, Undecided, Following
  <2> HIDE DEF k
  <2>4. Moves(c, k)
    BY <1>0, <1>1, <2>1, <2>2, SlotStays
  <2> QED BY <1>1, <2>2, <2>3, <2>4, OneMoves
<1> QED BY <1>2, <1>3

\* ... and goes out only if what is held by then names it, not on the word of the
\* policy held when the subscription was admitted.
LEMMA FrameDoor ==
  ASSUME DoorInv, NEW c \in Conns, Frame(c)
  PROVE  DoorInv'
<1>0. Facts(c)
  BY OfOne
<1> USE <1>0 DEF Facts
<1>1. conn[c].step = "looked" /\ UNCHANGED store
  BY DEF Frame
<1>2. conn[c].seen # 0 /\ conn[c].node \notin policies[conn[c].seen].bans /\ conn[c].sub \in BOOLEAN
      /\ conn[c].seen \in 0..MaxVersion /\ conn[c].seen <= held /\ conn[c].sub
  BY <1>1 DEF InStep, SeenBy, Progress, Following
<1>3. CASE Tell(c) /\ given' = given
  <2>1. Gives(c)
    BY <1>1, <1>3 DEF Gives, store
  <2> QED BY <1>1, <1>3, <2>1, TellMoves DEF store, Following
<1>4. CASE GoesTo(c, "sending") /\ holds_whole(conn[c].node)
  <2>1. Gives(c)
    <3>1. given' = given \/ Give(c, conn[c].seen, held, TRUE)
      BY <1>4 DEF Frame, Tell, GoesTo
    <3>2. held # 0 /\ conn[c].node \in policies[held].named
      BY <1>4 DEF holds_whole
    <3>3. MayHave(conn[c], conn[c].seen, held, TRUE)
      BY <1>2, <3>2 DEF MayHave
    <3>4. /\ conn[c].seen \in 1..MaxVersion /\ held \in 1..MaxVersion
          /\ held' \in held..MaxVersion /\ expired' \in BOOLEAN /\ fresh' \in BOOLEAN
      BY <1>1, <1>2, <3>2 DEF store
    <3> QED BY <3>1, <3>3, <3>4 DEF Gives
  <2>2. InStep([conn[c] EXCEPT !.step = "sending"])
    BY <1>1 DEF InStep, Progress, Undecided, Following
  <2> QED BY <1>1, <1>4, <2>1, <2>2, GoesOn DEF Steps, store
<1> QED BY <1>3, <1>4 DEF Frame

LEMMA SentDoor ==
  ASSUME DoorInv, NEW c \in Conns, Sent(c)
  PROVE  DoorInv'
<1>0. Facts(c)
  BY OfOne
<1> USE <1>0 DEF Facts
<1> DEFINE n == IF conn[c].seen > conn[c].sent THEN conn[c].seen ELSE conn[c].sent
           k == [conn[c] EXCEPT !.step = "following", !.sent = n]
<1>1. n \in 0..MaxVersion
  BY DEF Progress
<1>2. conn' = [conn EXCEPT ![c] = k] /\ UNCHANGED slots
  BY DEF Sent, Progress
<1> HIDE DEF n
<1>3. k \in Progress /\ k.slot = conn[c].slot /\ SeenBy(k, held)
  BY <1>1 DEF Progress, Steps, SeenBy
<1>4. InStep(k)
  BY DEF Sent, InStep, Progress, Undecided, Following
<1> HIDE DEF k
<1>5. Moves(c, k)
  BY <1>0, <1>2, <1>3, SlotStays DEF Sent, store
<1>6. Gives(c)
  BY DEF Gives, Sent, store
<1> QED BY <1>3, <1>4, <1>5, <1>6, OneMoves

LEMMA LeaveDoor ==
  ASSUME DoorInv, NEW c \in Conns, Leave(c)
  PROVE  DoorInv'
<1>1. Facts(c)
  BY OfOne
<1>2. Gives(c)
  BY <1>1 DEF Facts, Gives, Leave, store
<1> QED BY <1>2, EndMoves DEF Leave, store

LEMMA FollowedDoor ==
  ASSUME DoorInv, NEW v \in 1..MaxVersion, Followed(v)
  PROVE  DoorInv'
BY AcceptHolds, NoneMoves, DirectoryDoorAssumption DEF Followed

LEMMA TimeDoor ==
  ASSUME DoorInv, Expire \/ Beat
  PROVE  DoorInv'
<1>1. /\ held \in 0..MaxVersion /\ expired \in BOOLEAN /\ fresh \in BOOLEAN
      /\ policies \in [1..MaxVersion -> Content] /\ MaxVersion \in Nat
  BY DirectoryDoorAssumption DEF DoorInv, TypeOK
<1>2. CASE Expire
  BY <1>1, <1>2, NoneMoves DEF Expire
<1>3. CASE Beat
  <2>1. policies[held] \in Content
    BY <1>1, <1>3 DEF Beat
  <2>2. fresh' \in BOOLEAN
    BY <1>1, <1>3, <2>1 DEF Beat, Content
  <2> QED BY <1>1, <1>3, <2>2, NoneMoves DEF Beat
<1> QED BY <1>2, <1>3

LEMMA DoorStep == DoorInv /\ [Next]_vars => DoorInv'
<1> SUFFICES ASSUME DoorInv, [Next]_vars PROVE DoorInv'
  OBVIOUS
<1>1. CASE UNCHANGED vars
  BY <1>1, NoneMoves DEF vars, slots, DoorInv, TypeOK
<1>2. CASE \E v \in 1..MaxVersion : Followed(v)
  BY <1>2, FollowedDoor
<1>3. CASE Expire \/ Beat
  BY <1>3, TimeDoor
<1>4. ASSUME NEW c \in Conns,
             \/ \E n \in Nodes, sub \in BOOLEAN : Connect(c, n, sub)
             \/ Stream(c) \/ Open(c) \/ Proven(c) \/ Hello(c) \/ Named(c) \/ Deadlines(c)
             \/ Told(c) \/ Lost(c)
             \/ Verified(c)
             \/ \E have \in 0..MaxVersion : Answer(c, "policy", have)
             \/ Answer(c, "view", 0)
             \/ \E v \in 0..MaxVersion : PublishHead(c, v)
             \/ PublishItems(c)
             \/ \E have \in 0..MaxVersion : Subscribe(c, have)
             \/ Look(c) \/ Frame(c) \/ Sent(c) \/ Leave(c)
      PROVE  DoorInv'
  <2>1. CASE \E n \in Nodes, sub \in BOOLEAN : Connect(c, n, sub)
    BY <2>1, ConnectDoor
  <2>2. CASE Stream(c) \/ Open(c) \/ Proven(c)
    BY <2>2, OpeningDoor
  <2>3. CASE Named(c)
    BY <2>3, NamedDoor
  <2>4. CASE Hello(c)
    BY <2>4, HelloDoor
  <2>5. CASE Deadlines(c) \/ Told(c) \/ Lost(c)
    BY <2>5, GiveUpDoor
  <2>6. CASE Verified(c)
    BY <2>6, AdmitDoor DEF Verified
  <2>7. CASE \E have \in 0..MaxVersion : Answer(c, "policy", have)
    BY <2>7, AnswerDoor
  <2>8. CASE Answer(c, "view", 0)
    BY <2>8, AnswerDoor, DirectoryDoorAssumption
  <2>9. CASE \E v \in 0..MaxVersion : PublishHead(c, v)
    BY <2>9, PublishHeadDoor
  <2>10. CASE PublishItems(c)
    BY <2>10, PublishItemsDoor
  <2>11. CASE \E have \in 0..MaxVersion : Subscribe(c, have)
    BY <2>11, SubscribeDoor
  <2>12. CASE Look(c)
    BY <2>12, LookDoor
  <2>14. CASE Frame(c)
    BY <2>14, FrameDoor
  <2>15. CASE Sent(c)
    BY <2>15, SentDoor
  <2>13. CASE Leave(c)
    BY <2>13, LeaveDoor
  <2> QED BY <1>4, <2>1, <2>2, <2>3, <2>4, <2>5, <2>6, <2>7, <2>8, <2>9, <2>10, <2>11,
             <2>12, <2>13, <2>14, <2>15
<1> QED BY <1>1, <1>2, <1>3, <1>4 DEF Next, Deadlines

\* The invariant says what the run asks of the door.
LEMMA DoorInvHolds == DoorInv => DoorHolds
<1> SUFFICES ASSUME DoorInv PROVE DoorHolds
  OBVIOUS
<1>1. SlotsAreHeld
  BY DEF DoorInv, PoolsAreCounted, SlotsAreHeld, InStep
<1>2. StrangersStayOutside
  <2> SUFFICES ASSUME NEW c \in Conns,
                      \A v \in 1..MaxVersion :
                        conn[c].node \notin policies[v].named \cup policies[v].admits
               PROVE  /\ conn[c].slot = "admitted" => conn[c].step = "items"
                      /\ conn[c].slot # "subscriber"
    BY DEF StrangersStayOutside
  <2>1. InStep(conn[c]) /\ conn[c].step \in Steps
    BY DEF DoorInv, TypeOK
  <2>2. conn[c] \in Progress
    BY DEF DoorInv, TypeOK, Progress, Slot
  <2>3. ~conn[c].named /\ ~conn[c].person
    BY <2>1, <2>2, DirectoryDoorAssumption DEF InStep, Progress
  <2> QED BY <2>1, <2>3 DEF InStep, Steps, Undecided, Following
<1> QED BY <1>1, <1>2 DEF DoorInv, DoorHolds

-----------------------------------------------------------------------------
(* Theorems. *)

\* Every reachable state of a directory's two protocols (serve.rs, sub_policy.rs)
\* satisfies the inductive invariant.
THEOREM DoorInvariance == Spec => []DoorInv
BY InitDoor, DoorStep, PTL DEF Spec

\* However connections open, ask, publish, subscribe, time out and end at once, no
\* slot leaks or is freed twice (Directory.undecided, admitted, subscribers), a node
\* no policy names or admits gets no further than publishing, and a policy is
\* streamed only to a node that it names.
THEOREM TheDoorHolds == Spec => []DoorHolds
BY DoorInvariance, DoorInvHolds, PTL

-----------------------------------------------------------------------------
(* A host that follows directories. *)

USE DEF F!FollowingAssumption

LEMMA SameSizes == \A s : F!Cardinality(s) = Cardinality(s)
BY DEF F!Cardinality, Cardinality

Frames == [policy : BOOLEAN, word : F!Word, denied : BOOLEAN]

Rounds == [at : F!Places, left : Seq(Dirs), order : Seq(Dirs), last : F!Signers,
           answered : BOOLEAN, read : 0..F!MaxVersion, sent : 0..F!MaxVersion, frame : Frames]

\* A word for a version no later than v, signed by a directory which that lists.
Sound(w, v) == w \in F!Word /\ w.version <= v /\ F!Verifies(w, w.version)

\* What Freshness keeps, at a host that holds version v.
SoundSet(ws, v) ==
  /\ IsFiniteSet(ws) /\ Cardinality(ws) <= MaxFreshSet
  /\ \A w \in ws : Sound(w, v)
  /\ \A w, x \in ws : w.directory = x.directory => w = x

WorldTyped ==
  /\ now \in 0..MaxTime /\ newest \in 1..F!MaxVersion
  /\ holds \in [Dirs -> 0..newest] /\ up \subseteq Dirs
  /\ faults \in 0..MaxFaults

HostTyped ==
  /\ disk \in 0..newest /\ own \in {-1} \cup 0..MaxTime
  /\ own # -1 => disk # 0 /\ Me \in F!Lists_(disk)
  /\ \A w \in local : Sound(w, disk)

\* What is on the stream, and what the follower has from it.
FramesSound ==
  /\ pipe \in Seq(Frames) /\ Len(pipe) <= 1
  /\ \A i \in DOMAIN pipe : pipe[i].denied \/ Sound(pipe[i].word, newest)
  /\ run.at \in {"checked", "adopted"} => Sound(run.frame.word, newest)
  /\ run.at = "adopted" => run.read <= disk

\* A round goes through its order: who is left of it is in it.
RoundOrdered ==
  /\ run \in Rounds /\ run.read <= newest /\ run.sent <= newest
  /\ F!OnStream => run.left # << >>
  /\ \A i \in DOMAIN run.left : \E j \in DOMAIN run.order : run.order[j] = run.left[i]

FollowInv ==
  /\ WorldTyped
  /\ HostTyped
  /\ SoundSet(words, disk)
  /\ FramesSound
  /\ RoundOrdered

-----------------------------------------------------------------------------
(* Versions, lists and words. *)

LEMMA VersionsAreNats == F!MaxVersion \in Nat \ {0} /\ DOMAIN Lists = 1..F!MaxVersion
<1>1. Lists \in Seq(Seq(F!Signers)) /\ Lists # << >>
  BY HostAssumption
<1>2. Len(Lists) \in Nat /\ DOMAIN Lists = 1..Len(Lists)
  BY <1>1, LenProperties
<1>3. Len(Lists) # 0
  BY <1>1, EmptySeq
<1> QED
  BY <1>2, <1>3 DEF F!MaxVersion

LEMMA ListsAreTyped ==
  ASSUME NEW v \in 1..F!MaxVersion
  PROVE  Lists[v] \in Seq(F!Signers) /\ F!Lists_(v) \subseteq F!Signers
<1>1. Lists[v] \in Seq(F!Signers)
  BY HostAssumption, VersionsAreNats, ElementOfSeq DEF F!MaxVersion
<1>2. \A i \in DOMAIN Lists[v] : Lists[v][i] \in F!Signers
  BY <1>1, LenProperties
<1>3. v # 0
  BY VersionsAreNats
<1> QED
  BY <1>1, <1>2, <1>3 DEF F!Lists_, F!ToSet

LEMMA WordsAreTyped ==
  ASSUME NEW d \in F!Signers, NEW v \in 1..F!MaxVersion, NEW t \in Nat
  PROVE  F!WordOf(d, v, t) \in F!Word
<1>1. t + FreshSecs \in Nat
  BY HostAssumption
<1> QED
  BY <1>1 DEF F!WordOf, F!Word

\* What is sound for a version is for a later one.
LEMMA SoundLater ==
  ASSUME NEW w, NEW v \in Nat, NEW u \in Nat, v <= u, Sound(w, v)
  PROVE  Sound(w, u)
<1>1. w.version \in Nat
  BY VersionsAreNats DEF Sound, F!Word
<1> QED
  BY <1>1 DEF Sound

LEMMA SetSoundLater ==
  ASSUME NEW ws, NEW v \in Nat, NEW u \in Nat, v <= u, SoundSet(ws, v)
  PROVE  SoundSet(ws, u)
  BY SoundLater DEF SoundSet

-----------------------------------------------------------------------------
(* The sequences of a round. *)

\* A sequence without one of its places.
LEMMA RemovedAt ==
  ASSUME NEW S, NEW s \in Seq(S), NEW i \in DOMAIN s, NEW T,
         \A j \in DOMAIN s : j # i => s[j] \in T
  PROVE  F!RemoveAt(s, i) \in Seq(T)
<1>1. Len(s) \in Nat /\ DOMAIN s = 1..Len(s) /\ i \in 1..Len(s)
  BY LenProperties
<1>2. SubSeq(s, 1, i - 1) \in Seq(T)
  <2>1. \A j \in 1..(i - 1) : s[j] \in T
    BY <1>1
  <2> QED
    BY <1>1, <2>1, SubSeqProperties
<1>3. SubSeq(s, i + 1, Len(s)) \in Seq(T)
  <2>1. \A j \in (i + 1)..Len(s) : s[j] \in T
    BY <1>1
  <2> QED
    BY <1>1, <2>1, SubSeqProperties
<1> QED
  BY <1>2, <1>3, ConcatProperties DEF F!RemoveAt

LEMMA DirectoriesOfTyped ==
  ASSUME disk \in 0..F!MaxVersion
  PROVE  F!directories_of \in Seq(Dirs)
<1> DEFINE v == IF disk = 0 THEN 1 ELSE disk
           l == Lists[v]
<1>1. v \in 1..F!MaxVersion
  BY VersionsAreNats
<1>2. l \in Seq(F!Signers) /\ F!IsInjective(l)
  BY <1>1, ListsAreTyped, HostAssumption, VersionsAreNats
<1>3. Len(l) \in Nat /\ DOMAIN l = 1..Len(l) /\ \A i \in DOMAIN l : l[i] \in F!Signers
  BY <1>2, LenProperties
<1> HIDE DEF l
<1>4. CASE \E i \in DOMAIN l : l[i] = Me
  <2> DEFINE i == CHOOSE j \in DOMAIN l : l[j] = Me
  <2>1. i \in DOMAIN l /\ l[i] = Me
    BY <1>4
  <2>2. \A j \in DOMAIN l : j # i => l[j] \in Dirs
    BY <1>2, <1>3, <2>1 DEF F!IsInjective, F!Signers
  <2>3. F!RemoveAt(l, i) \in Seq(Dirs)
    BY <1>2, <2>1, <2>2, RemovedAt
  <2> QED
    BY <1>4, <2>3 DEF F!directories_of, l
<1>5. CASE ~ \E i \in DOMAIN l : l[i] = Me
  <2>1. \A i \in 1..Len(l) : l[i] \in Dirs
    BY <1>3, <1>5 DEF F!Signers
  <2>2. SubSeq(l, 1, Len(l)) \in Seq(Dirs)
    BY <1>3, <2>1, SubSeqProperties
  <2>3. l \in Seq(Dirs)
    BY <1>2, <2>2, SubSeqFull
  <2> QED
    BY <1>5, <2>3 DEF F!directories_of, l
<1> QED
  BY <1>4, <1>5

LEMMA RotatedTyped ==
  ASSUME NEW s \in Seq(Dirs), NEW d
  PROVE  F!Rotated(s, d) \in Seq(Dirs)
<1>1. Len(s) \in Nat /\ DOMAIN s = 1..Len(s) /\ \A i \in 1..Len(s) : s[i] \in Dirs
  BY LenProperties
<1>2. CASE \E i \in DOMAIN s : s[i] = d
  <2> DEFINE i == CHOOSE j \in DOMAIN s : s[j] = d
  <2>1. i \in 1..Len(s)
    BY <1>1, <1>2
  <2> HIDE DEF i
  <2>2. SubSeq(s, i, Len(s)) \in Seq(Dirs)
    <3>1. \A j \in i..Len(s) : s[j] \in Dirs
      BY <1>1, <2>1
    <3> QED
      BY <1>1, <2>1, <3>1, SubSeqProperties
  <2>3. SubSeq(s, 1, i - 1) \in Seq(Dirs)
    <3>1. \A j \in 1..(i - 1) : s[j] \in Dirs
      BY <1>1, <2>1
    <3> QED
      BY <1>1, <2>1, <3>1, SubSeqProperties
  <2>4. SubSeq(s, i, Len(s)) \o SubSeq(s, 1, i - 1) \in Seq(Dirs)
    BY <2>2, <2>3, ConcatProperties
  <2> QED
    BY <1>2, <2>4 DEF F!Rotated, i
<1>3. CASE ~ \E i \in DOMAIN s : s[i] = d
  BY <1>3 DEF F!Rotated
<1> QED
  BY <1>2, <1>3

LEMMA NextAfterTyped ==
  ASSUME NEW order \in Seq(Dirs), NEW d, \E j \in DOMAIN order : order[j] = d
  PROVE  F!next_after(order, d) \in Dirs
<1> DEFINE i == CHOOSE j \in DOMAIN order : order[j] = d
<1>1. Len(order) \in Nat /\ DOMAIN order = 1..Len(order)
  BY LenProperties
<1>2. i \in 1..Len(order)
  BY <1>1
<1> HIDE DEF i
<1>3. (i % Len(order)) + 1 \in 1..Len(order)
  <2>1. Len(order) > 0 /\ i \in Nat
    BY <1>1, <1>2
  <2>2. i % Len(order) \in 0..(Len(order) - 1)
    BY <1>1, <2>1
  <2> QED
    BY <1>1, <2>2
<1>4. order[(i % Len(order)) + 1] \in Dirs
  BY <1>3, ElementOfSeq
<1> QED
  BY <1>4 DEF F!next_after, i

-----------------------------------------------------------------------------
(* FreshSet::insert. *)

\* Whatever set it leaves has one word for each signer, and MaxFreshSet at most.
LEMMA InsertKeeps ==
  ASSUME NEW ws, NEW v \in 0..F!MaxVersion, SoundSet(ws, v), NEW w, Sound(w, v),
         NEW t \in Nat, NEW us \in F!Insert(ws, w, t)
  PROVE  SoundSet(us, v)
<1> DEFINE mine == {x \in ws : x.directory = w.directory}
           worst == {x \in ws : \A y \in ws : ~F!Outranks(x, y, t)}
<1>1. MaxFreshSet \in Nat /\ IsFiniteSet(ws) /\ Cardinality(ws) \in Nat
  BY HostAssumption, FS_CardinalityType DEF SoundSet
<1>2. CASE us = ws
  BY <1>2
<1>3. CASE us = ws \cup {w} /\ mine = {} /\ Cardinality(ws) < MaxFreshSet
  <2>1. w \notin ws
    BY <1>3
  <2>2. IsFiniteSet(us) /\ Cardinality(us) = Cardinality(ws) + 1
    BY <1>1, <1>3, <2>1, FS_AddElement
  <2>3. Cardinality(us) <= MaxFreshSet
    BY <1>1, <1>3, <2>2
  <2>4. \A x \in us : Sound(x, v)
    BY <1>3 DEF SoundSet
  <2>5. \A x, y \in us : x.directory = y.directory => x = y
    BY <1>3 DEF SoundSet
  <2> QED
    BY <2>2, <2>3, <2>4, <2>5 DEF SoundSet
<1>4. ASSUME NEW out \in ws, NEW rest, us = rest \cup {w}, rest \subseteq ws \ {out},
             \A x \in rest : x.directory # w.directory
      PROVE  SoundSet(us, v)
  <2>1. IsFiniteSet(ws \ {out}) /\ Cardinality(ws \ {out}) = Cardinality(ws) - 1
    BY <1>1, FS_RemoveElement
  <2>2. IsFiniteSet(rest) /\ Cardinality(rest) <= Cardinality(ws) - 1
    BY <1>4, <2>1, FS_Subset
  <2>3. w \notin rest
    BY <1>4
  <2>4. IsFiniteSet(us) /\ Cardinality(us) = Cardinality(rest) + 1
    BY <1>4, <2>2, <2>3, FS_AddElement
  <2>5. Cardinality(rest) \in Nat /\ Cardinality(ws) <= MaxFreshSet
    BY <2>2, FS_CardinalityType DEF SoundSet
  <2>6. Cardinality(us) <= MaxFreshSet
    BY <1>1, <2>2, <2>4, <2>5
  <2>7. \A x \in us : Sound(x, v)
    BY <1>4 DEF SoundSet
  <2>8. \A x, y \in us : x.directory = y.directory => x = y
    BY <1>4 DEF SoundSet
  <2> QED
    BY <2>4, <2>6, <2>7, <2>8 DEF SoundSet
<1>5. CASE us = (ws \ mine) \cup {w} /\ mine # {}
  <2>1. PICK out \in mine : TRUE
    BY <1>5
  <2> QED
    BY <1>4, <1>5, <2>1
<1>6. CASE \E out \in worst : us = (ws \ {out}) \cup {w} /\ mine = {}
  <2>1. PICK out \in worst : us = (ws \ {out}) \cup {w} /\ mine = {}
    BY <1>6
  <2>2. /\ out \in ws /\ ws \ {out} \subseteq ws \ {out}
        /\ \A x \in ws \ {out} : x.directory # w.directory
    BY <2>1
  <2> QED
    BY <1>4, <2>1, <2>2
<1>7. us = ws \/ (us = ws \cup {w} /\ mine = {} /\ Cardinality(ws) < MaxFreshSet)
        \/ (us = (ws \ mine) \cup {w} /\ mine # {})
        \/ \E out \in worst : us = (ws \ {out}) \cup {w} /\ mine = {}
  BY SameSizes DEF F!Insert
<1> QED
  BY <1>2, <1>3, <1>5, <1>6, <1>7

\* A word that outranks one which vouches is for the same version and current.
LEMMA OutranksVoucher ==
  ASSUME NEW v \in 0..F!MaxVersion, NEW w, Sound(w, v), NEW x, NEW t \in Nat, F!Vouches(x, v, t),
         F!Outranks(w, x, t)
  PROVE  w.version = v /\ F!IsCurrent(w, t) /\ F!Verifies(w, v)
<1>1. x.version = v /\ F!IsCurrent(x, t)
  BY DEF F!Vouches, F!Verifies
<1>2. w.version \in Nat /\ v \in Nat /\ w.version <= v
  BY VersionsAreNats DEF Sound, F!Word
<1>3. w.version = v /\ F!IsCurrent(w, t)
  BY <1>1, <1>2 DEF F!Outranks
<1> QED
  BY <1>3 DEF Sound

\* Where a word vouched, one does after: the newcomer that took its place or, the
\* newcomer being this host's own, another that was no worse.
LEMMA InsertVouches ==
  ASSUME NEW ws, NEW v \in 0..F!MaxVersion, SoundSet(ws, v), NEW w, Sound(w, v),
         NEW t \in Nat, NEW us \in F!Insert(ws, w, t), NEW x \in ws, F!Vouches(x, v, t)
  PROVE  \E y \in us : F!Vouches(y, v, t)
<1> DEFINE mine == {y \in ws : y.directory = w.directory}
           worst == {y \in ws : \A z \in ws : ~F!Outranks(y, z, t)}
<1>1. CASE x \in us
  BY <1>1
<1>2. CASE x \notin us
  <2>1. w \in us
    BY <1>2 DEF F!Insert
  <2>2. CASE mine # {}
    <3>1. x \in mine /\ F!Outranks(w, x, t)
      BY <1>2, <2>2 DEF F!Insert
    <3>2. F!Vouches(w, v, t)
      BY <3>1, OutranksVoucher DEF F!Vouches
    <3> QED
      BY <2>1, <3>2
  <2>3. CASE mine = {}
    <3>1. PICK out \in worst : us = (ws \ {out}) \cup {w}
      BY <1>2, <2>3 DEF F!Insert
    <3>2. x \in worst /\ us = (ws \ {x}) \cup {w} /\ F!Outranks(w, x, t)
                      /\ ~(Cardinality(ws) < MaxFreshSet)
      BY <1>2, <2>3, <3>1, SameSizes DEF F!Insert
    <3>3. w.version = v /\ F!IsCurrent(w, t) /\ F!Verifies(w, v)
      BY <3>2, OutranksVoucher
    <3>4. CASE w.directory # Me
      BY <2>1, <3>3, <3>4 DEF F!Vouches
    <3>5. CASE w.directory = Me
      <4>1. ws \ {x} # {}
        <5>1. SUFFICES ASSUME ws \ {x} = {} PROVE FALSE
          OBVIOUS
        <5>2. ws = {x}
          BY <5>1
        <5>3. Cardinality(ws) = 1
          BY <5>2, FS_Singleton
        <5> QED
          BY <3>2, <5>3, HostAssumption
      <4>2. PICK y \in ws : y # x
        BY <4>1
      <4>3. ~F!Outranks(x, y, t)
        BY <3>2
      <4>4. x.version = v /\ F!IsCurrent(x, t)
        BY DEF F!Vouches, F!Verifies
      <4>5. Sound(y, v)
        BY <4>2 DEF SoundSet
      <4>6. Sound(y, v) /\ y.version \in Nat /\ v \in Nat
        BY <4>5, VersionsAreNats DEF Sound, F!Word
      <4>7. y.version = v /\ F!IsCurrent(y, t)
        BY <4>3, <4>4, <4>6 DEF F!Outranks, Sound
      <4>8. F!Verifies(y, v) /\ y.directory # Me
        BY <2>3, <3>5, <4>6, <4>7 DEF Sound
      <4>9. y \in us /\ F!Vouches(y, v, t)
        BY <3>2, <4>2, <4>7, <4>8 DEF F!Vouches
      <4> QED
        BY <4>9
    <3> QED
      BY <3>4, <3>5
  <2> QED
    BY <2>2, <2>3
<1> QED
  BY <1>1, <1>2

\* Freshness::offer, of a word for a version the host holds or held.
LEMMA OfferKeeps ==
  ASSUME NEW v \in 0..F!MaxVersion, SoundSet(words, v), NEW w, Sound(w, v), now \in Nat,
         F!Offer(w, w.version)
  PROVE  SoundSet(words', v)
<1>1. CASE words' \in F!Insert(words, w, now)
  BY <1>1, InsertKeeps
<1>2. CASE words' = words
  BY <1>2
<1> QED
  BY <1>1, <1>2 DEF F!Offer

LEMMA OfferVouches ==
  ASSUME NEW v \in 0..F!MaxVersion, SoundSet(words, v), NEW w, Sound(w, v), now \in Nat,
         F!Offer(w, w.version), NEW x \in words, F!Vouches(x, v, now)
  PROVE  \E y \in words' : F!Vouches(y, v, now)
<1>1. CASE words' \in F!Insert(words, w, now)
  BY <1>1, InsertVouches
<1>2. CASE words' = words
  BY <1>2
<1> QED
  BY <1>1, <1>2 DEF F!Offer

-----------------------------------------------------------------------------
(* The steps of the world. *)

LEMMA WorldSteps ==
  ASSUME FollowInv,
         F!Tick \/ F!Sign \/ \E d \in Dirs : F!Publish(d) \/ F!Stop(d) \/ F!StartAgain(d)
  PROVE  FollowInv'
<1> USE DEF FollowInv
<1>1. CASE \/ UNCHANGED <<newest, disk, own, words, run, pipe, local>>
  <2>1. WorldTyped'
    <3>1. MaxTime \in Nat /\ MaxFaults \in Nat /\ F!MaxVersion \in Nat
      BY HostAssumption, VersionsAreNats
    <3>2. CASE F!Tick
      BY <3>1, <3>2 DEF F!Tick, WorldTyped
    <3>3. CASE \E d \in Dirs : F!Publish(d) \/ F!Stop(d) \/ F!StartAgain(d)
      BY <3>1, <3>3 DEF F!Publish, F!Stop, F!StartAgain, WorldTyped
    <3>4. CASE F!Sign
      BY <1>1, <3>1, <3>4 DEF F!Sign, WorldTyped
    <3> QED
      BY <3>2, <3>3, <3>4
  <2>2. HostTyped'
    BY <1>1 DEF HostTyped, F!Lists_
  <2>3. SoundSet(words, disk)'
    BY <1>1
  <2>4. FramesSound'
    BY <1>1 DEF FramesSound
  <2>5. RoundOrdered'
    BY <1>1 DEF RoundOrdered, F!OnStream
  <2> QED
    BY <2>1, <2>2, <2>3, <2>4, <2>5
<1>2. CASE F!Sign
  <2>1. newest \in 1..F!MaxVersion /\ newest < F!MaxVersion /\ newest' = newest + 1
    BY <1>2 DEF F!Sign, WorldTyped
  <2>2. newest \in Nat /\ newest' \in Nat /\ newest <= newest' /\ newest' \in 1..F!MaxVersion
    BY <2>1, VersionsAreNats
  <2>3. UNCHANGED <<now, holds, up, disk, own, words, run, pipe, local, faults>>
    BY <1>2 DEF F!Sign
  <2>4. WorldTyped'
    <3>1. holds \in [Dirs -> 0..newest']
      BY <2>2 DEF WorldTyped
    <3> QED
      BY <2>2, <2>3, <3>1 DEF WorldTyped
  <2>5. HostTyped'
    BY <2>2, <2>3 DEF HostTyped, F!Lists_
  <2>6. SoundSet(words, disk)'
    BY <2>3
  <2>7. FramesSound'
    <3>1. \A w : Sound(w, newest) => Sound(w, newest')
      BY <2>2, SoundLater
    <3> QED
      BY <2>3, <3>1 DEF FramesSound
  <2>8. RoundOrdered'
    BY <2>2, <2>3 DEF RoundOrdered, F!OnStream, Rounds
  <2> QED
    BY <2>4, <2>5, <2>6, <2>7, <2>8
<1> QED
  BY <1>1, <1>2 DEF F!Tick, F!Publish, F!Stop, F!StartAgain

-----------------------------------------------------------------------------
(* The follower's steps. *)

\* The directory followed, and where the next round starts if it is passed over.
LEMMA FollowedTyped ==
  ASSUME RoundOrdered, run.left # << >>
  PROVE  /\ F!Followed \in Dirs
         /\ Tail(run.left) \in Seq(Dirs)
         /\ F!next_after(run.order, F!Followed) \in Dirs
         /\ \A i \in DOMAIN Tail(run.left) : \E j \in DOMAIN run.order :
              run.order[j] = Tail(run.left)[i]
<1>1. run.left \in Seq(Dirs) /\ run.order \in Seq(Dirs)
  BY DEF RoundOrdered, Rounds
<1>2. /\ Len(run.left) \in Nat /\ DOMAIN run.left = 1..Len(run.left) /\ Len(run.left) # 0
  BY <1>1, LenProperties, EmptySeq
<1>3. F!Followed = run.left[1] /\ 1 \in DOMAIN run.left
  BY <1>1, <1>2 DEF F!Followed
<1>4. Tail(run.left) \in Seq(Dirs) /\ Len(Tail(run.left)) = Len(run.left) - 1
        /\ \A i \in 1..Len(Tail(run.left)) : Tail(run.left)[i] = run.left[i + 1]
  BY <1>1, HeadTailProperties
<1>5. DOMAIN Tail(run.left) = 1..(Len(run.left) - 1)
  BY <1>4, LenProperties
<1>6. F!next_after(run.order, F!Followed) \in Dirs
  BY <1>1, <1>3, NextAfterTyped DEF RoundOrdered
<1>7. \A i \in DOMAIN Tail(run.left) : i + 1 \in DOMAIN run.left /\ Tail(run.left)[i] = run.left[i + 1]
  BY <1>2, <1>4, <1>5
<1>8. F!Followed \in Dirs
  BY <1>1, <1>3, ElementOfSeq, <1>2
<1> QED
  BY <1>4, <1>6, <1>7, <1>8 DEF RoundOrdered

\* A directory's frame carries a sound word for what it holds, or is a denial.
LEMMA FrameSound ==
  ASSUME FollowInv, F!OnStream
  PROVE  /\ F!Frame \in Frames
         /\ F!Frame.denied \/ Sound(F!Frame.word, newest)
         /\ F!Frame.word.version \in 0..newest
<1> DEFINE d == F!Followed
           v == holds[d]
<1>1. d \in Dirs /\ v \in 0..newest /\ newest \in 1..F!MaxVersion /\ d \in F!Signers
  BY FollowedTyped DEF FollowInv, RoundOrdered, WorldTyped, F!Signers
<1>2. F!Clock(d) \in Nat /\ 0 \in Nat
  BY <1>1, HostAssumption DEF F!Clock, FollowInv, WorldTyped
<1> HIDE DEF d, v
<1>3. CASE v = 0 \/ d \notin F!Lists_(v)
  <2>1. F!Frame = F!NoFrame
    BY <1>3 DEF F!Frame, d, v
  <2>2. F!WordOf(Me, 1, 0) \in F!Word
    BY WordsAreTyped, VersionsAreNats DEF F!Signers
  <2>3. F!WordOf(Me, 1, 0).version = 1
    BY DEF F!WordOf
  <2> QED
    BY <1>1, <2>1, <2>2, <2>3, VersionsAreNats DEF F!NoFrame, Frames
<1>4. CASE ~(v = 0 \/ d \notin F!Lists_(v))
  <2> DEFINE w == F!WordOf(d, v, F!Clock(d))
  <2>1. F!Frame = [policy |-> v > run.sent, word |-> w, denied |-> FALSE]
    BY <1>4 DEF F!Frame, d, v
  <2>2. v \in 1..F!MaxVersion /\ v <= newest
    BY <1>1, <1>4, VersionsAreNats
  <2>3. w \in F!Word
    BY <1>1, <1>2, <2>2, WordsAreTyped
  <2>4. w.version = v /\ w.directory = d
    BY DEF F!WordOf
  <2>5. Sound(w, newest)
    BY <1>4, <2>2, <2>3, <2>4 DEF Sound, F!Verifies
  <2> HIDE DEF w
  <2> QED
    BY <1>1, <2>1, <2>3, <2>4, <2>5 DEF Frames
<1> QED
  BY <1>3, <1>4

\* What every step of the follower that leaves the host's state alone must show.
LEMMA FollowerMoves ==
  ASSUME FollowInv, UNCHANGED <<now, newest, holds, up, disk, own, words, local>>,
         faults' \in 0..MaxFaults, FramesSound', RoundOrdered'
  PROVE  FollowInv'
<1>1. WorldTyped' /\ HostTyped' /\ SoundSet(words, disk)'
  BY DEF FollowInv, WorldTyped, HostTyped, F!Lists_
<1> QED
  BY <1>1 DEF FollowInv

LEMMA RoundSteps ==
  ASSUME FollowInv, F!BeginRound \/ F!EndRound
  PROVE  FollowInv'
<1> USE DEF FollowInv
<1>1. UNCHANGED <<now, newest, holds, up, disk, own, words, local, pipe, faults>>
  BY DEF F!BeginRound, F!EndRound, F!network
<1>2. run \in Rounds /\ run' \in Rounds /\ ~F!OnStream' /\ run'.read = run.read
        /\ run'.sent = run.sent
        /\ \A i \in DOMAIN run'.left : \E j \in DOMAIN run'.order : run'.order[j] = run'.left[i]
  <2>1. CASE F!EndRound
    BY <2>1 DEF F!EndRound, RoundOrdered, Rounds, F!Places, F!OnStream
  <2>2. CASE F!BeginRound
    <3> DEFINE order == F!Rotated(F!directories_of, run.last)
    <3>1. order \in Seq(Dirs)
      <4>1. disk \in 0..F!MaxVersion
        BY VersionsAreNats DEF HostTyped, WorldTyped
      <4> QED
        BY <4>1, DirectoriesOfTyped, RotatedTyped
    <3>2. run' = [run EXCEPT !.at = "round", !.order = order, !.left = order]
      BY <2>2 DEF F!BeginRound
    <3> HIDE DEF order
    <3>3. run \in Rounds
      BY DEF RoundOrdered
    <3>4. run'.left = order /\ run'.order = order /\ run'.at = "round"
            /\ run'.read = run.read /\ run'.sent = run.sent
      BY <3>2, <3>3 DEF Rounds
    <3>5. run' \in Rounds
      BY <3>1, <3>2, <3>3 DEF Rounds, F!Places
    <3> QED
      BY <3>3, <3>4, <3>5 DEF F!OnStream
  <2> QED
    BY <2>1, <2>2
<1>3. RoundOrdered'
  BY <1>1, <1>2 DEF RoundOrdered
<1>4. FramesSound'
  BY <1>1, <1>2 DEF FramesSound, F!OnStream
<1> QED
  BY <1>1, <1>3, <1>4, FollowerMoves DEF WorldTyped

\* A directory the follower is done with: passed over, silent or closed.
LEMMA LeavesDirectory ==
  ASSUME RoundOrdered, run.left # << >>, newest' = newest,
         run' = F!PassOver \/ run' = F!Closed \/ run' = [run EXCEPT !.at = "round", !.left = Tail(@)]
  PROVE  RoundOrdered' /\ run'.at \in {"round", "asleep"}
<1> DEFINE left == Tail(run.left)
           next == F!next_after(run.order, F!Followed)
<1>1. run \in Rounds
  BY DEF RoundOrdered
<1>2. F!Followed \in Dirs /\ left \in Seq(Dirs) /\ next \in Dirs
        /\ \A i \in DOMAIN left : \E j \in DOMAIN run.order : run.order[j] = left[i]
  BY FollowedTyped
<1>3. F!Followed \in F!Signers /\ next \in F!Signers
  BY <1>2 DEF F!Signers
<1> HIDE DEF left, next
<1>4. CASE run' = F!PassOver \/ run' = [run EXCEPT !.at = "round", !.left = Tail(@)]
  <2>1. run' \in Rounds
    BY <1>1, <1>2, <1>3, <1>4 DEF F!PassOver, Rounds, F!Places, left, next
  <2>2. run'.left = left /\ run'.order = run.order /\ run'.at = "round"
          /\ run'.read = run.read /\ run'.sent = run.sent
    BY <1>1, <1>4 DEF F!PassOver, Rounds, left
  <2> QED
    BY <1>2, <2>1, <2>2 DEF RoundOrdered, F!OnStream
<1>5. CASE run' = F!Closed
  <2>1. << >> \in Seq(Dirs) /\ DOMAIN << >> = {}
    OBVIOUS
  <2>2. run' \in Rounds
    BY <1>1, <1>3, <1>5, <2>1 DEF F!Closed, Rounds, F!Places
  <2>3. run'.left = << >> /\ run'.order = run.order /\ run'.at = "asleep"
          /\ run'.read = run.read /\ run'.sent = run.sent
    BY <1>1, <1>5 DEF F!Closed, Rounds
  <2> QED
    BY <2>1, <2>2, <2>3 DEF RoundOrdered, F!OnStream
<1> QED
  BY <1>4, <1>5

\* The follower stays with its directory.
LEMMA StaysWithDirectory ==
  ASSUME RoundOrdered, run.left # << >>, newest' = newest, NEW r, r \in Rounds, run' = r,
         r.left = run.left, r.order = run.order, r.read <= newest, r.sent <= newest
  PROVE  RoundOrdered'
  BY DEF RoundOrdered, F!OnStream

\* With no frame on its way or in hand there is none to be sound.
LEMMA EmptyPipe ==
  ASSUME pipe' = << >>, run'.at \in {"round", "asleep", "stream"}
  PROVE  FramesSound'
<1>1. << >> \in Seq(Frames) /\ Len(<< >>) = 0 /\ DOMAIN << >> = {}
  BY EmptySeq
<1> QED
  BY <1>1 DEF FramesSound

LEMMA DialStep ==
  ASSUME FollowInv, F!Dial
  PROVE  FollowInv'
<1> USE DEF FollowInv
<1>1. UNCHANGED <<now, newest, holds, up, disk, own, words, local, faults>> /\ pipe' = << >>
        /\ run.left # << >> /\ run.at = "round"
  BY DEF F!Dial, F!network
<1>2. CASE Head(run.left) \in up
  <2> DEFINE r == [run EXCEPT !.at = "stream", !.answered = FALSE, !.sent = disk]
  <2>1. run' = r
    BY <1>2 DEF F!Dial
  <2>2. run \in Rounds /\ run.read <= newest
    BY DEF RoundOrdered
  <2>3. disk \in 0..F!MaxVersion /\ disk <= newest
    BY VersionsAreNats DEF HostTyped, WorldTyped
  <2>4. r \in Rounds
    BY <2>2, <2>3 DEF Rounds, F!Places
  <2>5. r.left = run.left /\ r.order = run.order /\ r.read = run.read /\ r.sent = disk
          /\ r.at = "stream"
    BY <2>2 DEF Rounds
  <2> HIDE DEF r
  <2>6. RoundOrdered'
    BY <1>1, <2>1, <2>2, <2>3, <2>4, <2>5, StaysWithDirectory
  <2>7. FramesSound'
    BY <1>1, <2>1, <2>5, EmptyPipe
  <2> QED
    BY <1>1, <2>6, <2>7, FollowerMoves DEF WorldTyped
<1>3. CASE Head(run.left) \notin up
  <2>1. run' = [run EXCEPT !.left = Tail(@)]
    BY <1>3 DEF F!Dial
  <2>2. run' = [run EXCEPT !.at = "round", !.left = Tail(@)]
    BY <1>1, <2>1 DEF RoundOrdered, Rounds
  <2>3. RoundOrdered' /\ run'.at \in {"round", "asleep"}
    BY <1>1, <2>2, LeavesDirectory
  <2>4. FramesSound'
    BY <1>1, <2>3, EmptyPipe
  <2> QED
    BY <1>1, <2>3, <2>4, FollowerMoves DEF WorldTyped
<1> QED
  BY <1>2, <1>3

LEMMA PushStep ==
  ASSUME FollowInv, F!Push
  PROVE  FollowInv'
<1> USE DEF FollowInv
<1> DEFINE sent == IF F!Frame.policy THEN F!Frame.word.version ELSE run.sent
           r == [run EXCEPT !.sent = sent]
<1>1. UNCHANGED <<now, newest, holds, up, disk, own, words, local, faults>>
        /\ pipe' = <<F!Frame>> /\ run' = r /\ F!OnStream
  <2>1. run' = [run EXCEPT !.sent = IF F!Frame.policy THEN F!Frame.word.version ELSE @]
    BY DEF F!Push
  <2>2. run \in Rounds
    BY DEF RoundOrdered
  <2>3. run' = r
    BY <2>1, <2>2 DEF Rounds
  <2> QED
    BY <2>3 DEF F!Push, F!network
<1>2. F!Frame \in Frames /\ (F!Frame.denied \/ Sound(F!Frame.word, newest))
        /\ F!Frame.word.version \in 0..newest
  BY <1>1, FrameSound
<1>3. run \in Rounds /\ run.read <= newest /\ run.left # << >>
  BY <1>1 DEF RoundOrdered
<1>4. sent \in 0..F!MaxVersion /\ sent <= newest
  BY <1>2, <1>3, VersionsAreNats DEF RoundOrdered, WorldTyped, Rounds
<1> HIDE DEF sent
<1>5. r \in Rounds /\ r.left = run.left /\ r.order = run.order /\ r.read = run.read
        /\ r.sent = sent /\ r.at = run.at /\ r.frame = run.frame
  BY <1>3, <1>4 DEF Rounds
<1> HIDE DEF r
<1>6. RoundOrdered'
  BY <1>1, <1>3, <1>4, <1>5, StaysWithDirectory
<1>7. FramesSound'
  <2> DEFINE f == F!Frame
  <2>1. f \in Frames /\ (f.denied \/ Sound(f.word, newest)) /\ pipe' = <<f>>
    BY <1>1, <1>2
  <2> HIDE DEF f
  <2>2. <<f>> \in Seq(Frames) /\ Len(<<f>>) = 1 /\ DOMAIN <<f>> = {1} /\ <<f>>[1] = f
    BY <2>1
  <2>3. \A i \in DOMAIN pipe' : pipe'[i].denied \/ Sound(pipe'[i].word, newest')
    BY <1>1, <2>1, <2>2
  <2>4. pipe' \in Seq(Frames) /\ Len(pipe') <= 1
    BY <2>1, <2>2
  <2> QED
    BY <1>1, <1>5, <2>3, <2>4 DEF FramesSound
<1> QED
  BY <1>1, <1>6, <1>7, FollowerMoves DEF WorldTyped

LEMMA ReceiveStep ==
  ASSUME FollowInv, F!Receive
  PROVE  FollowInv'
<1> USE DEF FollowInv
<1> DEFINE f == Head(pipe)
           r == [run EXCEPT !.at = "checked", !.answered = TRUE, !.frame = f]
<1>1. UNCHANGED <<now, newest, holds, up, disk, own, words, local, faults>>
        /\ pipe' = << >> /\ pipe # << >> /\ run.at = "stream"
  BY DEF F!Receive, F!network
<1>2. run \in Rounds /\ run.read <= newest /\ run.sent <= newest /\ run.left # << >>
  BY <1>1 DEF RoundOrdered, F!OnStream
<1>3. f \in Frames /\ (f.denied \/ Sound(f.word, newest))
  <2>1. pipe \in Seq(Frames)
    BY DEF FramesSound
  <2>2. 1 \in DOMAIN pipe /\ f = pipe[1]
    BY <1>1, <2>1
  <2> QED
    BY <1>1, <2>1, <2>2, HeadTailProperties DEF FramesSound
<1>4. CASE f.denied \/ f.word.version < disk
  <2>1. run' = F!PassOver
    BY <1>4 DEF F!Receive
  <2>2. RoundOrdered' /\ run'.at \in {"round", "asleep"}
    BY <1>1, <1>2, <2>1, LeavesDirectory
  <2>3. FramesSound'
    BY <1>1, <2>2, EmptyPipe
  <2> QED
    BY <1>1, <2>2, <2>3, FollowerMoves DEF WorldTyped
<1>5. CASE ~(f.denied \/ f.word.version < disk)
  <2>1. run' = r
    BY <1>5 DEF F!Receive
  <2> HIDE DEF f
  <2>2. r \in Rounds
    BY <1>2, <1>3 DEF Rounds, F!Places
  <2>3. r.left = run.left /\ r.order = run.order /\ r.read = run.read /\ r.sent = run.sent
          /\ r.at = "checked" /\ r.frame = f
    BY <1>2 DEF Rounds
  <2> HIDE DEF r
  <2>4. RoundOrdered'
    BY <1>1, <1>2, <2>1, <2>2, <2>3, StaysWithDirectory
  <2>5. FramesSound'
    <3>1. << >> \in Seq(Frames) /\ Len(<< >>) = 0 /\ DOMAIN << >> = {}
      BY EmptySeq
    <3> QED
      BY <1>1, <1>3, <1>5, <2>1, <2>3, <3>1 DEF FramesSound
  <2> QED
    BY <1>1, <2>4, <2>5, FollowerMoves DEF WorldTyped
<1> QED
  BY <1>4, <1>5

LEMMA LosingSteps ==
  ASSUME FollowInv, F!Lose \/ F!Drop
  PROVE  FollowInv'
<1> USE DEF FollowInv
<1>1. UNCHANGED <<now, newest, holds, up, disk, own, words, local>> /\ pipe' = << >>
        /\ run.at = "stream" /\ faults' \in 0..MaxFaults
        /\ (run' = F!Closed \/ run' = [run EXCEPT !.at = "round", !.left = Tail(@)])
  BY HostAssumption DEF F!Lose, F!Drop, F!network, WorldTyped
<1>2. run.left # << >>
  BY <1>1 DEF RoundOrdered, F!OnStream
<1>3. RoundOrdered' /\ run'.at \in {"round", "asleep"}
  BY <1>1, <1>2, LeavesDirectory
<1>4. FramesSound'
  BY <1>1, <1>3, EmptyPipe
<1> QED
  BY <1>1, <1>3, <1>4, FollowerMoves

-----------------------------------------------------------------------------
(* The steps that change what the host holds or shows. *)

\* A host that comes to hold a newer version still has what it had.
LEMMA HoldsMore ==
  ASSUME FollowInv, UNCHANGED <<now, newest, holds, up, words, local, faults>>,
         disk' \in 0..newest, disk <= disk', own' \in {-1} \cup 0..MaxTime,
         own' # -1 => disk' # 0 /\ Me \in F!Lists_(disk')
  PROVE  WorldTyped' /\ HostTyped' /\ SoundSet(words, disk)'
<1> USE DEF FollowInv
<1>1. disk \in Nat /\ disk' \in Nat
  BY VersionsAreNats DEF HostTyped, WorldTyped
<1>2. WorldTyped'
  BY DEF WorldTyped
<1>3. \A w : Sound(w, disk) => Sound(w, disk')
  BY <1>1, SoundLater
<1>4. HostTyped'
  <2>1. \A w \in local' : Sound(w, disk')
    BY <1>3 DEF HostTyped
  <2>2. F!Lists_(disk)' = F!Lists_(disk')
    BY DEF F!Lists_
  <2> QED
    BY <2>1, <2>2 DEF HostTyped
<1>5. SoundSet(words, disk)'
  BY <1>1, SetSoundLater
<1> QED
  BY <1>2, <1>4, <1>5

LEMMA AdoptStep ==
  ASSUME FollowInv, F!Adopt
  PROVE  FollowInv'
<1> USE DEF FollowInv
<1> DEFINE f == run.frame
           kept == IF f.policy THEN F!Adopted(f.word.version) ELSE disk
           r == [run EXCEPT !.at = "adopted", !.read = kept]
<1>1. UNCHANGED <<now, newest, holds, up, faults, words, pipe, local>> /\ run.at = "checked"
        /\ disk' = kept /\ run' = r
  BY DEF F!Adopt, F!network
<1>2. Sound(f.word, newest) /\ run \in Rounds /\ run.left # << >> /\ run.sent <= newest
  BY <1>1 DEF FramesSound, RoundOrdered, F!OnStream
<1>3. f.word.version \in 1..F!MaxVersion /\ f.word.version <= newest
  BY <1>2 DEF Sound, F!Word
<1>4. disk \in 0..newest /\ newest \in 1..F!MaxVersion /\ newest \in Nat /\ disk \in Nat
  BY VersionsAreNats DEF HostTyped, WorldTyped
<1>5. kept \in 0..newest /\ disk <= kept /\ kept \in Nat /\ kept \in 0..F!MaxVersion
  BY <1>3, <1>4, VersionsAreNats DEF F!Adopted
<1>6. own' \in {-1} \cup 0..MaxTime /\ (own' # -1 => disk' # 0 /\ Me \in F!Lists_(disk'))
  <2>1. own' = IF OwnDirectory /\ disk' # disk /\ Me \in F!Lists_(disk') THEN now
               ELSE IF disk' # disk THEN -1 ELSE own
    BY DEF F!Adopt
  <2>2. disk' # disk => disk' # 0
    BY <1>1, <1>4, <1>5
  <2>3. disk' = disk => F!Lists_(disk') = F!Lists_(disk)
    OBVIOUS
  <2> QED
    BY <2>1, <2>2, <2>3 DEF HostTyped, WorldTyped
<1> HIDE DEF kept, f
<1>7. WorldTyped' /\ HostTyped' /\ SoundSet(words, disk)'
  BY <1>1, <1>5, <1>6, HoldsMore
<1>8. r \in Rounds
  BY <1>2, <1>5 DEF Rounds, F!Places
<1>9. r.left = run.left /\ r.order = run.order /\ r.read = kept /\ r.sent = run.sent
        /\ r.at = "adopted" /\ r.frame = f
  BY <1>2 DEF Rounds, f
<1> HIDE DEF r
<1>10. RoundOrdered'
  BY <1>1, <1>2, <1>4, <1>5, <1>8, <1>9, StaysWithDirectory
<1>11. FramesSound'
  BY <1>1, <1>2, <1>4, <1>5, <1>9 DEF FramesSound
<1> QED
  BY <1>7, <1>10, <1>11

LEMMA VouchStep ==
  ASSUME FollowInv, F!Vouch
  PROVE  FollowInv'
<1> USE DEF FollowInv
<1> DEFINE w == run.frame.word
           r == [run EXCEPT !.at = "stream"]
<1>1. UNCHANGED <<now, newest, holds, up, faults, disk, own, pipe, local>> /\ run.at = "adopted"
        /\ (words' = words \/ (F!Offer(w, w.version) /\ w.version = run.read))
        /\ (run' = r \/ run' = F!Closed)
  BY DEF F!Vouch, F!network
<1>2. Sound(w, newest) /\ run \in Rounds /\ run.left # << >> /\ run.sent <= newest
        /\ run.read <= newest /\ run.read <= disk
  BY <1>1 DEF FramesSound, RoundOrdered, F!OnStream
<1>3. now \in Nat /\ disk \in 0..F!MaxVersion
  BY VersionsAreNats, HostAssumption DEF HostTyped, WorldTyped
<1>4. SoundSet(words', disk)
  <2>1. CASE words' = words
    BY <2>1
  <2>2. CASE F!Offer(w, w.version) /\ w.version = run.read
    <3>1. Sound(w, disk)
      BY <1>2, <2>2 DEF Sound
    <3> HIDE DEF w
    <3> QED
      BY <1>3, <2>2, <3>1, OfferKeeps
  <2> QED
    BY <1>1, <2>1, <2>2
<1>5. WorldTyped' /\ HostTyped'
  BY <1>1 DEF WorldTyped, HostTyped, F!Lists_
<1>6. RoundOrdered' /\ run'.at \in {"round", "asleep", "stream"}
  <2>1. CASE run' = F!Closed
    BY <1>1, <1>2, <2>1, LeavesDirectory
  <2>2. CASE run' = r
    <3>1. r \in Rounds /\ r.left = run.left /\ r.order = run.order /\ r.read = run.read
            /\ r.sent = run.sent /\ r.at = "stream"
      BY <1>2 DEF Rounds, F!Places
    <3> HIDE DEF r
    <3> QED
      BY <1>1, <1>2, <2>2, <3>1, StaysWithDirectory
  <2> QED
    BY <1>1, <2>1, <2>2
<1>7. FramesSound'
  BY <1>1, <1>6 DEF FramesSound
<1> QED
  BY <1>1, <1>4, <1>5, <1>6, <1>7

LEMMA OwnDirectorySteps ==
  ASSUME FollowInv, F!LocalPublish \/ F!LocalBeat
  PROVE  FollowInv'
<1> USE DEF FollowInv
<1>1. UNCHANGED <<now, newest, holds, up, faults, words, run, pipe, local>>
        /\ (disk' = newest \/ disk' = disk)
        /\ (own' = now \/ own' = -1)
        /\ (own' = now => Me \in F!Lists_(disk'))
        /\ now # -1
  BY HostAssumption DEF F!LocalPublish, F!LocalBeat, F!network, WorldTyped
<1>2. disk \in 0..newest /\ newest \in 1..F!MaxVersion /\ newest \in Nat /\ disk \in Nat
        /\ now \in 0..MaxTime
  BY VersionsAreNats DEF HostTyped, WorldTyped
<1>3. disk' \in 0..newest /\ disk <= disk'
  BY <1>1, <1>2
<1>4. Me \in F!Lists_(disk') => disk' # 0
  BY DEF F!Lists_
<1>5. WorldTyped' /\ HostTyped' /\ SoundSet(words, disk)'
  BY <1>1, <1>2, <1>3, <1>4, HoldsMore
<1>6. FramesSound'
  <2>1. run.at = "adopted" => run.read <= disk'
    BY <1>2, <1>3 DEF FramesSound, RoundOrdered, Rounds
  <2> QED
    BY <1>1, <2>1 DEF FramesSound
<1>7. RoundOrdered'
  BY <1>1 DEF RoundOrdered, F!OnStream
<1> QED
  BY <1>5, <1>6, <1>7

LEMMA LocalReadStep ==
  ASSUME FollowInv, F!LocalRead
  PROVE  FollowInv'
<1> USE DEF FollowInv
<1>1. UNCHANGED <<now, newest, holds, up, faults, disk, own, words, run, pipe>>
        /\ local' = {F!WordOf(Me, disk, own)} /\ own # -1
  BY DEF F!LocalRead, F!network
<1>2. disk \in 1..F!MaxVersion /\ own \in Nat /\ Me \in F!Lists_(disk)
  BY <1>1, VersionsAreNats, HostAssumption DEF HostTyped, WorldTyped
<1>3. Sound(F!WordOf(Me, disk, own), disk)
  <2>1. F!WordOf(Me, disk, own) \in F!Word
    BY <1>2, WordsAreTyped DEF F!Signers
  <2>2. F!WordOf(Me, disk, own).version = disk /\ F!WordOf(Me, disk, own).directory = Me
    BY DEF F!WordOf
  <2> QED
    BY <1>2, <2>1, <2>2 DEF Sound, F!Verifies
<1>4. WorldTyped' /\ HostTyped' /\ SoundSet(words, disk)'
  BY <1>1, <1>3 DEF WorldTyped, HostTyped, F!Lists_
<1>5. FramesSound' /\ RoundOrdered'
  BY <1>1 DEF FramesSound, RoundOrdered, F!OnStream
<1> QED
  BY <1>4, <1>5

LEMMA LocalOfferStep ==
  ASSUME FollowInv, F!LocalOffer
  PROVE  FollowInv'
<1> USE DEF FollowInv
<1>1. PICK w \in local : F!Offer(w, w.version) /\ local' = {}
                           /\ UNCHANGED <<now, newest, holds, up, faults, disk, own, run, pipe>>
  BY DEF F!LocalOffer, F!network
<1>2. Sound(w, disk) /\ now \in Nat /\ disk \in 0..F!MaxVersion
  BY VersionsAreNats, HostAssumption DEF HostTyped, WorldTyped
<1>3. SoundSet(words', disk)
  BY <1>1, <1>2, OfferKeeps
<1>4. WorldTyped' /\ HostTyped'
  BY <1>1 DEF WorldTyped, HostTyped, F!Lists_
<1>5. FramesSound' /\ RoundOrdered'
  BY <1>1 DEF FramesSound, RoundOrdered, F!OnStream
<1> QED
  BY <1>1, <1>3, <1>4, <1>5

LEMMA AtRestOrdered ==
  ASSUME run' = F!AtRest, newest' \in 1..F!MaxVersion
  PROVE  RoundOrdered' /\ run'.at = "asleep"
<1>1. F!WordOf(Me, 1, 0) \in F!Word
  BY WordsAreTyped, VersionsAreNats DEF F!Signers
<1>2. F!NoFrame \in Frames
  BY <1>1 DEF F!NoFrame, Frames
<1>3. << >> \in Seq(Dirs) /\ DOMAIN << >> = {}
  OBVIOUS
<1>4. F!AtRest \in Rounds
  BY <1>2, <1>3, VersionsAreNats DEF F!AtRest, Rounds, F!Places, F!Signers
<1> QED
  BY <1>3, <1>4, VersionsAreNats DEF F!AtRest, RoundOrdered, F!OnStream

LEMMA RestartStep ==
  ASSUME FollowInv, F!Restart
  PROVE  FollowInv'
<1> USE DEF FollowInv
<1>1. UNCHANGED <<now, newest, holds, up, disk>> /\ run' = F!AtRest /\ pipe' = << >> /\ local' = {}
        /\ words' \subseteq words
        /\ own' = (IF OwnDirectory /\ Me \in F!Lists_(disk) THEN now ELSE -1)
        /\ faults < MaxFaults /\ faults' = faults + 1
  BY DEF F!Restart
<1>2. WorldTyped'
  BY <1>1, HostAssumption DEF WorldTyped
<1>3. HostTyped'
  <2>1. Me \in F!Lists_(disk) => disk # 0
    BY DEF F!Lists_
  <2> QED
    BY <1>1, <2>1 DEF HostTyped, WorldTyped, F!Lists_
<1>4. SoundSet(words', disk)
  <2>1. IsFiniteSet(words') /\ Cardinality(words') <= Cardinality(words)
    BY <1>1, FS_Subset DEF SoundSet
  <2>2. Cardinality(words') \in Nat /\ Cardinality(words) \in Nat /\ MaxFreshSet \in Nat
    BY <2>1, FS_CardinalityType, HostAssumption DEF SoundSet
  <2>3. Cardinality(words') <= MaxFreshSet
    BY <2>1, <2>2 DEF SoundSet
  <2> QED
    BY <1>1, <2>1, <2>3 DEF SoundSet
<1>5. RoundOrdered' /\ run'.at = "asleep"
  BY <1>1, AtRestOrdered DEF WorldTyped
<1>6. FramesSound'
  BY <1>1, <1>5, EmptyPipe
<1> QED
  BY <1>1, <1>2, <1>3, <1>4, <1>5, <1>6

-----------------------------------------------------------------------------
(* FollowInv holds at first, every step keeps it, and it implies what the  *)
(* run checks.                                                             *)

LEMMA FollowInvInit ==
  F!Init => FollowInv
<1> SUFFICES ASSUME F!Init PROVE FollowInv
  OBVIOUS
<1> USE DEF F!Init
<1>1. WorldTyped
  BY VersionsAreNats, HostAssumption DEF WorldTyped
<1>2. HostTyped
  BY DEF HostTyped
<1>3. SoundSet(words, disk)
  BY FS_EmptySet, HostAssumption DEF SoundSet
<1>4. RoundOrdered /\ run.at = "asleep"
  <2>1. F!WordOf(Me, 1, 0) \in F!Word
    BY WordsAreTyped, VersionsAreNats DEF F!Signers
  <2>2. F!NoFrame \in Frames
    BY <2>1 DEF F!NoFrame, Frames
  <2>3. << >> \in Seq(Dirs) /\ DOMAIN << >> = {}
    OBVIOUS
  <2>4. F!AtRest \in Rounds
    BY <2>2, <2>3, VersionsAreNats DEF F!AtRest, Rounds, F!Places, F!Signers
  <2> QED
    BY <2>3, <2>4, VersionsAreNats DEF F!AtRest, RoundOrdered, F!OnStream
<1>5. FramesSound
  <2>1. << >> \in Seq(Frames) /\ Len(<< >>) = 0 /\ DOMAIN << >> = {}
    BY EmptySeq
  <2> QED
    BY <1>4, <2>1 DEF FramesSound
<1> QED
  BY <1>1, <1>2, <1>3, <1>4, <1>5 DEF FollowInv

LEMMA FollowInvStep ==
  FollowInv /\ [F!Next]_F!vars => FollowInv'
<1> SUFFICES ASSUME FollowInv, [F!Next]_F!vars PROVE FollowInv'
  OBVIOUS
<1>1. CASE F!Tick \/ F!Sign \/ \E d \in Dirs : F!Publish(d) \/ F!Stop(d) \/ F!StartAgain(d)
  BY <1>1, WorldSteps
<1>2. CASE F!BeginRound \/ F!EndRound
  BY <1>2, RoundSteps
<1>3. CASE F!Dial
  BY <1>3, DialStep
<1>4. CASE F!Push
  BY <1>4, PushStep
<1>5. CASE F!Receive
  BY <1>5, ReceiveStep
<1>6. CASE F!Adopt
  BY <1>6, AdoptStep
<1>7. CASE F!Vouch
  BY <1>7, VouchStep
<1>8. CASE F!Lose \/ F!Drop
  BY <1>8, LosingSteps
<1>9. CASE F!LocalPublish \/ F!LocalBeat
  BY <1>9, OwnDirectorySteps
<1>10. CASE F!LocalRead
  BY <1>10, LocalReadStep
<1>11. CASE F!LocalOffer
  BY <1>11, LocalOfferStep
<1>12. CASE F!Restart
  BY <1>12, RestartStep
<1>13. CASE UNCHANGED F!vars
  BY <1>13 DEF F!vars, FollowInv, WorldTyped, HostTyped, FramesSound, RoundOrdered,
               F!OnStream, F!Lists_
<1> QED
  BY <1>1, <1>2, <1>3, <1>4, <1>5, <1>6, <1>7, <1>8, <1>9, <1>10, <1>11, <1>12, <1>13
     DEF F!Next

LEMMA FollowInvHolds == F!Spec => []FollowInv
  BY FollowInvInit, FollowInvStep, PTL DEF F!Spec

LEMMA FollowTyped == FollowInv => F!TypeOK
<1> SUFFICES ASSUME FollowInv PROVE F!TypeOK
  OBVIOUS
<1>1. run \in Rounds /\ run.read <= newest /\ run.sent <= newest
  BY DEF FollowInv, RoundOrdered
<1>2. run.read \in 0..newest /\ run.sent \in 0..newest
  BY <1>1, VersionsAreNats DEF Rounds, FollowInv, WorldTyped
<1>3. words \subseteq F!Word /\ Cardinality(words) <= MaxFreshSet /\ local \subseteq F!Word
  BY DEF FollowInv, SoundSet, Sound, HostTyped
<1> QED
  BY <1>1, <1>2, <1>3, SameSizes
     DEF F!TypeOK, FollowInv, WorldTyped, HostTyped, FramesSound, Rounds

LEMMA FollowOneWord == FollowInv => F!OneWordEach
  BY DEF FollowInv, SoundSet, Sound, F!OneWordEach

\* What KeepsVouched says of one step.
KeepsTheWord ==
  (disk' = disk /\ \E w \in F!Shown(disk, now) : now' <= w.until)
    => \E w \in words' : F!Vouches(w, disk, now')

LEMMA KeepsVouchedStep ==
  FollowInv /\ [F!Next]_F!vars => KeepsTheWord
<1> SUFFICES ASSUME FollowInv, [F!Next]_F!vars, disk' = disk,
                    NEW x \in words, F!Vouches(x, disk, now), now' <= x.until
             PROVE  \E w \in words' : F!Vouches(w, disk, now')
  BY DEF KeepsTheWord, F!Shown
<1>1. now \in Nat /\ disk \in 0..F!MaxVersion /\ SoundSet(words, disk)
  BY VersionsAreNats, HostAssumption DEF FollowInv, HostTyped, WorldTyped
<1>2. CASE words' = words /\ now' = now
  BY <1>2
<1>3. CASE F!Tick
  <2>1. now' = now + 1 /\ words' = words
    BY <1>3 DEF F!Tick
  <2>2. x.at \in Nat /\ x.at - ClockSkew <= now /\ ClockSkew \in Nat
    BY <1>1, HostAssumption DEF SoundSet, Sound, F!Word, F!Vouches, F!IsCurrent
  <2>3. F!IsCurrent(x, now')
    BY <1>1, <2>1, <2>2 DEF F!IsCurrent
  <2> QED
    BY <2>1, <2>3 DEF F!Vouches
<1>4. CASE F!Vouch
  <2> DEFINE w == run.frame.word
  <2>1. now' = now /\ (words' = words \/ (F!Offer(w, w.version) /\ w.version = run.read))
          /\ run.at = "adopted"
    BY <1>4 DEF F!Vouch, F!network
  <2>2. Sound(w, newest) /\ run.read <= disk
    BY <2>1 DEF FollowInv, FramesSound
  <2>3. CASE words' = words
    BY <1>2, <2>1, <2>3
  <2>4. CASE F!Offer(w, w.version) /\ w.version = run.read
    <3>1. Sound(w, disk)
      BY <2>2, <2>4 DEF Sound
    <3> HIDE DEF w
    <3> QED
      BY <1>1, <2>1, <2>4, <3>1, OfferVouches
  <2> QED
    BY <2>1, <2>3, <2>4
<1>5. CASE F!LocalOffer
  <2>1. PICK w \in local : F!Offer(w, w.version) /\ now' = now
    BY <1>5 DEF F!LocalOffer, F!network
  <2>2. Sound(w, disk)
    BY DEF FollowInv, HostTyped
  <2> QED
    BY <1>1, <2>1, <2>2, OfferVouches
<1>6. CASE F!Restart
  BY <1>6 DEF F!Restart, F!Vouches
<1> QED
  BY <1>2, <1>3, <1>4, <1>5, <1>6
     DEF F!Next, F!vars, F!network, F!Sign, F!Publish, F!Stop, F!StartAgain,
         F!BeginRound, F!EndRound, F!Dial, F!Push,
         F!Receive, F!Adopt, F!Lose, F!Drop, F!LocalPublish, F!LocalBeat, F!LocalRead

\* A host some directory vouches for stays vouched for while the word lasts,
\* whatever the follower, its own directory and a restart do to the set it shows
\* callers (FreshSet::insert, Freshness::offer and load); the set has one word for
\* each signer, and the state stays of its type.
THEOREM HostsKeepTheirWords == F!Spec => WordsAreKept
<1>1. FollowInv => F!TypeOK /\ F!OneWordEach
  BY FollowTyped, FollowOneWord
<1>2. FollowInv /\ [F!Next]_F!vars => [KeepsTheWord]_F!vars
  BY KeepsVouchedStep
<1>3. F!KeepsVouched <=> [][KeepsTheWord]_F!vars
  BY DEF F!KeepsVouched, KeepsTheWord
<1> QED
  BY <1>1, <1>2, <1>3, FollowInvHolds, PTL DEF F!Spec, F!WordsAreKept, WordsAreKept
=============================================================================
