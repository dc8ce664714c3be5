--------------------------- MODULE HostGateProofs ---------------------------
(***************************************************************************)
(* Proofs about what a host does with calls.                               *)
(*                                                                         *)
(* HostGate, for any callers, sessions, policies and limits: GateIsKept is *)
(* an invariant.  It is not inductive: a session runs under the version it *)
(* read because that version was noted against high_water, and high_water  *)
(* had not fallen since the session began; a session is logged once        *)
(* because none is logged before it is over.  Stands says that, of each    *)
(* session.                                                                *)
(*                                                                         *)
(* Capabilities, for any calls, nodes and grace: TokensFollowCalls.  A     *)
(* token is live past its call only as long as the grace it was given when *)
(* the call ended (CapabilityInv).                                         *)
(*                                                                         *)
(* Bridge, for buffers of any size and any amount of data:                 *)
(* CarriesEveryByte.  What the service wrote is, by its numbers, printed,  *)
(* on its way or not yet pumped (BridgeInv).                               *)
(***************************************************************************)
EXTENDS MCHost, FiniteSetTheorems, SequenceTheorems, TLAPS

Progress == [step : Steps, caller : Callers, version : 0..MaxVersion, issuer : Issuers,
             trusted : SUBSET Issuers, admitted : BOOLEAN, gone : BOOLEAN, held : BOOLEAN]

\* The steps of a session that is not decided: it holds a permit.
Waiting == {"entered", "read", "noted", "opened", "verifying"}

Pending == {s \in Sessions : session[s].step \in Waiting}

\* What is so of a session k that began at floor f and has had n log lines, on a
\* host that has decided under version high at most.
Stands(k, f, n, high) ==
  /\ k.step \in Waiting \cup {"running", "draining"} => f <= high
  /\ k.step = "read" => k.version \in 1..newest
  /\ k.step \in {"noted", "opened", "verifying", "running", "draining"} =>
       k.version \in 1..newest /\ k.version >= f
  /\ k.step \in {"running", "draining"} =>
       /\ k.admitted
       /\ policies[k.version].standing[k.caller] = "allowed"
  /\ k.step \in Waiting \cup {"new"} => ~k.admitted
  /\ k.step # "over" => n = 0
  /\ k.step = "over" => n = IF k.admitted THEN 1 ELSE 0
  /\ k.step = "failed" => k.admitted

GateInv ==
  /\ TypeOK
  /\ permits = Cardinality(Pending)
  /\ \A s \in Sessions : Stands(session[s], floor[s], lines[s], highWater)

Count(b) == IF b THEN 1 ELSE 0

-----------------------------------------------------------------------------
(* Counting the permits. *)

\* When one session moves, the undecided ones change by that session alone
\* (ServicesProtocol::accept owns the permit of its session).
LEMMA PermitChangesHands ==
  ASSUME TypeOK, NEW s \in Sessions, NEW k \in Progress, session' = [session EXCEPT ![s] = k]
  PROVE  /\ Cardinality(Pending) \in Nat
         /\ session[s].step \in Waiting => Cardinality(Pending) >= 1
         /\ Cardinality(Pending')
              = Cardinality(Pending) - Count(session[s].step \in Waiting)
                                     + Count(k.step \in Waiting)
<1> DEFINE R == Pending \ {s}
<1>1. session \in [Sessions -> Progress]
  BY DEF TypeOK, Progress
<1>2. IsFiniteSet(Pending) /\ IsFiniteSet(R)
  BY HostGateAssumption, FS_Subset DEF Pending
<1>3. Cardinality(Pending) \in Nat /\ Cardinality(R) \in Nat
  BY <1>2, FS_CardinalityType
<1>4. Cardinality(Pending) = Cardinality(R) + Count(session[s].step \in Waiting)
  <2>1. CASE session[s].step \in Waiting
    <3>1. Pending = R \cup {s} /\ s \notin R
      BY <2>1 DEF Pending
    <3>2. Cardinality(R \cup {s}) = Cardinality(R) + 1
      BY <1>2, <3>1, FS_AddElement
    <3> QED BY <3>1, <3>2, <2>1 DEF Count
  <2>2. CASE session[s].step \notin Waiting
    <3>1. Pending = R
      BY <2>2 DEF Pending
    <3> QED BY <3>1, <2>2, <1>3 DEF Count
  <2> QED BY <2>1, <2>2
<1>5. Cardinality(Pending') = Cardinality(R) + Count(k.step \in Waiting)
  <2>1. CASE k.step \in Waiting
    <3>1. Pending' = R \cup {s} /\ s \notin R
      BY <2>1, <1>1 DEF Pending
    <3>2. Cardinality(R \cup {s}) = Cardinality(R) + 1
      BY <1>2, <3>1, FS_AddElement
    <3> QED BY <3>1, <3>2, <2>1 DEF Count
  <2>2. CASE k.step \notin Waiting
    <3>1. Pending' = R
      BY <2>2, <1>1 DEF Pending
    <3> QED BY <3>1, <2>2, <1>3 DEF Count
  <2> QED BY <2>1, <2>2
<1> QED BY <1>3, <1>4, <1>5 DEF Count

-----------------------------------------------------------------------------
(* What the proofs of the actions have in common. *)

\* What the invariant says of the session that an action moves.
Facts(s) ==
  /\ session \in [Sessions -> Progress] /\ session[s] \in Progress
  /\ policies \in [1..MaxVersion -> Content]
  /\ newest \in 0..MaxVersion /\ disk \in 0..newest /\ highWater \in 0..newest
  /\ trust \subseteq Issuers /\ permits \in 0..MaxPreauth
  /\ floor \in [Sessions -> 0..MaxVersion] /\ lines \in [Sessions -> Nat]
  /\ MaxVersion \in Nat /\ MaxPreauth \in Nat
  /\ Stands(session[s], floor[s], lines[s], highWater)

LEMMA OfOne ==
  ASSUME GateInv, NEW s \in Sessions
  PROVE  Facts(s)
BY HostGateAssumption DEF GateInv, TypeOK, Facts, Progress

\* The session s comes to k, the permits with it, as a step of its own does.
Moves(s, k) ==
  /\ session' = [session EXCEPT ![s] = k]
  /\ permits' = permits - Count(session[s].step \in Waiting) + Count(k.step \in Waiting)
  /\ permits' <= MaxPreauth
  /\ UNCHANGED world

\* Such a step, to where the session may stand, keeps the invariant.
LEMMA OneMoves ==
  ASSUME GateInv, NEW s \in Sessions, NEW k \in Progress, NEW f \in 0..MaxVersion, NEW n \in Nat,
         Moves(s, k), Stands(k, f, n, highWater'),
         floor' = [floor EXCEPT ![s] = f], lines' = [lines EXCEPT ![s] = n],
         highWater' \in highWater..newest, trust' \subseteq Issuers
  PROVE  GateInv'
<1>0. Facts(s)
  BY OfOne
<1> USE <1>0 DEF Facts
<1>1. TypeOK
  BY DEF GateInv
<1>2. (permits = Cardinality(Pending))' /\ permits' \in 0..MaxPreauth
  <2>1. /\ Cardinality(Pending) \in Nat
        /\ session[s].step \in Waiting => Cardinality(Pending) >= 1
        /\ Cardinality(Pending')
             = Cardinality(Pending) - Count(session[s].step \in Waiting)
                                    + Count(k.step \in Waiting)
    BY <1>1, PermitChangesHands DEF Moves
  <2>2. permits = Cardinality(Pending)
    BY DEF GateInv
  <2> QED BY <2>1, <2>2 DEF Moves, Count
<1>3. session' \in [Sessions -> Progress]
  BY DEF Moves
<1>4. TypeOK'
  BY <1>1, <1>2, <1>3 DEF Moves, TypeOK, Progress, world
<1>5. \A t \in Sessions : Stands(session[t], floor[t], lines[t], highWater)'
  <2> SUFFICES ASSUME NEW t \in Sessions PROVE Stands(session[t], floor[t], lines[t], highWater)'
    OBVIOUS
  <2>1. CASE t = s
    <3>1. session'[t] = k /\ floor'[t] = f /\ lines'[t] = n
      BY <2>1 DEF Moves
    <3>2. newest' = newest /\ policies' = policies
      BY DEF Moves, world
    <3> QED BY <3>1, <3>2 DEF Stands
  <2>2. CASE t # s
    <3>1. session'[t] = session[t] /\ floor'[t] = floor[t] /\ lines'[t] = lines[t]
      BY <2>2 DEF Moves
    <3>2. Stands(session[t], floor[t], lines[t], highWater) /\ floor[t] \in 0..MaxVersion
      BY DEF GateInv
    <3>3. newest' = newest /\ policies' = policies
      BY DEF Moves, world
    <3> QED BY <3>1, <3>2, <3>3 DEF Stands
  <2> QED BY <2>1, <2>2
<1> QED BY <1>2, <1>4, <1>5 DEF GateInv

\* Such a step of a session that goes on is most often one that logs nothing.
LEMMA OneGoesOn ==
  ASSUME GateInv, NEW s \in Sessions, NEW k \in Progress, Moves(s, k),
         Stands(k, floor[s], lines[s], highWater'), UNCHANGED <<floor, lines>>,
         highWater' \in highWater..newest, trust' \subseteq Issuers
  PROVE  GateInv'
<1>1. Facts(s)
  BY OfOne
<1>2. floor[s] \in 0..MaxVersion /\ lines[s] \in Nat
  BY <1>1 DEF Facts
<1>3. floor' = [floor EXCEPT ![s] = floor[s]] /\ lines' = [lines EXCEPT ![s] = lines[s]]
  BY <1>1 DEF Facts
<1> QED BY <1>2, <1>3, OneMoves

\* Any step of the host or of its policy keeps what is so of the sessions, as long
\* as no version in use and no high_water falls.
LEMMA NoneMoves ==
  ASSUME GateInv, UNCHANGED <<policies, permits, session, floor, lines>>, TypeOK',
         highWater' >= highWater, newest' >= newest
  PROVE  GateInv'
<1>1. permits' = Cardinality(Pending')
  BY DEF GateInv, Pending
<1>2. \A t \in Sessions : Stands(session[t], floor[t], lines[t], highWater)'
  <2> SUFFICES ASSUME NEW t \in Sessions PROVE Stands(session[t], floor[t], lines[t], highWater)'
    OBVIOUS
  <2>1. Facts(t)
    BY OfOne
  <2>2. highWater' \in Nat /\ newest' \in Nat
    BY HostGateAssumption DEF TypeOK
  <2> QED BY <2>1, <2>2 DEF Facts, Stands
<1> QED BY <1>1, <1>2 DEF GateInv

-----------------------------------------------------------------------------
(* The invariant is inductive. *)

LEMMA InitGate == Init => GateInv
<1> SUFFICES ASSUME Init PROVE GateInv
  OBVIOUS
<1>1. (CHOOSE c \in Callers : TRUE) \in Callers /\ (CHOOSE i \in Issuers : TRUE) \in Issuers
  BY HostGateAssumption
<1>2. NoSession \in Progress /\ NoSession.step = "new" /\ ~NoSession.admitted
  BY <1>1, HostGateAssumption DEF NoSession, Progress, Steps
<1>3. TypeOK
  <2>1. policies \in [1..MaxVersion -> Content] /\ newest \in 0..MaxVersion
    BY HostGateAssumption DEF Init
  <2>2. session \in [Sessions -> Progress]
    BY <1>2 DEF Init
  <2>3. /\ disk \in 0..newest /\ highWater \in 0..newest /\ permits \in 0..MaxPreauth
        /\ restarts \in 0..MaxRestarts
        /\ floor \in [Sessions -> 0..MaxVersion] /\ lines \in [Sessions -> Nat]
    BY <2>1, HostGateAssumption DEF Init
  <2> QED BY <2>1, <2>2, <2>3 DEF Init, TypeOK, Progress
<1>4. permits = Cardinality(Pending)
  <2>1. Pending = {}
    BY <1>2 DEF Init, Pending, Waiting
  <2> QED BY <2>1, FS_EmptySet DEF Init
<1>5. \A s \in Sessions : Stands(session[s], floor[s], lines[s], highWater)
  BY <1>2 DEF Init, Stands, Waiting
<1> QED BY <1>3, <1>4, <1>5 DEF GateInv

\* Signing, adopting, putting back, starting: high_water only rises.
LEMMA HostSteps ==
  ASSUME GateInv, Sign \/ Adopt \/ RollBack \/ Start \/ Assigned
  PROVE  GateInv'
<1>1. TypeOK /\ MaxVersion \in Nat
  BY HostGateAssumption DEF GateInv
<1>2. CASE Sign
  BY <1>1, <1>2, NoneMoves DEF Sign, TypeOK
<1>3. CASE Adopt
  BY <1>1, <1>3, NoneMoves DEF Adopt, TypeOK
<1>4. CASE RollBack
  BY <1>1, <1>4, NoneMoves DEF RollBack, TypeOK
<1>5. CASE Start \/ Assigned
  <2>1. /\ UNCHANGED <<policies, newest, disk, permits, session, floor, lines, restarts>>
        /\ serving' \in {"down", "waiting", "up"}
    BY <1>5 DEF Start, Assigned
  <2>2. \/ Usable(disk) /\ Uses(disk)
        \/ UNCHANGED <<highWater, trust>>
    BY <1>5 DEF Start, Assigned
  <2>3. highWater' \in 0..newest /\ highWater' >= highWater /\ trust' \subseteq Issuers
    <3>1. CASE Usable(disk) /\ Uses(disk)
      <4>1. disk \in 1..MaxVersion /\ disk \in 0..newest
        BY <1>1, <3>1 DEF Usable, TypeOK
      <4>2. policies[disk].trusts \subseteq Issuers
        BY <1>1, <4>1 DEF TypeOK, Content
      <4> QED BY <1>1, <3>1, <4>1, <4>2 DEF Usable, Uses, TypeOK
    <3>2. CASE UNCHANGED <<highWater, trust>>
      BY <1>1, <3>2 DEF TypeOK
    <3> QED BY <2>2, <3>1, <3>2
  <2>4. TypeOK'
    BY <1>1, <2>1, <2>3 DEF TypeOK
  <2> QED BY <1>1, <2>1, <2>3, <2>4, NoneMoves DEF TypeOK
<1> QED BY <1>2, <1>3, <1>4, <1>5

\* A restart drops every session there was, with its permit, and high_water.
LEMMA RestartGate ==
  ASSUME GateInv, Restart
  PROVE  GateInv'
<1>1. TypeOK /\ MaxVersion \in Nat /\ MaxPreauth \in Nat /\ MaxRestarts \in Nat
  BY HostGateAssumption DEF GateInv
<1>2. (CHOOSE c \in Callers : TRUE) \in Callers /\ (CHOOSE i \in Issuers : TRUE) \in Issuers
  BY HostGateAssumption
<1>3. NoSession \in Progress /\ NoSession.step = "new" /\ ~NoSession.admitted
  BY <1>1, <1>2 DEF NoSession, Progress, Steps
<1>4. session' \in [Sessions -> Progress]
  BY <1>1, <1>3 DEF Restart, TypeOK, Progress
<1>5. TypeOK'
  BY <1>1, <1>4 DEF Restart, TypeOK, Progress
<1>6. (permits = Cardinality(Pending))'
  <2>1. Pending' = {}
    BY <1>3 DEF Restart, Pending, Waiting
  <2> QED BY <2>1, FS_EmptySet DEF Restart
<1>7. ASSUME NEW s \in Sessions
      PROVE  Stands(session[s], floor[s], lines[s], highWater)'
  <2>1. Stands(session[s], floor[s], lines[s], highWater)
    BY DEF GateInv
  <2>2. floor' = floor /\ lines' = lines /\ newest' = newest /\ policies' = policies
    BY DEF Restart
  <2>3. CASE session[s].step \in {"new", "over", "failed"}
    <3>1. session'[s] = session[s]
      BY <2>3 DEF Restart
    <3> QED BY <2>1, <2>2, <2>3, <3>1 DEF Stands, Waiting
  <2>4. CASE session[s].step \notin {"new", "over", "failed"}
    <3>1. session'[s] = NoSession /\ lines[s] = 0
      BY <2>1, <2>4 DEF Restart, Stands
    <3> QED BY <1>3, <2>2, <3>1 DEF Stands, Waiting
  <2> QED BY <2>3, <2>4
<1> QED BY <1>5, <1>6, <1>7 DEF GateInv

\* A session that goes from one step to another, both before its decision or both
\* after it, and no other field, leaves the permits.
LEMMA PermitStays ==
  ASSUME NEW s \in Sessions, Facts(s), NEW k \in Progress,
         (k.step \in Waiting) <=> (session[s].step \in Waiting),
         session' = [session EXCEPT ![s] = k], permits' = permits, UNCHANGED world
  PROVE  Moves(s, k)
<1>1. Count(k.step \in Waiting) = Count(session[s].step \in Waiting)
      /\ Count(session[s].step \in Waiting) \in Nat
  BY DEF Count
<1>2. permits' = permits - Count(session[s].step \in Waiting) + Count(k.step \in Waiting)
      /\ permits' <= MaxPreauth
  BY <1>1 DEF Facts
<1> QED BY <1>2 DEF Moves

\* Before the gate has decided, a session may end, unlogged.
LEMMA UndecidedGate ==
  ASSUME GateInv, NEW s \in Sessions, session[s].step \in Waiting, Undecided(s),
         UNCHANGED <<world, highWater, trust, floor, lines>>
  PROVE  GateInv'
<1>0. Facts(s)
  BY OfOne
<1> USE <1>0 DEF Facts
<1> DEFINE k == [session[s] EXCEPT !.step = "over"]
<1>1. k \in Progress /\ k.step = "over" /\ k.admitted = session[s].admitted
  BY DEF Progress, Steps
<1>2. lines[s] = 0 /\ ~session[s].admitted
  BY DEF Stands, Waiting
<1>3. session' = [session EXCEPT ![s] = k]
  BY DEF Undecided, Step
<1> HIDE DEF k
<1>4. Moves(s, k)
  BY <1>1, <1>3 DEF Moves, Undecided, Count, Waiting
<1>5. Stands(k, floor[s], 0, highWater')
  BY <1>1, <1>2 DEF Stands, Waiting
<1>6. highWater' \in highWater..newest
  OBVIOUS
<1> QED BY <1>1, <1>2, <1>4, <1>5, <1>6, OneGoesOn

LEMMA EnterGate ==
  ASSUME GateInv, NEW s \in Sessions, NEW c \in Callers, Enter(s, c)
  PROVE  GateInv'
<1>0. Facts(s)
  BY OfOne
<1> USE <1>0 DEF Facts
<1> DEFINE k == [session[s] EXCEPT !.step = "entered", !.caller = c]
<1>1. k \in Progress /\ k.step = "entered" /\ k.admitted = session[s].admitted
  BY DEF Progress, Steps
<1>2. lines[s] = 0 /\ ~session[s].admitted /\ session[s].step = "new"
  BY DEF Stands, Waiting, Enter
<1>3. session' = [session EXCEPT ![s] = k]
  BY DEF Enter
<1>8. permits' = permits + 1 /\ permits < MaxPreauth /\ UNCHANGED world
  BY DEF Enter
<1> HIDE DEF k
<1>4. Moves(s, k)
  BY <1>1, <1>2, <1>3, <1>8 DEF Moves, Count, Waiting
<1>7. highWater' \in highWater..newest /\ highWater \in 0..MaxVersion
  BY DEF Enter
<1>5. Stands(k, highWater, 0, highWater')
  BY <1>1, <1>2 DEF Stands, Waiting, Enter
<1>6. floor' = [floor EXCEPT ![s] = highWater] /\ lines' = [lines EXCEPT ![s] = 0]
  BY <1>2 DEF Enter
<1> QED BY <1>1, <1>4, <1>5, <1>6, <1>7, OneMoves DEF Enter

LEMMA ReadPolicyGate ==
  ASSUME GateInv, NEW s \in Sessions, ReadPolicy(s)
  PROVE  GateInv'
<1>0. Facts(s)
  BY OfOne
<1> USE <1>0 DEF Facts
<1>1. CASE disk = 0
  BY <1>1, UndecidedGate DEF ReadPolicy, Waiting
<1>2. CASE disk # 0
  <2> DEFINE k == [session[s] EXCEPT !.step = "read", !.version = disk]
  <2>8. disk \in 0..MaxVersion
    OBVIOUS
  <2>1. k \in Progress /\ k.step = "read" /\ k.admitted = session[s].admitted /\ k.version = disk
    BY <2>8 DEF Progress, Steps
  <2>2. session[s].step = "entered"
    BY DEF ReadPolicy
  <2>7. /\ session' = [session EXCEPT ![s].step = "read", ![s].version = disk]
        /\ permits' = permits
    BY <1>2 DEF ReadPolicy
  <2>3. session' = [session EXCEPT ![s] = k] /\ permits' = permits
    BY <2>7
  <2> HIDE DEF k
  <2>4. Moves(s, k)
    BY <1>0, <2>1, <2>2, <2>3, PermitStays DEF ReadPolicy, Waiting
  <2>5. Stands(k, floor[s], lines[s], highWater')
    BY <1>2, <2>1, <2>2 DEF Stands, Waiting, ReadPolicy, world
  <2>6. highWater' \in highWater..newest
    BY DEF ReadPolicy
  <2> QED BY <2>1, <2>4, <2>5, <2>6, OneGoesOn DEF ReadPolicy
<1> QED BY <1>1, <1>2

\* high_water.fetch_max: the version decided under is no older than any that was in
\* use when the session began.
LEMMA NoteVersionGate ==
  ASSUME GateInv, NEW s \in Sessions, NoteVersion(s)
  PROVE  GateInv'
<1>0. Facts(s)
  BY OfOne
<1> USE <1>0 DEF Facts
<1>1. CASE session[s].version < highWater
  BY <1>1, UndecidedGate DEF NoteVersion, Waiting
<1>2. CASE ~(session[s].version < highWater)
  <2> DEFINE k == [session[s] EXCEPT !.step = "noted"]
  <2>1. k \in Progress /\ k.step = "noted" /\ k.admitted = session[s].admitted
        /\ k.version = session[s].version
    BY DEF Progress, Steps
  <2>2. session[s].step = "read" /\ highWater' = session[s].version
    BY <1>2 DEF NoteVersion
  <2>3. session' = [session EXCEPT ![s] = k] /\ permits' = permits
    BY <1>2 DEF NoteVersion, Step
  <2>4. session[s].version \in 1..newest /\ floor[s] <= highWater
    BY <2>2 DEF Stands, Waiting
  <2> HIDE DEF k
  <2>5. Moves(s, k)
    BY <1>0, <2>1, <2>2, <2>3, PermitStays DEF NoteVersion, Waiting
  <2>6. Stands(k, floor[s], lines[s], highWater')
    BY <1>2, <2>1, <2>2, <2>4 DEF Stands, Waiting, NoteVersion, world
  <2>7. highWater' \in highWater..newest
    BY <1>2, <2>2, <2>4
  <2> QED BY <2>1, <2>5, <2>6, <2>7, OneGoesOn DEF NoteVersion
<1> QED BY <1>1, <1>2

LEMMA SetTrustGate ==
  ASSUME GateInv, NEW s \in Sessions, SetTrust(s)
  PROVE  GateInv'
<1>0. Facts(s)
  BY OfOne
<1> USE <1>0 DEF Facts
<1> DEFINE k == [session[s] EXCEPT !.step = "opened"]
<1>1. k \in Progress /\ k.step = "opened" /\ k.admitted = session[s].admitted
      /\ k.version = session[s].version
  BY DEF Progress, Steps
<1>2. session[s].step = "noted" /\ permits' = permits
  BY DEF SetTrust
<1>3. session' = [session EXCEPT ![s] = k]
  BY DEF SetTrust, Step
<1>4. session[s].version \in 1..MaxVersion
  BY <1>2 DEF Stands
<1>5. trust' \subseteq Issuers
  BY <1>4 DEF SetTrust, Content
<1> HIDE DEF k
<1>6. Moves(s, k)
  BY <1>0, <1>1, <1>2, <1>3, PermitStays DEF SetTrust, Waiting
<1>7. Stands(k, floor[s], lines[s], highWater')
  BY <1>1, <1>2 DEF Stands, Waiting, SetTrust, world
<1>8. highWater' \in highWater..newest
  BY DEF SetTrust
<1> QED BY <1>1, <1>5, <1>6, <1>7, <1>8, OneGoesOn DEF SetTrust

LEMMA HelloGate ==
  ASSUME GateInv, NEW s \in Sessions, NEW i \in Issuers, Hello(s, i)
  PROVE  GateInv'
<1>0. Facts(s)
  BY OfOne
<1> USE <1>0 DEF Facts
<1> DEFINE k == [session[s] EXCEPT !.step = "verifying", !.issuer = i, !.trusted = trust]
<1>1. k \in Progress /\ k.step = "verifying" /\ k.admitted = session[s].admitted
      /\ k.version = session[s].version
  BY DEF Progress, Steps
<1>2. session[s].step = "opened" /\ permits' = permits
  BY DEF Hello
<1>3. session' = [session EXCEPT ![s] = k]
  BY DEF Hello
<1> HIDE DEF k
<1>4. Moves(s, k)
  BY <1>0, <1>1, <1>2, <1>3, PermitStays DEF Hello, Waiting
<1>5. Stands(k, floor[s], lines[s], highWater')
  BY <1>1, <1>2 DEF Stands, Waiting, Hello, world
<1>6. highWater' \in highWater..newest
  BY DEF Hello
<1> QED BY <1>1, <1>4, <1>5, <1>6, OneGoesOn DEF Hello

\* Let in only on the word of the policy read, and logged only if refused by name.
LEMMA DecideGate ==
  ASSUME GateInv, NEW s \in Sessions, Decide(s)
  PROVE  GateInv'
<1>0. Facts(s)
  BY OfOne
<1> USE <1>0 DEF Facts
<1>1. session[s].step = "verifying" /\ lines[s] = 0
  BY DEF Decide, Stands
<1>2. Admitted(s) \in BOOLEAN /\ highWater' \in highWater..newest
  BY DEF Admitted, Decide
<1>3. CASE Admitted(s) /\ Callable(s)
  <2> DEFINE k == [session[s] EXCEPT !.step = "running", !.admitted = TRUE]
  <2>1. /\ k \in Progress /\ k.step = "running" /\ k.admitted
        /\ k.version = session[s].version /\ k.caller = session[s].caller
    BY DEF Progress, Steps
  <2>2. session' = [session EXCEPT ![s] = k] /\ lines' = lines
    BY <1>3 DEF Decide
  <2>3. policies[session[s].version].standing[session[s].caller] = "allowed"
    BY <1>3 DEF Callable, StandingOf
  <2> HIDE DEF k
  <2>4. Moves(s, k)
    BY <1>1, <2>1, <2>2 DEF Moves, Decide, Count, Waiting
  <2>5. Stands(k, floor[s], lines[s], highWater')
    BY <1>1, <2>1, <2>2, <2>3 DEF Stands, Waiting, Decide, world
  <2> QED BY <1>2, <2>1, <2>2, <2>4, <2>5, OneGoesOn DEF Decide
<1>4. CASE ~(Admitted(s) /\ Callable(s))
  <2> DEFINE k == [session[s] EXCEPT !.step = "over", !.admitted = Admitted(s)]
             n == IF Admitted(s) THEN 1 ELSE 0
  <2>1. k \in Progress /\ k.step = "over" /\ k.admitted = Admitted(s)
    BY <1>2 DEF Progress, Steps
  <2>2. session' = [session EXCEPT ![s] = k]
    BY <1>4 DEF Decide
  <2>3. lines' = [lines EXCEPT ![s] = n] /\ n \in Nat
    BY <1>1, <1>4 DEF Decide
  <2>4. n = IF k.admitted THEN 1 ELSE 0
    BY <2>1
  <2> HIDE DEF k, n
  <2>5. Moves(s, k)
    BY <1>1, <2>1, <2>2 DEF Moves, Decide, Count, Waiting
  <2>6. Stands(k, floor[s], n, highWater')
    BY <2>1, <2>4 DEF Stands, Waiting
  <2>7. floor' = [floor EXCEPT ![s] = floor[s]] /\ floor[s] \in 0..MaxVersion
    BY DEF Decide
  <2> QED BY <1>2, <2>1, <2>3, <2>5, <2>6, <2>7, OneMoves DEF Decide
<1> QED BY <1>3, <1>4

LEMMA RefuseStrangerGate ==
  ASSUME GateInv, NEW s \in Sessions, RefuseStranger(s)
  PROVE  GateInv'
BY UndecidedGate DEF RefuseStranger, Waiting

\* What goes on after the decision touches neither the permits nor the word the
\* session was let in on.
LEMMA AfterDecision ==
  ASSUME GateInv, NEW s \in Sessions, NEW k \in Progress,
         session[s].step \in {"running", "draining"}, k.step \in {"running", "draining"},
         k.version = session[s].version, k.caller = session[s].caller, k.admitted,
         session' = [session EXCEPT ![s] = k],
         UNCHANGED <<world, highWater, trust, permits, floor, lines>>
  PROVE  GateInv'
<1>1. Facts(s)
  BY OfOne
<1>2. Moves(s, k)
  BY <1>1, PermitStays DEF Waiting
<1>3. Stands(k, floor[s], lines[s], highWater')
  BY <1>1 DEF Facts, Stands, Waiting
<1>4. highWater' \in highWater..newest /\ trust' \subseteq Issuers
  BY <1>1 DEF Facts
<1> QED BY <1>2, <1>3, <1>4, OneGoesOn

\* The one log line of a call is written as it comes to be over.
LEMMA FinishGate ==
  ASSUME GateInv, NEW s \in Sessions, session[s].step \in {"running", "draining"}, Finish(s),
         UNCHANGED <<world, highWater, trust, permits, floor>>
  PROVE  GateInv'
<1>0. Facts(s)
  BY OfOne
<1> USE <1>0 DEF Facts
<1> DEFINE k == [session[s] EXCEPT !.step = "over"]
<1>1. k \in Progress /\ k.step = "over" /\ k.admitted = session[s].admitted
  BY DEF Progress, Steps
<1>2. session[s].admitted /\ lines[s] = 0
  BY DEF Stands
<1>3. session' = [session EXCEPT ![s] = k] /\ lines' = [lines EXCEPT ![s] = 1]
  BY <1>2 DEF Finish, Step
<1> HIDE DEF k
<1>4. Moves(s, k)
  BY <1>0, <1>1, <1>3, PermitStays DEF Waiting
<1>5. Stands(k, floor[s], 1, highWater')
  BY <1>1, <1>2 DEF Stands, Waiting
<1>6. floor' = [floor EXCEPT ![s] = floor[s]] /\ floor[s] \in 0..MaxVersion
      /\ highWater' \in highWater..newest
  OBVIOUS
<1> QED BY <1>1, <1>3, <1>4, <1>5, <1>6, OneMoves

LEMMA NeverRunsGate ==
  ASSUME GateInv, NEW s \in Sessions, NeverRuns(s)
  PROVE  GateInv'
BY FinishGate DEF NeverRuns

LEMMA DrainedGate ==
  ASSUME GateInv, NEW s \in Sessions, Drained(s)
  PROVE  GateInv'
BY FinishGate DEF Drained

\* A bridge that fails leaves its call without a line.
LEMMA BridgeFailsGate ==
  ASSUME GateInv, NEW s \in Sessions, BridgeFails(s)
  PROVE  GateInv'
<1>0. Facts(s)
  BY OfOne
<1> USE <1>0 DEF Facts
<1> DEFINE k == [session[s] EXCEPT !.step = "failed"]
<1>1. k \in Progress /\ k.step = "failed" /\ k.admitted = session[s].admitted
  BY DEF Progress, Steps
<1>2. session[s].step \in {"running", "draining"} /\ session[s].admitted /\ lines[s] = 0
  BY DEF Stands, BridgeFails
<1>3. session' = [session EXCEPT ![s] = k] /\ permits' = permits
  BY DEF BridgeFails, Step
<1> HIDE DEF k
<1>4. Moves(s, k)
  BY <1>0, <1>1, <1>2, <1>3, PermitStays DEF BridgeFails, Waiting
<1>5. Stands(k, floor[s], lines[s], highWater')
  BY <1>1, <1>2 DEF Stands, Waiting
<1>6. highWater' \in highWater..newest
  BY DEF BridgeFails
<1> QED BY <1>1, <1>4, <1>5, <1>6, OneGoesOn DEF BridgeFails

LEMMA DisconnectGate ==
  ASSUME GateInv, NEW s \in Sessions, Disconnect(s)
  PROVE  GateInv'
<1>1. Facts(s)
  BY OfOne
<1> DEFINE k == [session[s] EXCEPT !.gone = TRUE]
<1>2. /\ k \in Progress /\ k.step = session[s].step /\ k.version = session[s].version
      /\ k.caller = session[s].caller /\ k.admitted = session[s].admitted
  BY <1>1 DEF Facts, Progress
<1>3. session[s].admitted /\ session[s].step \in {"running", "draining"}
  BY <1>1 DEF Facts, Stands, Disconnect
<1>4. session' = [session EXCEPT ![s] = k]
  BY <1>1 DEF Facts, Disconnect
<1> HIDE DEF k
<1> QED BY <1>2, <1>3, <1>4, AfterDecision DEF Disconnect

LEMMA ExitsGate ==
  ASSUME GateInv, NEW s \in Sessions, NEW held \in BOOLEAN, Ends(s, held)
  PROVE  GateInv'
<1>1. Facts(s)
  BY OfOne
<1> DEFINE k == [session[s] EXCEPT !.step = "draining", !.held = held]
<1>2. /\ k \in Progress /\ k.step = "draining" /\ k.version = session[s].version
      /\ k.caller = session[s].caller /\ k.admitted = session[s].admitted
  BY <1>1 DEF Facts, Progress, Steps
<1>3. session[s].admitted /\ session[s].step = "running"
  BY <1>1 DEF Facts, Stands, Ends
<1>4. session' = [session EXCEPT ![s] = k]
  BY <1>1 DEF Facts, Ends
<1> HIDE DEF k
<1> QED BY <1>2, <1>3, <1>4, AfterDecision DEF Ends

\* A job that lets go of the output leaves its session where it stands.
LEMMA JobEndsGate ==
  ASSUME GateInv, NEW s \in Sessions, JobEnds(s)
  PROVE  GateInv'
<1>0. Facts(s)
  BY OfOne
<1> USE <1>0 DEF Facts
<1> DEFINE k == [session[s] EXCEPT !.held = FALSE]
<1>1. /\ k \in Progress /\ k.step = session[s].step /\ k.version = session[s].version
      /\ k.caller = session[s].caller /\ k.admitted = session[s].admitted
  BY DEF Progress
<1>2. session' = [session EXCEPT ![s] = k] /\ permits' = permits
  BY DEF JobEnds
<1> HIDE DEF k
<1>3. Moves(s, k)
  BY <1>0, <1>1, <1>2, PermitStays DEF JobEnds
<1>4. Stands(k, floor[s], lines[s], highWater')
  BY <1>1 DEF Stands, JobEnds
<1>5. highWater' \in highWater..newest
  BY DEF JobEnds
<1> QED BY <1>1, <1>3, <1>4, <1>5, OneGoesOn DEF JobEnds

LEMMA GateStep == GateInv /\ [Next]_vars => GateInv'
<1> SUFFICES ASSUME GateInv, [Next]_vars PROVE GateInv'
  OBVIOUS
<1>1. CASE UNCHANGED vars
  <2>1. TypeOK'
    BY <1>1 DEF vars, GateInv, TypeOK
  <2>2. highWater \in Nat /\ newest \in Nat
    BY HostGateAssumption DEF GateInv, TypeOK
  <2> QED BY <1>1, <2>1, <2>2, NoneMoves DEF vars
<1>2. CASE Sign \/ Adopt \/ RollBack \/ Start \/ Assigned
  BY <1>2, HostSteps
<1>3. CASE Restart
  BY <1>3, RestartGate
<1>4. CASE \E s \in Sessions, c \in Callers : Enter(s, c)
  BY <1>4, EnterGate
<1>5. CASE \E s \in Sessions : ReadPolicy(s)
  BY <1>5, ReadPolicyGate
<1>6. CASE \E s \in Sessions : NoteVersion(s)
  BY <1>6, NoteVersionGate
<1>7. CASE \E s \in Sessions : SetTrust(s)
  BY <1>7, SetTrustGate
<1>8. CASE \E s \in Sessions, i \in Issuers : Hello(s, i)
  BY <1>8, HelloGate
<1>9. CASE \E s \in Sessions : RefuseStranger(s)
  BY <1>9, RefuseStrangerGate
<1>10. CASE \E s \in Sessions : Decide(s)
  BY <1>10, DecideGate
<1>11. CASE \E s \in Sessions : NeverRuns(s)
  BY <1>11, NeverRunsGate
<1>12. CASE \E s \in Sessions : Disconnect(s)
  BY <1>12, DisconnectGate
<1>13. CASE \E s \in Sessions : Exits(s)
  BY <1>13, ExitsGate DEF Exits
<1>14. CASE \E s \in Sessions : JobEnds(s)
  BY <1>14, JobEndsGate
<1>15. CASE \E s \in Sessions : Drained(s)
  BY <1>15, DrainedGate
<1>16. CASE \E s \in Sessions : BridgeFails(s)
  BY <1>16, BridgeFailsGate
<1> QED
  BY <1>1, <1>2, <1>3, <1>4, <1>5, <1>6, <1>7, <1>8, <1>9, <1>10, <1>11, <1>12, <1>13, <1>14,
     <1>15, <1>16 DEF Next

LEMMA GateInvKeeps == GateInv => GateIsKept
<1> SUFFICES ASSUME GateInv PROVE GateIsKept
  OBVIOUS
<1>1. BansHold
  BY DEF BansHold, GateInv, Stands
<1>2. PermitsMatchSessions
  BY DEF PermitsMatchSessions, GateInv, Pending, Waiting
<1>3. OneLineEach
  BY DEF OneLineEach, GateInv, Stands
<1> QED BY <1>1, <1>2, <1>3 DEF GateIsKept, GateInv

-----------------------------------------------------------------------------
(* Theorems. *)

\* Every reachable state of a host and its sessions (gate.rs, transport.rs)
\* satisfies the inductive invariant.
THEOREM GateInvariance == Spec => []GateInv
BY InitGate, GateStep, PTL DEF Spec

\* However many sessions are decided at once, and whatever older policy is put back
\* on disk between two of their steps: none runs under a version older than one
\* decided under before it began (high_water.fetch_max), nor for a caller its
\* version does not allow; no permit leaks; and each call is logged once, but for one
\* whose bridge failed, which is not logged.
THEOREM TheGateIsKept == Spec => []GateIsKept
BY GateInvariance, GateInvKeeps, PTL

-----------------------------------------------------------------------------
(* What a service holds of a call (Capabilities). *)

CallRecord ==
  [phase : {"new", "running", "returned", "ended", "lost"}, kind : C!Kinds, from : Nodes,
   ended : 0 .. MaxTime]

IoRecord ==
  [stdin : {"free", "read"}, stdout : {"free", "write"}, closed : SUBSET {"stdin", "stdout"},
   eof : BOOLEAN, behind : BOOLEAN]

CapabilityTypes ==
  /\ now \in 0 .. MaxTime /\ call \in [Calls -> CallRecord] /\ io \in [Calls -> IoRecord]
  /\ DOMAIN grants \subseteq Calls

\* A token is held for a call that is under way, or ended and has its grace.
TokenStands(c) ==
  /\ call[c].phase \in {"new", "lost"} => c \notin DOMAIN grants
  /\ call[c].phase = "ended" /\ c \in DOMAIN grants => grants[c] = call[c].ended + Grace
  /\ call[c].ended <= now

\* The last push that was let through.
PushStands ==
  LET c == pushed.token IN
  pushed.some =>
    /\ c \in Calls /\ call[c].phase # "new" /\ pushed.to = call[c].from
    /\ pushed.at \in 0 .. now
    /\ call[c].phase \in {"ended", "lost"} => pushed.at < call[c].ended + Grace

CapabilityInv == CapabilityTypes /\ (\A c \in Calls : TokenStands(c)) /\ PushStands

LEMMA CapabilityConstants == Nodes # {} /\ Grace \in Nat /\ Grace > 0 /\ MaxTime \in Nat
  BY HostAssumption DEF C!CapabilitiesAssumption

LEMMA NoCallIs == C!NoCall \in CallRecord /\ C!NoCall.phase = "new" /\ C!NoCall.ended = 0
<1>1. (CHOOSE n \in Nodes : TRUE) \in Nodes
  BY CapabilityConstants
<1>2. 0 \in 0 .. MaxTime
  BY CapabilityConstants
<1> QED BY <1>1, <1>2 DEF C!NoCall, CallRecord, C!Kinds

\* A call's token is as before, or what is held for it is gone.
LEMMA TokensStay ==
  ASSUME CapabilityInv, CapabilityTypes', UNCHANGED call, now' >= now,
         DOMAIN grants' \subseteq DOMAIN grants, \A c \in DOMAIN grants' : grants'[c] = grants[c]
  PROVE  \A c \in Calls : TokenStands(c)'
<1>1. \A c \in Calls : call[c].ended \in Nat /\ now \in Nat /\ now' \in Nat
  BY DEF CapabilityInv, CapabilityTypes, CallRecord
<1> QED BY <1>1 DEF CapabilityInv, TokenStands

LEMMA PruneIs ==
  ASSUME NEW g, NEW t
  PROVE  /\ DOMAIN C!Prune(g, t) \subseteq DOMAIN g
         /\ \A c \in DOMAIN C!Prune(g, t) : C!Prune(g, t)[c] = g[c] /\ (g[c] = -1 \/ g[c] > t)
  BY DEF C!Prune, C!Live

LEMMA StartStands ==
  ASSUME CapabilityInv, NEW c \in Calls, NEW kind \in C!Kinds, NEW from \in Nodes,
         C!Start(c, kind, from)
  PROVE  CapabilityInv'
<1> USE CapabilityConstants DEF CapabilityInv
<1> DEFINE r == [C!NoCall EXCEPT !.phase = "running", !.kind = kind, !.from = from]
           kept == C!Prune(grants, now)
<1>1. /\ call[c].phase = "new" /\ call' = [call EXCEPT ![c] = r] /\ UNCHANGED <<now, io, pushed>>
      /\ grants' = [d \in DOMAIN kept \cup {c} |-> IF d = c THEN C!Live ELSE kept[d]]
  BY DEF C!Start, C!Phase, C!Mint
<1>2. r \in CallRecord /\ r.phase = "running" /\ r.ended = 0
  BY NoCallIs DEF CallRecord
<1>3. DOMAIN kept \subseteq DOMAIN grants /\ \A d \in DOMAIN kept : kept[d] = grants[d]
  BY PruneIs
<1> HIDE DEF r, kept
<1>4. call' \in [Calls -> CallRecord] /\ call'[c] = r /\ \A d \in Calls : d # c => call'[d] = call[d]
  BY <1>1, <1>2 DEF CapabilityTypes
<1>5. CapabilityTypes'
  BY <1>1, <1>3, <1>4 DEF CapabilityTypes
<1>6. ASSUME NEW d \in Calls PROVE TokenStands(d)'
  <2>1. CASE d = c
    BY <1>1, <1>2, <1>4, <2>1 DEF TokenStands, CapabilityTypes
  <2>2. CASE d # c
    BY <1>1, <1>3, <1>4, <2>2 DEF TokenStands
  <2> QED BY <2>1, <2>2
<1>7. PushStands'
  BY <1>1, <1>2, <1>4 DEF PushStands
<1> QED BY <1>5, <1>6, <1>7

\* However a call ends.
LEMMA EndStands ==
  ASSUME CapabilityInv, NEW c \in Calls, call[c].phase \in {"running", "returned"},
         call' = [call EXCEPT ![c].phase = "ended", ![c].ended = now],
         grants' = C!Finish(c), UNCHANGED <<now, pushed>>, io' \in [Calls -> IoRecord]
  PROVE  CapabilityInv'
<1> USE CapabilityConstants DEF CapabilityInv
<1> DEFINE r == [call[c] EXCEPT !.phase = "ended", !.ended = now]
<1>1. call' = [call EXCEPT ![c] = r]
  BY DEF CapabilityTypes
<1>2. r \in CallRecord /\ r.phase = "ended" /\ r.ended = now /\ r.from = call[c].from
  BY DEF CapabilityTypes, CallRecord
<1> HIDE DEF r
<1>3. call' \in [Calls -> CallRecord] /\ call'[c] = r /\ \A d \in Calls : d # c => call'[d] = call[d]
  BY <1>1, <1>2 DEF CapabilityTypes
<1>4. /\ DOMAIN grants' = DOMAIN grants /\ \A d \in DOMAIN grants : d # c => grants'[d] = grants[d]
      /\ c \in DOMAIN grants => grants'[c] = now + Grace
  BY DEF C!Finish
<1>5. CapabilityTypes'
  BY <1>3, <1>4 DEF CapabilityTypes
<1>6. ASSUME NEW d \in Calls PROVE TokenStands(d)'
  <2>1. CASE d = c
    BY <1>2, <1>3, <1>4, <2>1 DEF TokenStands, CapabilityTypes
  <2>2. CASE d # c
    BY <1>3, <1>4, <2>2 DEF TokenStands
  <2> QED BY <2>1, <2>2
<1>7. PushStands'
  BY <1>2, <1>3 DEF PushStands, CapabilityTypes
<1> QED BY <1>5, <1>6, <1>7

LEMMA EndsStands ==
  ASSUME CapabilityInv, NEW c \in Calls, C!NotSpawned(c) \/ C!Exits(c) \/ C!Aborted(c) \/ C!Closed(c)
  PROVE  CapabilityInv'
<1>1. /\ call[c].phase \in {"running", "returned"}
      /\ call' = [call EXCEPT ![c].phase = "ended", ![c].ended = now]
      /\ grants' = C!Finish(c) /\ UNCHANGED <<now, pushed>>
  BY DEF C!NotSpawned, C!Exits, C!Aborted, C!Closed, C!Ends, C!Phase
<1>2. io' = io \/ io' = [io EXCEPT ![c] = [io[c] EXCEPT !.eof = TRUE, !.behind = FALSE]]
  BY DEF C!NotSpawned, C!Exits, C!Aborted, C!Closed, C!Ends
<1>3. io \in [Calls -> IoRecord] /\ io[c] \in IoRecord
  BY DEF CapabilityInv, CapabilityTypes
<1>4. [io[c] EXCEPT !.eof = TRUE, !.behind = FALSE] \in IoRecord
  BY <1>3 DEF IoRecord
<1>5. io' \in [Calls -> IoRecord]
  BY <1>2, <1>3, <1>4
<1> QED BY <1>1, <1>5, EndStands

LEMMA PushingStands ==
  ASSUME CapabilityInv, NEW c \in Calls, NEW to \in Nodes, C!CallerPush(c, to) \/ C!Refused(c, to)
  PROVE  CapabilityInv'
<1> USE CapabilityConstants DEF CapabilityInv
<1> DEFINE kept == C!Prune(grants, now)
<1>1. /\ grants' = kept /\ UNCHANGED <<now, call, io>> /\ call[c].phase # "new"
      /\ \/ UNCHANGED pushed
         \/ /\ pushed' = [token |-> c, to |-> to, at |-> now, some |-> TRUE]
            /\ c \in DOMAIN kept /\ to = call[c].from
  BY DEF C!CallerPush, C!Refused, C!Check, C!Phase
<1>2. /\ DOMAIN kept \subseteq DOMAIN grants
      /\ \A d \in DOMAIN kept : kept[d] = grants[d] /\ (grants[d] = -1 \/ grants[d] > now)
  BY PruneIs
<1> HIDE DEF kept
<1>3. CapabilityTypes' /\ now \in Nat
  BY <1>1, <1>2 DEF CapabilityTypes
<1>4. \A d \in Calls : TokenStands(d)'
  BY <1>1, <1>2, <1>3, TokensStay
<1>5. CASE UNCHANGED pushed
  <2>1. PushStands'
    BY <1>1, <1>5 DEF PushStands
  <2> QED BY <1>3, <1>4, <2>1
<1>6. CASE /\ pushed' = [token |-> c, to |-> to, at |-> now, some |-> TRUE]
           /\ c \in DOMAIN kept /\ to = call[c].from
  <2>1. pushed'.token = c /\ pushed'.to = call[c].from /\ pushed'.at = now
    BY <1>6
  <2>2. c \in DOMAIN grants /\ (grants[c] = -1 \/ grants[c] > now)
    BY <1>2, <1>6
  <2>3. call[c].phase \in {"ended", "lost"} => now < call[c].ended + Grace
    <3>1. call[c].ended \in Nat
      BY DEF CapabilityTypes, CallRecord
    <3> QED BY <1>3, <2>2, <3>1 DEF TokenStands
  <2>4. PushStands'
    BY <1>1, <1>3, <2>1, <2>3 DEF PushStands
  <2> QED BY <1>3, <1>4, <2>4
<1> QED BY <1>1, <1>5, <1>6

\* What a binding's threads and the caller do to the streams of a call.
LEMMA StreamsStand ==
  ASSUME CapabilityInv, NEW c \in Calls,
         \/ C!ReadBegin(c) \/ C!ReadSome(c) \/ C!ReadEnd(c) \/ C!WriteBegin(c) \/ C!WriteEnd(c)
         \/ C!CloseOut(c) \/ C!CloseIn(c) \/ C!CallerEof(c) \/ \E b \in BOOLEAN : C!CallerBehind(c, b)
  PROVE  CapabilityInv'
<1> USE DEF CapabilityInv, CapabilityTypes
<1>1. UNCHANGED <<now, call, grants, pushed>>
  BY DEF C!ReadBegin, C!ReadSome, C!ReadEnd, C!WriteBegin, C!WriteEnd, C!CloseOut, C!CloseIn,
         C!CallerEof, C!CallerBehind
<1>2. io' \in [Calls -> IoRecord]
  <2>1. \A r \in IoRecord : [io EXCEPT ![c] = r] \in [Calls -> IoRecord]
    OBVIOUS
  <2>2. io[c] \in IoRecord
    OBVIOUS
  <2>3. /\ \A x \in {"free", "read"} : [io[c] EXCEPT !.stdin = x] \in IoRecord
        /\ \A x \in {"free", "write"} : [io[c] EXCEPT !.stdout = x] \in IoRecord
        /\ \A x \in SUBSET {"stdin", "stdout"} : [io[c] EXCEPT !.closed = x] \in IoRecord
        /\ \A x \in BOOLEAN : /\ [io[c] EXCEPT !.eof = x] \in IoRecord
                             /\ [io[c] EXCEPT !.behind = x] \in IoRecord
    BY <2>2 DEF IoRecord
  <2>4. \/ \E x \in {"free", "read"} : io' = [io EXCEPT ![c] = [io[c] EXCEPT !.stdin = x]]
        \/ \E x \in {"free", "write"} : io' = [io EXCEPT ![c] = [io[c] EXCEPT !.stdout = x]]
        \/ \E x \in SUBSET {"stdin", "stdout"} : io' = [io EXCEPT ![c] = [io[c] EXCEPT !.closed = x]]
        \/ \E x \in BOOLEAN : \/ io' = [io EXCEPT ![c] = [io[c] EXCEPT !.eof = x]]
                             \/ io' = [io EXCEPT ![c] = [io[c] EXCEPT !.behind = x]]
    BY DEF C!ReadBegin, C!ReadSome, C!ReadEnd, C!WriteBegin, C!WriteEnd, C!CloseOut, C!CloseIn,
           C!CallerEof, C!CallerBehind, C!Takes
  <2> QED BY <2>1, <2>3, <2>4
<1>3. \A d \in Calls : TokenStands(d)'
  BY <1>1 DEF TokenStands
<1>4. PushStands'
  BY <1>1 DEF PushStands
<1> QED BY <1>1, <1>2, <1>3, <1>4

LEMMA ReturnsStands ==
  ASSUME CapabilityInv, NEW c \in Calls, C!Returns(c)
  PROVE  CapabilityInv'
<1> USE DEF CapabilityInv
<1> DEFINE r == [call[c] EXCEPT !.phase = "returned"]
<1>1. /\ call[c].phase = "running" /\ call' = [call EXCEPT ![c] = r]
      /\ UNCHANGED <<now, io, grants, pushed>>
  BY DEF C!Returns, C!Phase, C!Goes, CapabilityTypes
<1>2. /\ r \in CallRecord /\ r.phase = "returned" /\ r.ended = call[c].ended
      /\ r.from = call[c].from
  BY DEF CapabilityTypes, CallRecord
<1> HIDE DEF r
<1>3. call' \in [Calls -> CallRecord] /\ call'[c] = r /\ \A d \in Calls : d # c => call'[d] = call[d]
  BY <1>1, <1>2 DEF CapabilityTypes
<1>4. CapabilityTypes'
  BY <1>1, <1>3 DEF CapabilityTypes
<1>5. \A d \in Calls : TokenStands(d)'
  BY <1>1, <1>2, <1>3 DEF TokenStands
<1>6. PushStands'
  BY <1>1, <1>2, <1>3 DEF PushStands
<1> QED BY <1>4, <1>5, <1>6

LEMMA ServeRestarts ==
  ASSUME CapabilityInv, C!Restart
  PROVE  CapabilityInv'
<1> USE CapabilityConstants DEF CapabilityInv
<1>1. /\ grants' = [c \in {} |-> 0] /\ UNCHANGED <<now, io, pushed>>
      /\ call' = [c \in Calls |-> IF call[c].phase \in {"running", "returned"}
                                  THEN [call[c] EXCEPT !.phase = "lost", !.ended = now]
                                  ELSE IF call[c].phase = "ended"
                                  THEN [call[c] EXCEPT !.phase = "lost"]
                                  ELSE call[c]]
  <2>1. \A c \in Calls : C!Goes(c, "lost")[c] = [call[c] EXCEPT !.phase = "lost"]
    BY DEF C!Goes, CapabilityTypes
  <2> QED BY <2>1 DEF C!Restart, C!Phase
<1>2. ASSUME NEW c \in Calls
      PROVE  /\ call'[c] \in CallRecord /\ call'[c].from = call[c].from
             /\ call'[c].phase \in {"new", "lost"} /\ (call'[c].phase = "new" => call[c].phase = "new")
             /\ call'[c].ended <= now
             /\ \/ call'[c].ended = now
                \/ call[c].phase \in {"ended", "lost", "new"} /\ call'[c].ended = call[c].ended
  <2>1. /\ call[c] \in CallRecord /\ now \in 0 .. MaxTime /\ call[c].ended <= now
    BY DEF CapabilityTypes, TokenStands
  <2>2. CASE call[c].phase \in {"running", "returned"}
    <3> DEFINE r == [call[c] EXCEPT !.phase = "lost", !.ended = now]
    <3>1. r \in CallRecord /\ r.phase = "lost" /\ r.ended = now /\ r.from = call[c].from
      BY <2>1 DEF CallRecord
    <3>2. call'[c] = r
      BY <1>1, <2>2
    <3> HIDE DEF r
    <3>3. now <= now
      BY <2>1
    <3> QED BY <2>2, <3>1, <3>2, <3>3
  <2>3. CASE call[c].phase = "ended"
    BY <1>1, <2>1, <2>3 DEF CallRecord
  <2>4. CASE call[c].phase \in {"new", "lost"}
    BY <1>1, <2>1, <2>4 DEF CallRecord
  <2> QED BY <2>1, <2>2, <2>3, <2>4 DEF CallRecord
<1>3. CapabilityTypes'
  BY <1>1, <1>2 DEF CapabilityTypes
<1>4. \A c \in Calls : TokenStands(c)'
  BY <1>1, <1>2 DEF TokenStands
<1>5. PushStands'
  <2> SUFFICES ASSUME pushed.some
               PROVE  LET c == pushed.token IN
                      /\ c \in Calls /\ call'[c].phase # "new" /\ pushed.to = call'[c].from
                      /\ pushed.at \in 0 .. now /\ pushed.at < call'[c].ended + Grace
    BY <1>1 DEF PushStands
  <2> DEFINE c == pushed.token
  <2>1. /\ c \in Calls /\ call[c].phase # "new" /\ pushed.to = call[c].from /\ pushed.at \in 0 .. now
        /\ call[c].phase \in {"ended", "lost"} => pushed.at < call[c].ended + Grace
    BY DEF PushStands
  <2> HIDE DEF c
  <2>2. now \in Nat /\ pushed.at < now + Grace
    BY <2>1 DEF CapabilityTypes
  <2> QED BY <1>2, <2>1, <2>2 DEF c
<1> QED BY <1>3, <1>4, <1>5

LEMMA HostTicks ==
  ASSUME CapabilityInv, C!Tick \/ C!ShutsDown
  PROVE  CapabilityInv'
<1> USE CapabilityConstants DEF CapabilityInv
<1>1. now' \in 0 .. MaxTime /\ now' >= now /\ UNCHANGED <<call, io, grants, pushed>>
  BY DEF C!Tick, C!ShutsDown, CapabilityTypes
<1>2. CapabilityTypes'
  BY <1>1 DEF CapabilityTypes
<1>3. \A c \in Calls : TokenStands(c)'
  BY <1>1, <1>2, TokensStay
<1>4. PushStands'
  BY <1>1 DEF PushStands, CapabilityTypes
<1> QED BY <1>2, <1>3, <1>4

LEMMA CapabilityStep ==
  ASSUME CapabilityInv, [C!Next]_(C!vars)
  PROVE  CapabilityInv'
<1>1. CASE C!Next
  BY <1>1, StartStands, EndsStands, PushingStands, StreamsStand, ReturnsStands, ServeRestarts,
     HostTicks DEF C!Next
<1>2. CASE UNCHANGED C!vars
  BY <1>2 DEF C!vars, CapabilityInv, CapabilityTypes, TokenStands, PushStands
<1> QED BY <1>1, <1>2

LEMMA CapabilityInit ==
  ASSUME C!Init
  PROVE  CapabilityInv
<1>1. /\ now = 0 /\ call = [c \in Calls |-> C!NoCall] /\ io = [c \in Calls |-> C!Streams]
      /\ DOMAIN grants = {} /\ pushed.some = FALSE
  BY DEF C!Init, C!NoPush
<1>2. C!Streams \in IoRecord
  BY DEF C!Streams, IoRecord
<1> QED BY <1>1, <1>2, NoCallIs, CapabilityConstants
    DEF CapabilityInv, CapabilityTypes, TokenStands, PushStands

LEMMA CapabilitiesArePart ==
  /\ MCInit => C!Init
  /\ [MCNext]_<<vars, capabilities, bridged, part>> => [C!Next]_(C!vars)
<1>1. MCInit => C!Init
  BY DEF MCInit
<1>2. ASSUME MCNext PROVE [C!Next]_(C!vars)
  BY <1>2 DEF MCNext, C!vars, capabilities
<1>3. UNCHANGED <<vars, capabilities, bridged, part>> => UNCHANGED C!vars
  BY DEF C!vars, capabilities
<1> QED BY <1>1, <1>2, <1>3

\* For any calls, nodes and grace: a push is let through only to the caller of the call its
\* token was minted for, and only while that call runs or within CAPABILITY_GRACE of its
\* end, however it ended, a restart of serve included; and a token that lives without an
\* end is of a call under way (capability.rs, native.rs).
THEOREM CapabilitiesFollowCalls == MCSpec => []TokensFollowCalls
<1>1. CapabilityInv => TokensFollowCalls
  <2> SUFFICES ASSUME CapabilityInv PROVE C!TypeOK /\ C!PushesReachTheCaller /\ C!LiveTokensHaveCalls
    BY DEF TokensFollowCalls, C!TokensFollowCalls
  <2>1. C!TypeOK
    BY DEF CapabilityInv, CapabilityTypes, CallRecord, IoRecord, C!TypeOK
  <2>2. C!PushesReachTheCaller
    BY DEF CapabilityInv, PushStands, C!PushesReachTheCaller
  <2>3. C!LiveTokensHaveCalls
    BY CapabilityConstants DEF CapabilityInv, CapabilityTypes, CallRecord, TokenStands, C!Live,
       C!LiveTokensHaveCalls
  <2> QED BY <2>1, <2>2, <2>3
<1> QED BY <1>1, CapabilityInit, CapabilityStep, CapabilitiesArePart, PTL DEF MCSpec

-----------------------------------------------------------------------------
(* The bytes of a session (Bridge).  What is on its way to the caller is     *)
(* one sequence of frames, over the stream and the writer's queue.           *)

Frames == [kind : {"stdout", "stderr", "exit"}, n : Int]

CallerRecord ==
  [phase : {"talking", "exited", "gone"}, input : {"open", "ended", "failed"},
   sent : Nat, printed : [B!Streams -> Seq(Nat)], code : Int]

ServiceRecord ==
  [running : BOOLEAN, closed : BOOLEAN, read : Seq(Nat), eof : BOOLEAN,
   wrote : [B!Streams -> Nat], code : Int]

BridgeTypes ==
  /\ caller \in CallerRecord /\ service \in ServiceRecord
  /\ up \in [frames : Seq(Nat), finished : BOOLEAN]
  /\ down \in [frames : Seq(Frames), finished : BOOLEAN]
  /\ feed \in {"reading", "done"} /\ stdin \in [chunks : Seq(Nat), closed : BOOLEAN]
  /\ output \in [B!Streams -> Seq(Nat)] /\ pump \in [B!Streams -> {"reading", "done"}]
  /\ queue \in Seq(Frames) /\ writer \in {"writing", "failed", "done"}
  /\ main \in {"waiting", "draining", "exiting", "over"}
  /\ Len(up.frames) <= Window /\ Len(down.frames) <= Window
  /\ Len(queue) <= Queue /\ Len(stdin.chunks) <= Pipe

\* The frames of stream s in q are those numbered after lo up to hi, in order.
Carried(q, s, lo, hi) ==
  /\ lo <= hi
  /\ \A i \in 1 .. Len(q) : q[i].kind = s => q[i].n \in lo + 1 .. hi
  /\ \A n \in lo + 1 .. hi : \E i \in 1 .. Len(q) : q[i].kind = s /\ q[i].n = n
  /\ \A i, j \in 1 .. Len(q) : i < j /\ q[i].kind = s /\ q[j].kind = s => q[i].n < q[j].n

\* q is the numbers after lo.
From(q, lo) == \A i \in 1 .. Len(q) : q[i] = lo + i

InPipe == down.frames \o queue

\* What was pumped of s.
PumpedOf(s) == service.wrote[s] - Len(output[s])

\* What the service wrote is printed, on its way or not yet pumped, until the writer
\* fails, which it does only for a caller that is gone.
OutputStands(s) ==
  /\ From(caller.printed[s], 0)
  /\ PumpedOf(s) \in Nat /\ From(output[s], PumpedOf(s))
  /\ writer # "failed" => Carried(InPipe, s, Len(caller.printed[s]), PumpedOf(s))
  /\ pump[s] = "done" => writer = "failed" \/ (output[s] = << >> /\ ~B!Holds)
  /\ main \in {"exiting", "over"} => pump[s] = "done"
  /\ caller.phase = "exited" => Len(caller.printed[s]) = service.wrote[s]

\* The exit code is the last of what is on its way, and the service's.
ExitStands ==
  /\ writer = "failed" => B!Gone
  /\ main # "waiting" => ~service.running
  /\ \A i \in 1 .. Len(InPipe) : InPipe[i].kind = "exit" =>
       i = Len(InPipe) /\ InPipe[i].n = service.code /\ main \in {"exiting", "over"}
  /\ caller.phase = "exited" => caller.code = service.code /\ main \in {"exiting", "over"}

\* What the caller sent is read, in the service's stdin or on its way, until the task
\* that feeds it ends; and the end of it is the caller's.
InputStands ==
  /\ From(service.read, 0) /\ From(stdin.chunks, Len(service.read))
  /\ feed = "reading" =>
       /\ From(up.frames, Len(service.read) + Len(stdin.chunks))
       /\ Len(service.read) + Len(stdin.chunks) + Len(up.frames) = caller.sent
  /\ up.finished => caller.input # "open"
  /\ stdin.closed => /\ feed = "done"
                     /\ \/ B!Gone \/ caller.input = "failed"
                        \/ /\ caller.input = "ended"
                           /\ Len(service.read) + Len(stdin.chunks) = caller.sent
  /\ service.eof => stdin.closed /\ stdin.chunks = << >>

BridgeInv == BridgeTypes /\ (\A s \in B!Streams : OutputStands(s)) /\ ExitStands /\ InputStands

LEMMA BridgeConstants ==
  {Window, Pipe, Queue} \subseteq Nat \ {0} /\ {MaxIn, MaxOut} \subseteq Nat
  BY HostAssumption DEF B!BridgeAssumption

\* One more at the end.
LEMMA CarriedAppend ==
  ASSUME NEW q \in Seq(Frames), NEW f \in Frames, NEW s, NEW lo \in Nat, NEW hi \in Nat,
         Carried(q, s, lo, hi)
  PROVE  /\ f.kind # s => Carried(Append(q, f), s, lo, hi)
         /\ f.kind = s /\ f.n = hi + 1 => Carried(Append(q, f), s, lo, hi + 1)
<1> DEFINE p == Append(q, f)
<1>1. /\ p \in Seq(Frames) /\ Len(p) = Len(q) + 1 /\ p[Len(p)] = f
      /\ \A i \in 1 .. Len(q) : p[i] = q[i]
  OBVIOUS
<1> HIDE DEF p
<1>2. ASSUME f.kind # s PROVE Carried(p, s, lo, hi)
  <2>1. \A i \in 1 .. Len(p) : p[i].kind = s => i \in 1 .. Len(q) /\ p[i] = q[i]
    BY <1>1, <1>2
  <2>2. \A n \in lo + 1 .. hi : \E i \in 1 .. Len(p) : p[i].kind = s /\ p[i].n = n
    <3> SUFFICES ASSUME NEW n \in lo + 1 .. hi
                 PROVE  \E i \in 1 .. Len(p) : p[i].kind = s /\ p[i].n = n
      OBVIOUS
    <3>1. PICK i \in 1 .. Len(q) : q[i].kind = s /\ q[i].n = n
      BY DEF Carried
    <3> QED BY <1>1, <3>1
  <2> QED BY <2>1, <2>2 DEF Carried
<1>3. ASSUME f.kind = s, f.n = hi + 1 PROVE Carried(p, s, lo, hi + 1)
  <2>1. lo <= hi + 1
    BY DEF Carried
  <2>2. \A i \in 1 .. Len(p) : p[i].kind = s => p[i].n \in lo + 1 .. hi + 1
    BY <1>1, <1>3 DEF Carried
  <2>3. \A n \in lo + 1 .. hi + 1 : \E i \in 1 .. Len(p) : p[i].kind = s /\ p[i].n = n
    <3> SUFFICES ASSUME NEW n \in lo + 1 .. hi + 1
                 PROVE  \E i \in 1 .. Len(p) : p[i].kind = s /\ p[i].n = n
      OBVIOUS
    <3>1. CASE n = hi + 1
      BY <1>1, <1>3, <3>1
    <3>2. CASE n \in lo + 1 .. hi
      BY <1>1, <3>2 DEF Carried
    <3> QED BY <3>1, <3>2
  <2>4. ASSUME NEW i \in 1 .. Len(p), NEW j \in 1 .. Len(p), i < j, p[i].kind = s, p[j].kind = s
        PROVE  p[i].n < p[j].n
    <3>1. i \in 1 .. Len(q) /\ p[i] = q[i] /\ q[i].n \in lo + 1 .. hi
      BY <1>1, <2>4 DEF Carried
    <3>2. CASE j = Len(p)
      BY <1>1, <1>3, <3>1, <3>2
    <3>3. CASE j \in 1 .. Len(q)
      BY <1>1, <2>4, <3>1, <3>3 DEF Carried
    <3> QED BY <1>1, <3>2, <3>3
  <2> QED BY <2>1, <2>2, <2>3, <2>4 DEF Carried
<1> QED BY <1>2, <1>3 DEF p

\* One less at the front, which is the first of its stream.
LEMMA CarriedTail ==
  ASSUME NEW q \in Seq(Frames), q # << >>, NEW s, NEW lo \in Nat, NEW hi \in Nat,
         Carried(q, s, lo, hi)
  PROVE  /\ q[1].kind # s => Carried(Tail(q), s, lo, hi)
         /\ q[1].kind = s => q[1].n = lo + 1 /\ Carried(Tail(q), s, lo + 1, hi)
<1> DEFINE p == Tail(q)
<1>1. /\ p \in Seq(Frames) /\ Len(p) = Len(q) - 1 /\ Len(q) >= 1
      /\ \A i \in 1 .. Len(p) : p[i] = q[i + 1]
      /\ \A i \in 2 .. Len(q) : i - 1 \in 1 .. Len(p) /\ q[i] = p[i - 1]
      /\ \A i \in 1 .. Len(q) : q[i] \in Frames
  OBVIOUS
<1> HIDE DEF p
<1>2. ASSUME q[1].kind # s PROVE Carried(p, s, lo, hi)
  <2>1. \A n \in lo + 1 .. hi : \E i \in 1 .. Len(p) : p[i].kind = s /\ p[i].n = n
    <3> SUFFICES ASSUME NEW n \in lo + 1 .. hi
                 PROVE  \E i \in 1 .. Len(p) : p[i].kind = s /\ p[i].n = n
      OBVIOUS
    <3>1. PICK i \in 1 .. Len(q) : q[i].kind = s /\ q[i].n = n
      BY DEF Carried
    <3>2. i \in 2 .. Len(q)
      BY <1>1, <1>2, <3>1
    <3> QED BY <1>1, <3>1, <3>2
  <2>2. \A i \in 1 .. Len(p) : i + 1 \in 1 .. Len(q) /\ p[i] = q[i + 1]
    BY <1>1
  <2>3. \A i \in 1 .. Len(p) : p[i].kind = s => p[i].n \in lo + 1 .. hi
    BY <2>2 DEF Carried
  <2>4. ASSUME NEW i \in 1 .. Len(p), NEW j \in 1 .. Len(p), i < j, p[i].kind = s, p[j].kind = s
        PROVE  p[i].n < p[j].n
    <3>1. q[i + 1].n < q[j + 1].n
      BY <2>2, <2>4 DEF Carried
    <3> QED BY <2>2, <3>1
  <2> QED BY <2>1, <2>3, <2>4 DEF Carried
<1>3. ASSUME q[1].kind = s PROVE q[1].n = lo + 1 /\ Carried(p, s, lo + 1, hi)
  <2>1. q[1].n \in lo + 1 .. hi
    BY <1>1, <1>3 DEF Carried
  <2>2. PICK i \in 1 .. Len(q) : q[i].kind = s /\ q[i].n = lo + 1
    <3>1. lo + 1 \in lo + 1 .. hi
      BY <2>1
    <3> QED BY <3>1 DEF Carried
  <2>3. q[1].n = lo + 1
    BY <1>1, <1>3, <2>1, <2>2 DEF Carried
  <2>4. \A j \in 2 .. Len(q) : q[j].kind = s => q[j].n \in lo + 2 .. hi
    <3> SUFFICES ASSUME NEW j \in 2 .. Len(q), q[j].kind = s PROVE q[j].n \in lo + 2 .. hi
      OBVIOUS
    <3>1. 1 \in 1 .. Len(q) /\ j \in 1 .. Len(q) /\ 1 < j
      BY <1>1
    <3>2. q[1].n < q[j].n /\ q[j].n \in lo + 1 .. hi
      BY <1>3, <3>1 DEF Carried
    <3> QED BY <2>3, <3>2
  <2>5. \A n \in lo + 2 .. hi : \E j \in 1 .. Len(p) : p[j].kind = s /\ p[j].n = n
    <3> SUFFICES ASSUME NEW n \in lo + 2 .. hi
                 PROVE  \E j \in 1 .. Len(p) : p[j].kind = s /\ p[j].n = n
      OBVIOUS
    <3>1. PICK j \in 1 .. Len(q) : q[j].kind = s /\ q[j].n = n
      BY DEF Carried
    <3>2. j \in 2 .. Len(q)
      BY <1>1, <2>3, <3>1
    <3> QED BY <1>1, <3>1, <3>2
  <2>6. lo + 1 <= hi
    BY <2>1
  <2>7. \A j \in 1 .. Len(p) : p[j].kind = s => p[j].n \in lo + 2 .. hi
    BY <1>1, <2>4
  <2>8. ASSUME NEW j \in 1 .. Len(p), NEW k \in 1 .. Len(p), j < k, p[j].kind = s, p[k].kind = s
        PROVE  p[j].n < p[k].n
    <3>1. j + 1 \in 1 .. Len(q) /\ k + 1 \in 1 .. Len(q) /\ p[j] = q[j + 1] /\ p[k] = q[k + 1]
      BY <1>1
    <3>2. q[j + 1].n < q[k + 1].n
      BY <2>8, <3>1 DEF Carried
    <3> QED BY <3>1, <3>2
  <2>9. (lo + 1) + 1 .. hi = lo + 2 .. hi
    OBVIOUS
  <2>10. Carried(p, s, lo + 1, hi)
    BY <2>5, <2>6, <2>7, <2>8, <2>9 DEF Carried
  <2> QED BY <2>3, <2>10
<1> QED BY <1>2, <1>3 DEF p

\* Numbers in a row.
LEMMA FromMoves ==
  ASSUME NEW q \in Seq(Nat), NEW lo \in Nat, From(q, lo)
  PROVE  /\ \A n : n = lo + Len(q) + 1 => From(Append(q, n), lo)
         /\ q # << >> => Head(q) = lo + 1 /\ From(Tail(q), lo + 1)
  BY DEF From

\* The output side where only the input side moved, and the other way round.
LEMMA OutputKept ==
  ASSUME BridgeInv, UNCHANGED <<down, output, pump, queue, writer, main>>,
         UNCHANGED <<caller.printed, caller.phase, caller.code>>,
         UNCHANGED <<service.wrote, service.running, service.closed, service.code>>
  PROVE  (\A s \in B!Streams : OutputStands(s)') /\ ExitStands'
<1>1. \A s \in B!Streams : PumpedOf(s)' = PumpedOf(s)
  BY DEF PumpedOf
<1>2. InPipe' = InPipe /\ (B!Holds' <=> B!Holds) /\ (B!Gone' <=> B!Gone)
  BY DEF InPipe, B!Holds, B!Gone
<1>3. \A s \in B!Streams : OutputStands(s)'
  BY <1>1, <1>2 DEF BridgeInv, OutputStands
<1>4. ExitStands'
  BY <1>2 DEF BridgeInv, ExitStands
<1> QED BY <1>3, <1>4

LEMMA InputKept ==
  ASSUME BridgeInv, UNCHANGED <<stdin, up, service.read, service.eof, caller.sent, caller.input>>,
         feed' \in {feed, "done"}, B!Gone => B!Gone'
  PROVE  InputStands'
BY DEF BridgeInv, InputStands

LEMMA SendsStands ==
  ASSUME BridgeInv, B!Sends
  PROVE  BridgeInv'
<1> USE BridgeConstants
<1> DEFINE next == caller.sent + 1
<1>1. /\ caller.input = "open" /\ Len(up.frames) < Window
      /\ caller' = [caller EXCEPT !.sent = next]
      /\ up' = [up EXCEPT !.frames = Append(up.frames, next)]
      /\ UNCHANGED <<down, feed, stdin, service, output, pump, queue, writer, main>>
  BY DEF B!Sends
<1>2. BridgeTypes
  BY DEF BridgeInv
<1>3. caller \in CallerRecord /\ caller.sent \in Nat /\ up.frames \in Seq(Nat)
  BY <1>2 DEF BridgeTypes, CallerRecord
<1>9. next \in Nat /\ next = caller.sent + 1
  BY <1>3
<1> HIDE DEF next
<1> DEFINE fs == Append(up.frames, next)
<1>10. /\ fs \in Seq(Nat) /\ Len(fs) = Len(up.frames) + 1 /\ Len(up.frames) \in Nat
      /\ fs = Append(up.frames, next)
  BY <1>3, <1>9
<1> HIDE DEF fs
<1>4. /\ caller' \in CallerRecord /\ caller'.sent = next
      /\ UNCHANGED <<caller.printed, caller.phase, caller.code, caller.input>>
  BY <1>1, <1>3, <1>9 DEF CallerRecord
<1>5. /\ up' \in [frames : Seq(Nat), finished : BOOLEAN] /\ up'.finished = up.finished
      /\ up'.frames = fs /\ Len(fs) <= Window
  <2>1. up \in [frames : Seq(Nat), finished : BOOLEAN]
    BY <1>2 DEF BridgeTypes
  <2>2. up' = [up EXCEPT !.frames = fs]
    BY <1>1, <1>10
  <2>3. Len(fs) <= Window
    BY <1>1, <1>10
  <2> QED BY <2>1, <2>2, <2>3, <1>10
<1>6. BridgeTypes'
  BY <1>1, <1>2, <1>4, <1>5 DEF BridgeTypes
<1>7. (\A s \in B!Streams : OutputStands(s)') /\ ExitStands'
  BY <1>1, <1>4, OutputKept
<1>8. InputStands'
  <2> DEFINE got == Len(service.read) + Len(stdin.chunks)
  <2>1. got \in Nat
    BY <1>2 DEF BridgeTypes, ServiceRecord
  <2>2. feed = "reading" => From(up.frames, got) /\ got + Len(up.frames) = caller.sent
    BY DEF BridgeInv, InputStands
  <2> HIDE DEF got
  <2>3. feed = "reading" => From(up'.frames, got) /\ got + Len(up'.frames) = next
    <3> SUFFICES ASSUME feed = "reading" PROVE From(fs, got) /\ got + Len(fs) = next
      BY <1>5
    <3>1. got + Len(up.frames) = caller.sent /\ From(up.frames, got)
      BY <2>2
    <3>2. next = got + Len(up.frames) + 1
      BY <3>1, <1>9
    <3>3. From(fs, got)
      BY <1>3, <1>10, <2>1, <3>1, <3>2, FromMoves
    <3> QED BY <1>10, <2>1, <3>2, <3>3
  <2>4. (B!Gone' <=> B!Gone) /\ (stdin.closed => B!Gone \/ caller.input = "failed")
    BY <1>1, <1>4 DEF B!Gone, BridgeInv, InputStands
  <2> QED BY <1>1, <1>4, <1>5, <2>3, <2>4 DEF BridgeInv, InputStands, got
<1> QED BY <1>6, <1>7, <1>8 DEF BridgeInv

LEMMA InputEndsStands ==
  ASSUME BridgeInv, NEW how \in {"ended", "failed"}, B!InputEnds(how)
  PROVE  BridgeInv'
<1>1. /\ caller.input = "open" /\ caller' = [caller EXCEPT !.input = how]
      /\ up' = [up EXCEPT !.finished = TRUE]
      /\ UNCHANGED <<down, feed, stdin, service, output, pump, queue, writer, main>>
  BY DEF B!InputEnds
<1>2. BridgeTypes
  BY DEF BridgeInv
<1>3. /\ caller' \in CallerRecord /\ caller'.input = how
      /\ UNCHANGED <<caller.printed, caller.phase, caller.code, caller.sent>>
  BY <1>1, <1>2 DEF BridgeTypes, CallerRecord
<1>4. up' \in [frames : Seq(Nat), finished : BOOLEAN] /\ up'.frames = up.frames
  BY <1>1, <1>2 DEF BridgeTypes
<1>5. BridgeTypes'
  BY <1>1, <1>2, <1>3, <1>4 DEF BridgeTypes
<1>6. (\A s \in B!Streams : OutputStands(s)') /\ ExitStands'
  BY <1>1, <1>3, OutputKept
<1>7. (B!Gone' <=> B!Gone) /\ (stdin.closed => B!Gone)
  BY <1>1, <1>3 DEF B!Gone, BridgeInv, InputStands
<1>8. InputStands'
  BY <1>1, <1>3, <1>4, <1>7 DEF BridgeInv, InputStands
<1> QED BY <1>5, <1>6, <1>8 DEF BridgeInv

LEMMA PipeTypes ==
  ASSUME BridgeTypes
  PROVE  /\ down.frames \in Seq(Frames) /\ queue \in Seq(Frames) /\ InPipe \in Seq(Frames)
         /\ \A s \in B!Streams : caller.printed[s] \in Seq(Nat) /\ Len(caller.printed[s]) \in Nat
         /\ \A s \in B!Streams : output[s] \in Seq(Nat) /\ service.wrote[s] \in Nat
  BY DEF BridgeTypes, CallerRecord, ServiceRecord, InPipe

LEMMA HeadOfPipe ==
  ASSUME BridgeTypes, down.frames # << >>
  PROVE  /\ Head(down.frames) \in Frames /\ Tail(down.frames) \in Seq(Frames)
         /\ Len(Tail(down.frames)) <= Window
         /\ InPipe # << >> /\ InPipe[1] = Head(down.frames)
         /\ Tail(down.frames) \o queue = Tail(InPipe)
<1>1. down.frames \in Seq(Frames) /\ queue \in Seq(Frames) /\ Len(down.frames) <= Window
  BY PipeTypes DEF BridgeTypes
<1>2. Window \in Nat
  BY BridgeConstants
<1>3. /\ Head(down.frames) \in Frames /\ Tail(down.frames) \in Seq(Frames)
      /\ Len(Tail(down.frames)) = Len(down.frames) - 1
  BY <1>1
<1>4. /\ InPipe # << >> /\ InPipe[1] = Head(down.frames)
      /\ Tail(down.frames) \o queue = Tail(InPipe)
  BY <1>1 DEF InPipe
<1> QED BY <1>1, <1>2, <1>3, <1>4

\* A frame leaves at the front: what stands of the exit code.
LEMMA ExitMoves ==
  ASSUME BridgeInv, down.frames # << >>
  PROVE  LET q == Tail(InPipe) IN
         \A i \in 1 .. Len(q) : q[i].kind = "exit" =>
           i = Len(q) /\ q[i].n = service.code /\ main \in {"exiting", "over"}
<1>1. BridgeTypes /\ InPipe \in Seq(Frames) /\ InPipe # << >>
  BY PipeTypes, HeadOfPipe DEF BridgeInv
<1> DEFINE q == Tail(InPipe)
<1>2. Len(q) = Len(InPipe) - 1 /\ \A i \in 1 .. Len(q) : i + 1 \in 1 .. Len(InPipe) /\ q[i] = InPipe[i + 1]
  BY <1>1
<1>3. \A i \in 1 .. Len(InPipe) : InPipe[i].kind = "exit" =>
       i = Len(InPipe) /\ InPipe[i].n = service.code /\ main \in {"exiting", "over"}
  BY DEF BridgeInv, ExitStands
<1> HIDE DEF q
<1>4. Len(InPipe) \in Nat
  BY <1>1
<1>5. \A i \in 1 .. Len(q) : q[i].kind = "exit" =>
        i = Len(q) /\ q[i].n = service.code /\ main \in {"exiting", "over"}
  <2> SUFFICES ASSUME NEW i \in 1 .. Len(q), q[i].kind = "exit"
               PROVE  i = Len(q) /\ q[i].n = service.code /\ main \in {"exiting", "over"}
    OBVIOUS
  <2>1. i + 1 \in 1 .. Len(InPipe) /\ q[i] = InPipe[i + 1]
    BY <1>2
  <2>2. i + 1 = Len(InPipe) /\ InPipe[i + 1].n = service.code /\ main \in {"exiting", "over"}
    BY <1>3, <2>1
  <2> QED BY <1>2, <1>4, <2>1, <2>2
<1> QED BY <1>5 DEF q

LEMMA PrintsStand ==
  ASSUME BridgeInv, B!Prints
  PROVE  BridgeInv'
<1> DEFINE f == Head(down.frames)
<1>1. /\ caller.phase = "talking" /\ down.frames # << >>
      /\ f.kind = "exit" => caller' = [caller EXCEPT !.phase = "exited", !.code = f.n]
      /\ f.kind # "exit" => caller' = [caller EXCEPT !.printed[f.kind] = Append(caller.printed[f.kind], f.n)]
      /\ down' = [down EXCEPT !.frames = Tail(down.frames)]
      /\ UNCHANGED <<up, feed, stdin, service, output, pump, queue, writer, main>>
  BY DEF B!Prints, B!Gone
<1>2. BridgeTypes /\ (\A s \in B!Streams : OutputStands(s)) /\ ExitStands
  BY DEF BridgeInv
<1>3. /\ f \in Frames /\ Tail(down.frames) \in Seq(Frames) /\ Len(Tail(down.frames)) <= Window
      /\ InPipe \in Seq(Frames) /\ InPipe # << >> /\ InPipe[1] = f
      /\ Tail(down.frames) \o queue = Tail(InPipe)
  BY <1>1, <1>2, HeadOfPipe, PipeTypes
<1>4. f.kind \in {"stdout", "stderr", "exit"} /\ f.n \in Int
  BY <1>3 DEF Frames
<1> HIDE DEF f
<1>5. /\ down' \in [frames : Seq(Frames), finished : BOOLEAN] /\ Len(down'.frames) <= Window
      /\ InPipe' = Tail(InPipe)
  BY <1>1, <1>2, <1>3 DEF BridgeTypes, InPipe
<1>6. writer # "failed"
  BY <1>1, <1>2 DEF ExitStands, B!Gone
<1>7. caller \in CallerRecord
  BY <1>2 DEF BridgeTypes
<1>8. \A s \in B!Streams :
        /\ Len(caller.printed[s]) \in Nat /\ PumpedOf(s) \in Nat /\ PumpedOf(s)' = PumpedOf(s)
        /\ Carried(InPipe, s, Len(caller.printed[s]), PumpedOf(s))
  BY <1>1, <1>2, <1>6, PipeTypes DEF OutputStands, PumpedOf
<1>9. \A i \in 1 .. Len(InPipe') : InPipe'[i].kind = "exit" =>
        i = Len(InPipe') /\ InPipe'[i].n = service.code /\ main \in {"exiting", "over"}
  BY <1>1, <1>5, ExitMoves
<1>10. CASE f.kind = "exit"
  <2>1. /\ caller' \in CallerRecord /\ caller'.phase = "exited" /\ caller'.code = f.n
        /\ UNCHANGED <<caller.printed, caller.sent, caller.input>>
    BY <1>1, <1>4, <1>7, <1>10 DEF CallerRecord
  <2>2. BridgeTypes'
    BY <1>1, <1>2, <1>5, <2>1 DEF BridgeTypes
  <2>3. InputStands'
    BY <1>1, <2>1, InputKept DEF B!Gone
  <2>4. Len(InPipe) = 1 /\ f.n = service.code /\ main \in {"exiting", "over"}
    <3>1. 1 \in 1 .. Len(InPipe) /\ InPipe[1].kind = "exit"
      BY <1>3, <1>10
    <3> QED BY <1>2, <1>3, <3>1 DEF ExitStands
  <2>5. Tail(InPipe) = << >> /\ InPipe' = << >>
    BY <1>3, <1>5, <2>4
  <2>6. ASSUME NEW s \in B!Streams PROVE OutputStands(s)'
    <3>1. Carried(Tail(InPipe), s, Len(caller.printed[s]), PumpedOf(s))
      BY <1>3, <1>8, <1>10, CarriedTail DEF B!Streams
    <3>2. Len(caller.printed[s]) = PumpedOf(s)
      <4>1. Len(Tail(InPipe)) = 0
        BY <1>3, <2>4
      <4>2. ~(PumpedOf(s) \in Len(caller.printed[s]) + 1 .. PumpedOf(s))
        BY <3>1, <4>1 DEF Carried
      <4>3. Len(caller.printed[s]) <= PumpedOf(s)
        BY <3>1 DEF Carried
      <4> QED BY <1>8, <4>2, <4>3
    <3>3. output[s] = << >>
      BY <1>2, <1>6, <2>4 DEF OutputStands
    <3>4. PumpedOf(s) = service.wrote[s]
      BY <1>2, <3>3, PipeTypes DEF PumpedOf
    <3>5. B!Holds' <=> B!Holds
      BY <1>1 DEF B!Holds
    <3> QED BY <1>1, <1>2, <1>5, <1>8, <2>1, <3>1, <3>2, <3>4, <3>5 DEF OutputStands
  <2>7. ExitStands'
    BY <1>1, <1>2, <1>6, <1>9, <2>1, <2>4 DEF ExitStands
  <2> QED BY <2>2, <2>3, <2>6, <2>7 DEF BridgeInv
<1>11. CASE f.kind # "exit"
  <2> DEFINE to == f.kind
             line == Append(caller.printed[to], f.n)
  <2>1. to \in B!Streams
    BY <1>4, <1>11 DEF B!Streams
  <2>2. f.n = Len(caller.printed[to]) + 1 /\ Carried(Tail(InPipe), to, Len(caller.printed[to]) + 1, PumpedOf(to))
    <3>1. InPipe[1].kind = to /\ InPipe[1].n = f.n
      BY <1>3
    <3>2. /\ Len(caller.printed[to]) \in Nat /\ PumpedOf(to) \in Nat
          /\ Carried(InPipe, to, Len(caller.printed[to]), PumpedOf(to))
      BY <1>8, <2>1
    <3> HIDE DEF to
    <3> QED BY <1>3, <3>1, <3>2, CarriedTail
  <2>3. caller.printed[to] \in Seq(Nat) /\ caller.printed \in [B!Streams -> Seq(Nat)]
    BY <1>2, <2>1, PipeTypes DEF BridgeTypes, CallerRecord
  <2>4. line \in Seq(Nat) /\ Len(line) = Len(caller.printed[to]) + 1
    BY <2>2, <2>3
  <2>5. From(line, 0)
    BY <1>2, <2>1, <2>2, <2>3, FromMoves DEF OutputStands
  <2>6. caller' = [caller EXCEPT !.printed = [caller.printed EXCEPT ![to] = line]]
    BY <1>1, <1>7, <1>11 DEF CallerRecord
  <2> HIDE DEF line, to
  <2>7. [caller.printed EXCEPT ![to] = line] \in [B!Streams -> Seq(Nat)]
    BY <2>3, <2>4
  <2>8. /\ caller' \in CallerRecord /\ caller'.printed = [caller.printed EXCEPT ![to] = line]
        /\ UNCHANGED <<caller.phase, caller.code, caller.sent, caller.input>>
    BY <1>7, <2>6, <2>7 DEF CallerRecord
  <2>9. BridgeTypes'
    BY <1>1, <1>2, <1>5, <2>8 DEF BridgeTypes
  <2>10. InputStands'
    BY <1>1, <2>8, InputKept DEF B!Gone
  <2>11. ASSUME NEW s \in B!Streams PROVE OutputStands(s)'
    <3>1. B!Holds' <=> B!Holds
      BY <1>1 DEF B!Holds
    <3>2. CASE s = to
      <4>1. caller'.printed[s] = line
        BY <2>1, <2>3, <2>8, <3>2
      <4>2. From(caller'.printed[s], 0) /\ Carried(InPipe', s, Len(caller'.printed[s]), PumpedOf(s))
        BY <1>5, <2>2, <2>4, <2>5, <3>2, <4>1
      <4> QED BY <1>1, <1>2, <1>8, <2>8, <3>1, <4>2 DEF OutputStands
    <3>3. CASE s # to
      <4>1. caller'.printed[s] = caller.printed[s]
        BY <2>1, <2>3, <2>8, <3>3
      <4>2. Carried(InPipe', s, Len(caller'.printed[s]), PumpedOf(s))
        BY <1>3, <1>5, <1>8, <3>3, <4>1, CarriedTail DEF to
      <4> QED BY <1>1, <1>2, <1>8, <2>8, <3>1, <4>1, <4>2 DEF OutputStands
    <3> QED BY <3>2, <3>3
  <2>12. ExitStands'
    BY <1>1, <1>2, <1>6, <1>9, <2>8 DEF ExitStands
  <2> QED BY <2>9, <2>10, <2>11, <2>12 DEF BridgeInv
<1> QED BY <1>10, <1>11

\* The caller is gone.
LEMMA LeavesStands ==
  ASSUME BridgeInv, B!Leaves
  PROVE  BridgeInv'
<1>1. /\ caller.phase = "talking" /\ caller' = [caller EXCEPT !.phase = "gone"]
      /\ UNCHANGED <<up, down, feed, stdin, service, output, pump, queue, writer, main>>
  BY DEF B!Leaves, B!Gone
<1>2. BridgeTypes /\ (\A s \in B!Streams : OutputStands(s)) /\ ExitStands
  BY DEF BridgeInv
<1>3. /\ caller' \in CallerRecord /\ caller'.phase = "gone"
      /\ UNCHANGED <<caller.printed, caller.code, caller.sent, caller.input>>
  BY <1>1, <1>2 DEF BridgeTypes, CallerRecord
<1>4. BridgeTypes'
  BY <1>1, <1>2, <1>3 DEF BridgeTypes
<1>5. InPipe' = InPipe /\ (B!Holds' <=> B!Holds) /\ B!Gone' /\ \A s \in B!Streams : PumpedOf(s)' = PumpedOf(s)
  BY <1>1, <1>3 DEF InPipe, B!Holds, PumpedOf, B!Gone
<1>6. \A s \in B!Streams : OutputStands(s)'
  BY <1>1, <1>2, <1>3, <1>5 DEF OutputStands
<1>7. ExitStands'
  BY <1>1, <1>2, <1>3, <1>5 DEF ExitStands
<1>8. InputStands'
  BY <1>1, <1>3, <1>5, InputKept
<1> QED BY <1>4, <1>6, <1>7, <1>8 DEF BridgeInv

\* The host's stdin task: a chunk goes to the service, or nothing more does.
LEMMA FeedsStands ==
  ASSUME BridgeInv, B!Feeds
  PROVE  BridgeInv'
<1>1. BridgeTypes /\ InputStands
  BY DEF BridgeInv
<1> DEFINE chunk == Head(up.frames)
           rest == Tail(up.frames)
<1>2. /\ feed = "reading" /\ up.frames # << >>
      /\ \/ /\ Len(stdin.chunks) < Pipe /\ feed' = feed
            /\ stdin' = [stdin EXCEPT !.chunks = Append(stdin.chunks, chunk)]
         \/ feed' = "done" /\ stdin' = stdin
      /\ up' = [up EXCEPT !.frames = rest]
      /\ UNCHANGED <<caller, down, service, output, pump, queue, writer, main>>
  BY DEF B!Feeds
<1>3. /\ up \in [frames : Seq(Nat), finished : BOOLEAN] /\ up.frames \in Seq(Nat)
      /\ stdin \in [chunks : Seq(Nat), closed : BOOLEAN] /\ stdin.chunks \in Seq(Nat)
      /\ service.read \in Seq(Nat) /\ caller.sent \in Nat /\ Len(up.frames) <= Window
  BY <1>1 DEF BridgeTypes, CallerRecord, ServiceRecord
<1>4. Window \in Nat /\ Pipe \in Nat
  BY BridgeConstants
<1>5. chunk \in Nat /\ rest \in Seq(Nat) /\ Len(rest) = Len(up.frames) - 1 /\ Len(rest) <= Window
  BY <1>2, <1>3, <1>4
<1> DEFINE got == Len(service.read) + Len(stdin.chunks)
<1>6. got \in Nat /\ Len(service.read) \in Nat /\ Len(stdin.chunks) \in Nat
  BY <1>3
<1>7. From(up.frames, got) /\ got + Len(up.frames) = caller.sent
  BY <1>1, <1>2 DEF InputStands
<1>8. chunk = got + 1 /\ From(rest, got + 1)
  BY <1>2, <1>3, <1>6, <1>7, FromMoves
<1> DEFINE longer == Append(stdin.chunks, chunk)
<1>9. longer \in Seq(Nat) /\ Len(longer) = Len(stdin.chunks) + 1
  BY <1>3, <1>5
<1>10. From(stdin.chunks, Len(service.read))
  BY <1>1 DEF InputStands
<1>11. From(longer, Len(service.read))
  BY <1>3, <1>6, <1>8, <1>10, FromMoves
<1> HIDE DEF longer, chunk, rest
<1>12. up' \in [frames : Seq(Nat), finished : BOOLEAN] /\ up'.frames = rest /\ up'.finished = up.finished
  BY <1>2, <1>3, <1>5
<1>13. (\A s \in B!Streams : OutputStands(s)') /\ ExitStands'
  BY <1>2, OutputKept
<1>14. stdin.closed = FALSE /\ service.eof = FALSE
  BY <1>1, <1>2, <1>3 DEF InputStands, BridgeTypes, ServiceRecord
<1>15. (B!Gone' <=> B!Gone)
  BY <1>2 DEF B!Gone
<1>16. CASE feed' = "done" /\ stdin' = stdin
  <2>1. BridgeTypes'
    BY <1>1, <1>2, <1>5, <1>12, <1>16 DEF BridgeTypes
  <2>2. InputStands'
    BY <1>1, <1>2, <1>12, <1>14, <1>16 DEF InputStands
  <2> QED BY <1>13, <2>1, <2>2 DEF BridgeInv
<1>17. CASE /\ Len(stdin.chunks) < Pipe /\ feed' = feed
            /\ stdin' = [stdin EXCEPT !.chunks = Append(stdin.chunks, chunk)]
  <2>1. stdin' = [stdin EXCEPT !.chunks = longer]
    BY <1>17 DEF longer
  <2>2. /\ stdin' \in [chunks : Seq(Nat), closed : BOOLEAN]
        /\ stdin'.chunks = longer /\ stdin'.closed = stdin.closed
    BY <1>3, <1>9, <2>1
  <2>3. Len(longer) <= Pipe
    BY <1>4, <1>6, <1>9, <1>17
  <2>4. BridgeTypes'
    BY <1>1, <1>2, <1>5, <1>12, <1>17, <2>2, <2>3 DEF BridgeTypes
  <2>5. Len(service.read) + Len(longer) = got + 1
    <3> DEFINE a == Len(service.read)
               b == Len(stdin.chunks)
               c == Len(longer)
    <3>1. a \in Nat /\ b \in Nat /\ c = b + 1 /\ got = a + b
      BY <1>6, <1>9
    <3> HIDE DEF a, b, c, got
    <3>2. a + c = got + 1
      BY <3>1
    <3> QED BY <3>2 DEF a, c
  <2>6. (got + 1) + Len(rest) = caller.sent
    BY <1>3, <1>5, <1>6, <1>7
  <2>7. InputStands'
    BY <1>1, <1>2, <1>8, <1>11, <1>12, <1>14, <2>2, <2>5, <2>6 DEF InputStands
  <2> QED BY <1>13, <2>4, <2>7 DEF BridgeInv
<1> QED BY <1>2, <1>16, <1>17

LEMMA FeedEndsStands ==
  ASSUME BridgeInv, B!FeedEnds
  PROVE  BridgeInv'
<1>1. BridgeTypes /\ InputStands
  BY DEF BridgeInv
<1>2. /\ feed = "reading" /\ feed' = "done"
      /\ B!Gone \/ (up.frames = << >> /\ up.finished)
      /\ stdin' = [stdin EXCEPT !.closed = TRUE]
      /\ UNCHANGED <<caller, up, down, service, output, pump, queue, writer, main>>
  BY DEF B!FeedEnds
<1>3. /\ stdin' \in [chunks : Seq(Nat), closed : BOOLEAN]
      /\ stdin'.chunks = stdin.chunks /\ stdin'.closed
  BY <1>1, <1>2 DEF BridgeTypes
<1>4. BridgeTypes'
  BY <1>1, <1>2, <1>3 DEF BridgeTypes
<1>5. (\A s \in B!Streams : OutputStands(s)') /\ ExitStands'
  BY <1>2, OutputKept
<1>6. \/ B!Gone \/ caller.input = "failed"
      \/ caller.input = "ended" /\ Len(service.read) + Len(stdin.chunks) = caller.sent
  <2>1. CASE B!Gone
    BY <2>1
  <2>2. CASE up.frames = << >> /\ up.finished
    <3>1. caller.input \in {"ended", "failed"}
      BY <1>1, <2>2 DEF InputStands, BridgeTypes, CallerRecord
    <3>2. Len(service.read) + Len(stdin.chunks) + Len(up.frames) = caller.sent
      BY <1>1, <1>2 DEF InputStands
    <3>3. /\ Len(up.frames) = 0 /\ Len(service.read) \in Nat /\ Len(stdin.chunks) \in Nat
      BY <1>1, <2>2 DEF BridgeTypes, ServiceRecord
    <3>4. Len(service.read) + Len(stdin.chunks) = caller.sent
      <4> DEFINE a == Len(service.read)
                 b == Len(stdin.chunks)
                 c == Len(up.frames)
      <4>1. a \in Nat /\ b \in Nat /\ c = 0 /\ a + b + c = caller.sent
        BY <3>2, <3>3
      <4> HIDE DEF a, b, c
      <4>2. a + b = caller.sent
        BY <4>1
      <4> QED BY <4>2 DEF a, b
    <3> QED BY <3>1, <3>4
  <2> QED BY <1>2, <2>1, <2>2
<1>7. B!Gone' <=> B!Gone
  BY <1>2 DEF B!Gone
<1>8. service.eof => stdin.closed
  BY <1>1 DEF InputStands
<1>9. stdin.closed = FALSE
  BY <1>1, <1>2 DEF InputStands, BridgeTypes
<1>10. InputStands'
  BY <1>1, <1>2, <1>3, <1>6, <1>7, <1>8, <1>9 DEF InputStands
<1> QED BY <1>4, <1>5, <1>10 DEF BridgeInv

\* The service reads what is next, or the end.
LEMMA ReadsStand ==
  ASSUME BridgeInv, B!Reads
  PROVE  BridgeInv'
<1>1. BridgeTypes /\ InputStands
  BY DEF BridgeInv
<1>2. /\ service \in ServiceRecord /\ service.read \in Seq(Nat) /\ Len(service.read) \in Nat
      /\ stdin \in [chunks : Seq(Nat), closed : BOOLEAN] /\ stdin.chunks \in Seq(Nat)
      /\ Len(stdin.chunks) <= Pipe /\ Pipe \in Nat
  BY <1>1, BridgeConstants DEF BridgeTypes, ServiceRecord
<1>3. UNCHANGED <<caller, up, down, feed, output, pump, queue, writer, main>>
  BY DEF B!Reads
<1>4. B!Gone' <=> B!Gone
  BY <1>3 DEF B!Gone
<1>5. CASE /\ stdin.chunks # << >>
           /\ service' = [service EXCEPT !.read = Append(service.read, Head(stdin.chunks))]
           /\ stdin' = [stdin EXCEPT !.chunks = Tail(stdin.chunks)]
  <2> DEFINE chunk == Head(stdin.chunks)
             rest == Tail(stdin.chunks)
             longer == Append(service.read, chunk)
  <2>1. chunk \in Nat /\ rest \in Seq(Nat) /\ Len(rest) = Len(stdin.chunks) - 1
        /\ Len(stdin.chunks) \in Nat
    BY <1>2, <1>5
  <2>2. From(service.read, 0) /\ From(stdin.chunks, Len(service.read))
    BY <1>1 DEF InputStands
  <2>3. chunk = Len(service.read) + 1 /\ From(rest, Len(service.read) + 1)
    BY <1>2, <1>5, <2>2, FromMoves
  <2>4. longer \in Seq(Nat) /\ Len(longer) = Len(service.read) + 1
    BY <1>2, <2>1
  <2>5. From(longer, 0)
    BY <1>2, <2>2, <2>3, FromMoves
  <2>6. service' = [service EXCEPT !.read = longer] /\ stdin' = [stdin EXCEPT !.chunks = rest]
    BY <1>5
  <2> HIDE DEF longer, rest, chunk
  <2>7. /\ service' \in ServiceRecord /\ service'.read = longer
        /\ UNCHANGED <<service.running, service.closed, service.eof, service.wrote, service.code>>
    BY <1>2, <2>4, <2>6 DEF ServiceRecord
  <2>8. /\ stdin' \in [chunks : Seq(Nat), closed : BOOLEAN] /\ stdin'.chunks = rest
        /\ stdin'.closed = stdin.closed
    BY <1>2, <2>1, <2>6
  <2>9. Len(rest) <= Pipe
    BY <1>2, <2>1
  <2>10. BridgeTypes'
    BY <1>1, <1>3, <2>7, <2>8, <2>9 DEF BridgeTypes
  <2>11. (\A s \in B!Streams : OutputStands(s)') /\ ExitStands'
    BY <1>3, <2>7, OutputKept
  <2>12. Len(longer) + Len(rest) = Len(service.read) + Len(stdin.chunks)
    <3> DEFINE a == Len(service.read)
               b == Len(stdin.chunks)
               c == Len(longer)
               d == Len(rest)
    <3>1. a \in Nat /\ b \in Nat /\ c = a + 1 /\ d = b - 1
      BY <1>2, <2>1, <2>4
    <3> HIDE DEF a, b, c, d
    <3>2. c + d = a + b
      BY <3>1
    <3> QED BY <3>2 DEF a, b, c, d
  <2>13. ~service.eof
    BY <1>1, <1>5 DEF InputStands
  <2>14. InputStands'
    BY <1>1, <1>3, <1>4, <2>3, <2>4, <2>5, <2>7, <2>8, <2>12, <2>13 DEF InputStands
  <2> QED BY <2>10, <2>11, <2>14 DEF BridgeInv
<1>6. CASE /\ stdin.chunks = << >> /\ stdin.closed /\ ~service.eof
           /\ service' = [service EXCEPT !.eof = TRUE] /\ stdin' = stdin
  <2>1. /\ service' \in ServiceRecord /\ service'.eof
        /\ UNCHANGED <<service.running, service.closed, service.read, service.wrote, service.code>>
    BY <1>2, <1>6 DEF ServiceRecord
  <2>2. BridgeTypes'
    BY <1>1, <1>3, <1>6, <2>1 DEF BridgeTypes
  <2>3. (\A s \in B!Streams : OutputStands(s)') /\ ExitStands'
    BY <1>3, <2>1, OutputKept
  <2>4. InputStands'
    BY <1>1, <1>3, <1>4, <1>6, <2>1 DEF InputStands
  <2> QED BY <2>2, <2>3, <2>4 DEF BridgeInv
<1> QED BY <1>5, <1>6 DEF B!Reads

\* The service lets go of its stdio, or ends, or is killed.
LEMMA LettingGoStands ==
  ASSUME BridgeInv, NEW r \in ServiceRecord, service' = r,
         r.read = service.read, r.eof = service.eof, r.wrote = service.wrote,
         service.running \/ r.code = service.code, r.running => service.running,
         service.closed => r.closed,
         main' = main \/ (~r.running /\ main = "waiting" /\ main' = "draining"),
         UNCHANGED <<caller, up, down, feed, stdin, output, pump, queue, writer>>
  PROVE  BridgeInv'
<1>1. BridgeTypes /\ (\A s \in B!Streams : OutputStands(s)) /\ ExitStands /\ InputStands
  BY DEF BridgeInv
<1>2. BridgeTypes'
  BY <1>1 DEF BridgeTypes
<1>3. InPipe' = InPipe /\ (B!Gone' <=> B!Gone) /\ (B!Holds' => B!Holds)
  BY <1>1 DEF InPipe, B!Gone, B!Holds, BridgeTypes, ServiceRecord
<1>4. \A s \in B!Streams : PumpedOf(s)' = PumpedOf(s)
  BY DEF PumpedOf
<1>5. main' \in {"exiting", "over"} <=> main \in {"exiting", "over"}
  OBVIOUS
<1>6. \A s \in B!Streams : OutputStands(s)'
  BY <1>1, <1>3, <1>4, <1>5 DEF OutputStands
<1>7. main # "waiting" => r.code = service.code
  BY <1>1 DEF ExitStands
<1>8. main' # "waiting" => ~r.running
  BY <1>1 DEF ExitStands
<1>9. ExitStands'
  BY <1>1, <1>3, <1>5, <1>7, <1>8 DEF ExitStands
<1>10. InputStands'
  BY <1>1, <1>3 DEF InputStands
<1> QED BY <1>2, <1>6, <1>9, <1>10 DEF BridgeInv

LEMMA ServiceEndsStands ==
  ASSUME BridgeInv, B!Closes \/ (\E code \in {0, B!Killed} : B!Ends(code)) \/ B!Kills \/ B!Waited
  PROVE  BridgeInv'
<1>1. service \in ServiceRecord
  BY DEF BridgeInv, BridgeTypes
<1>2. CASE B!Closes
  <2> DEFINE r == [service EXCEPT !.closed = TRUE]
  <2>1. /\ r \in ServiceRecord /\ r.closed /\ r.read = service.read /\ r.eof = service.eof
        /\ r.wrote = service.wrote /\ r.code = service.code /\ r.running = service.running
    BY <1>1 DEF ServiceRecord
  <2>2. /\ service' = r /\ main' = main
        /\ UNCHANGED <<caller, up, down, feed, stdin, output, pump, queue, writer>>
    BY <1>2 DEF B!Closes
  <2> HIDE DEF r
  <2> QED BY <2>1, <2>2, LettingGoStands
<1>3. ASSUME NEW code \in {0, B!Killed}, B!Ends(code) PROVE BridgeInv'
  <2> DEFINE r == [service EXCEPT !.running = FALSE, !.code = code]
  <2>1. code \in Int
    BY DEF B!Killed
  <2>2. /\ r \in ServiceRecord /\ r.closed = service.closed /\ r.read = service.read
        /\ r.eof = service.eof /\ r.wrote = service.wrote /\ ~r.running
    BY <1>1, <2>1 DEF ServiceRecord
  <2>3. /\ service' = r /\ main' = main /\ service.running
        /\ UNCHANGED <<caller, up, down, feed, stdin, output, pump, queue, writer>>
    BY <1>3 DEF B!Ends
  <2> HIDE DEF r
  <2> QED BY <2>2, <2>3, LettingGoStands
<1>4. CASE B!Kills
  <2> DEFINE code == IF service.running THEN B!Killed ELSE service.code
             r == [service EXCEPT !.running = FALSE, !.code = code]
  <2>1. code \in Int /\ (service.running \/ code = service.code)
    BY <1>1 DEF B!Killed, ServiceRecord
  <2>2. /\ service' = r /\ main = "waiting" /\ main' = "draining"
        /\ UNCHANGED <<caller, up, down, feed, stdin, output, pump, queue, writer>>
    BY <1>4 DEF B!Kills
  <2> HIDE DEF code
  <2>3. /\ r \in ServiceRecord /\ r.closed = service.closed /\ r.read = service.read
        /\ r.eof = service.eof /\ r.wrote = service.wrote /\ ~r.running /\ r.code = code
    BY <1>1, <2>1 DEF ServiceRecord
  <2> HIDE DEF r
  <2> QED BY <2>1, <2>2, <2>3, LettingGoStands
<1>5. CASE B!Waited
  <2>1. /\ service' = service /\ ~service.running /\ main = "waiting" /\ main' = "draining"
        /\ UNCHANGED <<caller, up, down, feed, stdin, output, pump, queue, writer>>
    BY <1>5 DEF B!Waited
  <2> QED BY <1>1, <2>1, LettingGoStands
<1> QED BY <1>2, <1>3, <1>4, <1>5

\* What the service writes is not pumped yet.
LEMMA OutputsStand ==
  ASSUME BridgeInv, NEW s \in B!Streams, B!Outputs(s)
  PROVE  BridgeInv'
<1> DEFINE n == service.wrote[s] + 1
           written == Append(output[s], n)
<1>1. /\ B!Holds /\ pump[s] = "reading" /\ Len(output[s]) < Pipe
      /\ service' = [service EXCEPT !.wrote[s] = n]
      /\ output' = [output EXCEPT ![s] = written]
      /\ UNCHANGED <<caller, up, down, feed, stdin, pump, queue, writer, main>>
  BY DEF B!Outputs
<1>2. BridgeTypes /\ (\A t \in B!Streams : OutputStands(t)) /\ ExitStands
  BY DEF BridgeInv
<1>3. /\ service \in ServiceRecord /\ service.wrote \in [B!Streams -> Nat]
      /\ output \in [B!Streams -> Seq(Nat)] /\ output[s] \in Seq(Nat) /\ service.wrote[s] \in Nat
  BY <1>2 DEF BridgeTypes, ServiceRecord
<1>4. n \in Nat /\ n = service.wrote[s] + 1
  BY <1>3
<1>5. From(output[s], PumpedOf(s)) /\ PumpedOf(s) \in Nat
  BY <1>2 DEF OutputStands
<1>6. n = PumpedOf(s) + Len(output[s]) + 1
  BY <1>3 DEF PumpedOf
<1>7. From(written, PumpedOf(s))
  BY <1>3, <1>4, <1>5, <1>6, FromMoves
<1> HIDE DEF n
<1>8. written \in Seq(Nat) /\ Len(written) = Len(output[s]) + 1
  BY <1>3, <1>4
<1> HIDE DEF written
<1>9. service' = [service EXCEPT !.wrote = [service.wrote EXCEPT ![s] = n]]
  BY <1>1, <1>3 DEF ServiceRecord
<1>10. [service.wrote EXCEPT ![s] = n] \in [B!Streams -> Nat]
  BY <1>3, <1>4
<1>11. /\ service' \in ServiceRecord /\ service'.wrote = [service.wrote EXCEPT ![s] = n]
       /\ UNCHANGED <<service.running, service.closed, service.read, service.eof, service.code>>
  BY <1>3, <1>9, <1>10 DEF ServiceRecord
<1>12. output' \in [B!Streams -> Seq(Nat)]
  BY <1>1, <1>3, <1>8
<1>13. BridgeTypes'
  BY <1>1, <1>2, <1>11, <1>12 DEF BridgeTypes
<1>14. InputStands'
  BY <1>1, <1>11, InputKept DEF B!Gone
<1>15. (B!Holds' <=> B!Holds) /\ InPipe' = InPipe /\ (B!Gone' <=> B!Gone)
  BY <1>1, <1>11 DEF B!Holds, InPipe, B!Gone
<1>16. ASSUME NEW t \in B!Streams, t # s PROVE OutputStands(t)'
  <2>1. output'[t] = output[t] /\ service'.wrote[t] = service.wrote[t]
    BY <1>1, <1>3, <1>11, <1>16
  <2>2. PumpedOf(t)' = PumpedOf(t)
    BY <2>1 DEF PumpedOf
  <2> QED BY <1>1, <1>2, <1>15, <2>1, <2>2 DEF OutputStands
<1>17. main = "waiting"
  BY <1>1, <1>2 DEF B!Holds, ExitStands
<1>18. caller.phase # "exited"
  BY <1>2, <1>17 DEF ExitStands
<1>19. OutputStands(s)'
  <2>1. output'[s] = written /\ service'.wrote[s] = n
    BY <1>1, <1>3, <1>11
  <2>2. n - Len(written) = PumpedOf(s)
    <3> DEFINE a == service.wrote[s]
               b == Len(output[s])
               c == Len(written)
    <3>1. a \in Nat /\ b \in Nat /\ c = b + 1 /\ n = a + 1 /\ PumpedOf(s) = a - b
      BY <1>3, <1>4, <1>8 DEF PumpedOf
    <3> HIDE DEF a, b, c
    <3>2. n - c = PumpedOf(s)
      BY <3>1
    <3> QED BY <3>2 DEF c
  <2>3. PumpedOf(s)' = PumpedOf(s)
    BY <2>1, <2>2 DEF PumpedOf
  <2> QED BY <1>1, <1>2, <1>7, <1>15, <1>17, <1>18, <2>1, <2>3 DEF OutputStands
<1>20. ExitStands'
  BY <1>1, <1>2, <1>11, <1>15 DEF ExitStands
<1>21. \A t \in B!Streams : OutputStands(t)'
  BY <1>16, <1>19
<1> QED BY <1>13, <1>14, <1>20, <1>21 DEF BridgeInv

LEMMA PumpEndsStands ==
  ASSUME BridgeInv, NEW s \in B!Streams, B!PumpEnds(s)
  PROVE  BridgeInv'
<1>1. /\ output[s] = << >> /\ ~B!Holds /\ pump[s] = "reading" /\ pump' = [pump EXCEPT ![s] = "done"]
      /\ UNCHANGED <<caller, up, down, feed, stdin, service, output, queue, writer, main>>
  BY DEF B!PumpEnds
<1>2. BridgeTypes /\ (\A t \in B!Streams : OutputStands(t)) /\ ExitStands
  BY DEF BridgeInv
<1>3. pump \in [B!Streams -> {"reading", "done"}]
  BY <1>2 DEF BridgeTypes
<1>4. BridgeTypes'
  BY <1>1, <1>2, <1>3 DEF BridgeTypes
<1>5. InputStands'
  BY <1>1, InputKept DEF B!Gone
<1>6. (B!Holds' <=> B!Holds) /\ InPipe' = InPipe /\ (B!Gone' <=> B!Gone)
  BY <1>1 DEF B!Holds, InPipe, B!Gone
<1>7. ASSUME NEW t \in B!Streams PROVE OutputStands(t)'
  <2>1. PumpedOf(t)' = PumpedOf(t)
    BY <1>1 DEF PumpedOf
  <2>2. pump'[t] = IF t = s THEN "done" ELSE pump[t]
    BY <1>1, <1>3
  <2> QED BY <1>1, <1>2, <1>6, <2>1, <2>2 DEF OutputStands
<1>8. ExitStands'
  BY <1>1, <1>2, <1>6 DEF ExitStands
<1> QED BY <1>4, <1>5, <1>7, <1>8 DEF BridgeInv

\* The writer fails only at a caller that is gone, and with it what was on its way.
LEMMA WriteFailsStands ==
  ASSUME BridgeInv, B!WriteFails
  PROVE  BridgeInv'
<1>1. /\ B!Gone /\ writer = "writing" /\ writer' = "failed"
      /\ UNCHANGED <<caller, up, down, feed, stdin, service, output, pump, queue, main>>
  BY DEF B!WriteFails
<1>2. BridgeTypes /\ (\A t \in B!Streams : OutputStands(t)) /\ ExitStands
  BY DEF BridgeInv
<1>3. BridgeTypes'
  BY <1>1, <1>2 DEF BridgeTypes
<1>4. InputStands'
  BY <1>1, InputKept DEF B!Gone
<1>5. (B!Holds' <=> B!Holds) /\ InPipe' = InPipe /\ B!Gone'
  BY <1>1 DEF B!Holds, InPipe, B!Gone
<1>6. ASSUME NEW t \in B!Streams PROVE OutputStands(t)'
  <2>1. PumpedOf(t)' = PumpedOf(t)
    BY <1>1 DEF PumpedOf
  <2> QED BY <1>1, <1>2, <1>5, <2>1 DEF OutputStands
<1>7. ExitStands'
  BY <1>1, <1>2, <1>5 DEF ExitStands
<1> QED BY <1>3, <1>4, <1>6, <1>7 DEF BridgeInv

\* The writer task moves a frame from its queue to the stream.
LEMMA WritesStand ==
  ASSUME BridgeInv, B!Writes
  PROVE  BridgeInv'
<1> DEFINE f == Head(queue)
<1>1. /\ queue # << >> /\ Len(down.frames) < Window
      /\ queue' = Tail(queue) /\ down' = [down EXCEPT !.frames = Append(down.frames, f)]
      /\ UNCHANGED <<caller, up, feed, stdin, service, output, pump, writer, main>>
  BY DEF B!Writes
<1>2. BridgeTypes /\ (\A t \in B!Streams : OutputStands(t)) /\ ExitStands
  BY DEF BridgeInv
<1>3. /\ queue \in Seq(Frames) /\ down.frames \in Seq(Frames)
      /\ down \in [frames : Seq(Frames), finished : BOOLEAN]
      /\ Len(queue) <= Queue /\ Queue \in Nat /\ Window \in Nat
  BY <1>2, PipeTypes, BridgeConstants DEF BridgeTypes
<1> DEFINE sent == Append(down.frames, f)
<1>4. /\ f \in Frames /\ sent \in Seq(Frames) /\ Len(sent) = Len(down.frames) + 1
      /\ Tail(queue) \in Seq(Frames) /\ Len(Tail(queue)) <= Queue
      /\ Len(sent) <= Window
  BY <1>1, <1>3
<1>5. sent \o Tail(queue) = InPipe
  BY <1>1, <1>3 DEF InPipe
<1>6. down' = [down EXCEPT !.frames = sent]
  BY <1>1
<1> HIDE DEF sent
<1>7. down' \in [frames : Seq(Frames), finished : BOOLEAN] /\ down'.frames = sent
  BY <1>3, <1>4, <1>6
<1>8. BridgeTypes'
  BY <1>1, <1>2, <1>4, <1>7 DEF BridgeTypes
<1>9. InputStands'
  BY <1>1, InputKept DEF B!Gone
<1>10. (B!Holds' <=> B!Holds) /\ InPipe' = InPipe /\ (B!Gone' <=> B!Gone)
  BY <1>1, <1>5, <1>7 DEF B!Holds, InPipe, B!Gone
<1>11. ASSUME NEW t \in B!Streams PROVE OutputStands(t)'
  <2>1. PumpedOf(t)' = PumpedOf(t)
    BY <1>1 DEF PumpedOf
  <2> QED BY <1>1, <1>2, <1>10, <2>1 DEF OutputStands
<1>12. ExitStands'
  BY <1>1, <1>2, <1>10 DEF ExitStands
<1> QED BY <1>8, <1>9, <1>11, <1>12 DEF BridgeInv

LEMMA FinishesStands ==
  ASSUME BridgeInv, B!Finishes
  PROVE  BridgeInv'
<1>1. /\ main = "exiting" /\ main' = "over" /\ writer' \in {writer, "done"}
      /\ writer = "failed" <=> writer' = "failed"
      /\ down' = [down EXCEPT !.finished = TRUE]
      /\ UNCHANGED <<caller, up, feed, stdin, service, output, pump, queue>>
  BY DEF B!Finishes
<1>2. BridgeTypes /\ (\A t \in B!Streams : OutputStands(t)) /\ ExitStands
  BY DEF BridgeInv
<1>3. down' \in [frames : Seq(Frames), finished : BOOLEAN] /\ down'.frames = down.frames
  BY <1>1, <1>2 DEF BridgeTypes
<1>4. BridgeTypes'
  BY <1>1, <1>2, <1>3 DEF BridgeTypes
<1>5. InputStands'
  BY <1>1, InputKept DEF B!Gone
<1>6. (B!Holds' <=> B!Holds) /\ InPipe' = InPipe /\ (B!Gone' <=> B!Gone)
  BY <1>1, <1>3 DEF B!Holds, InPipe, B!Gone
<1>7. ASSUME NEW t \in B!Streams PROVE OutputStands(t)'
  <2>1. PumpedOf(t)' = PumpedOf(t)
    BY <1>1 DEF PumpedOf
  <2> QED BY <1>1, <1>2, <1>6, <2>1 DEF OutputStands
<1>8. ExitStands'
  BY <1>1, <1>2, <1>6 DEF ExitStands
<1> QED BY <1>4, <1>5, <1>7, <1>8 DEF BridgeInv

LEMMA ConcatAppend ==
  ASSUME NEW S, NEW d \in Seq(S), NEW q \in Seq(S), NEW f \in S
  PROVE  d \o Append(q, f) = Append(d \o q, f)
<1> DEFINE l == d \o Append(q, f)
           r == Append(d \o q, f)
<1>1. l \in Seq(S) /\ r \in Seq(S) /\ Len(l) = Len(d) + Len(q) + 1 /\ Len(r) = Len(d) + Len(q) + 1
  OBVIOUS
<1>2. \A i \in 1 .. Len(d) + Len(q) + 1 : l[i] = r[i]
  OBVIOUS
<1> HIDE DEF l, r
<1>3. l = r
  BY <1>1, <1>2
<1> QED BY <1>3 DEF l, r

\* A frame joins the writer's queue.
LEMMA PipeGrows ==
  ASSUME BridgeTypes, NEW f \in Frames, Len(queue) < Queue
  PROVE  /\ Append(queue, f) \in Seq(Frames) /\ Len(Append(queue, f)) <= Queue
         /\ down.frames \o Append(queue, f) = Append(InPipe, f)
         /\ Len(Append(InPipe, f)) = Len(InPipe) + 1 /\ Append(InPipe, f)[Len(InPipe) + 1] = f
         /\ \A i \in 1 .. Len(InPipe) : Append(InPipe, f)[i] = InPipe[i]
<1>1. down.frames \in Seq(Frames) /\ queue \in Seq(Frames) /\ InPipe \in Seq(Frames) /\ Queue \in Nat
  BY PipeTypes, BridgeConstants
<1>2. /\ Append(queue, f) \in Seq(Frames) /\ Len(Append(queue, f)) <= Queue
      /\ down.frames \o Append(queue, f) = Append(InPipe, f)
  <2>1. down.frames \o Append(queue, f) = Append(InPipe, f)
    <3>1. PICK d \in Seq(Frames) : d = down.frames
      BY <1>1
    <3>2. PICK q \in Seq(Frames) : q = queue
      BY <1>1
    <3>3. d \o Append(q, f) = Append(d \o q, f)
      BY ConcatAppend
    <3> QED BY <3>1, <3>2, <3>3 DEF InPipe
  <2>2. Append(queue, f) \in Seq(Frames) /\ Len(Append(queue, f)) <= Queue
    BY <1>1
  <2> QED BY <2>1, <2>2
<1>3. /\ Len(Append(InPipe, f)) = Len(InPipe) + 1 /\ Append(InPipe, f)[Len(InPipe) + 1] = f
      /\ \A i \in 1 .. Len(InPipe) : Append(InPipe, f)[i] = InPipe[i]
  BY <1>1
<1> QED BY <1>2, <1>3

LEMMA PumpsStand ==
  ASSUME BridgeInv, NEW s \in B!Streams, B!Pumps(s)
  PROVE  BridgeInv'
<1> DEFINE chunk == Head(output[s])
           rest == Tail(output[s])
           f == B!Frame(s, chunk)
<1>1. /\ pump[s] = "reading" /\ output[s] # << >> /\ output' = [output EXCEPT ![s] = rest]
      /\ UNCHANGED <<caller, up, down, feed, stdin, service, writer, main>>
  BY DEF B!Pumps
<1>2. BridgeTypes /\ (\A t \in B!Streams : OutputStands(t)) /\ ExitStands
  BY DEF BridgeInv
<1>3. /\ output \in [B!Streams -> Seq(Nat)] /\ output[s] \in Seq(Nat) /\ service.wrote[s] \in Nat
      /\ pump \in [B!Streams -> {"reading", "done"}]
  BY <1>2, PipeTypes DEF BridgeTypes
<1>4. From(output[s], PumpedOf(s)) /\ PumpedOf(s) \in Nat
  BY <1>2 DEF OutputStands
<1>5. chunk = PumpedOf(s) + 1 /\ From(rest, PumpedOf(s) + 1)
  BY <1>1, <1>3, <1>4, FromMoves
<1>6. chunk \in Nat /\ rest \in Seq(Nat) /\ Len(rest) = Len(output[s]) - 1 /\ Len(output[s]) \in Nat
  BY <1>1, <1>3
<1>7. f \in Frames /\ f.kind = s /\ f.n = chunk
  BY <1>6 DEF B!Frame, Frames, B!Streams
<1> HIDE DEF f
<1>8. service.wrote[s] - Len(rest) = PumpedOf(s) + 1
  <2> DEFINE a == service.wrote[s]
             b == Len(output[s])
             c == Len(rest)
  <2>1. a \in Nat /\ b \in Nat /\ c = b - 1 /\ PumpedOf(s) = a - b
    BY <1>3, <1>6 DEF PumpedOf
  <2> HIDE DEF a, b, c
  <2>2. a - c = PumpedOf(s) + 1
    BY <2>1
  <2> QED BY <2>2 DEF a, c
<1> HIDE DEF chunk, rest
<1>9. output' \in [B!Streams -> Seq(Nat)] /\ output'[s] = rest
  BY <1>1, <1>3, <1>6
<1>10. PumpedOf(s)' = PumpedOf(s) + 1
  BY <1>1, <1>8, <1>9 DEF PumpedOf
<1>11. InputStands'
  BY <1>1, InputKept DEF B!Gone
<1>12. (B!Holds' <=> B!Holds) /\ (B!Gone' <=> B!Gone)
  BY <1>1 DEF B!Holds, B!Gone
<1>13. main \notin {"exiting", "over"} /\ caller.phase # "exited"
  BY <1>1, <1>2 DEF OutputStands, ExitStands
<1>14. \A t \in B!Streams : t # s => output'[t] = output[t] /\ PumpedOf(t)' = PumpedOf(t)
  BY <1>1, <1>3 DEF PumpedOf
<1>15. CASE /\ writer = "writing" /\ Len(queue) < Queue
            /\ queue' = Append(queue, f) /\ pump' = pump
  <2>1. /\ queue' \in Seq(Frames) /\ Len(queue') <= Queue /\ InPipe' = Append(InPipe, f)
        /\ Len(Append(InPipe, f)) = Len(InPipe) + 1 /\ Append(InPipe, f)[Len(InPipe) + 1] = f
        /\ \A i \in 1 .. Len(InPipe) : Append(InPipe, f)[i] = InPipe[i]
    <3>1. InPipe' = down.frames \o Append(queue, f)
      BY <1>1, <1>15 DEF InPipe
    <3> QED BY <1>2, <1>7, <1>15, <3>1, PipeGrows
  <2>2. BridgeTypes'
    BY <1>1, <1>2, <1>9, <1>15, <2>1 DEF BridgeTypes
  <2>3. \A t \in B!Streams :
          Len(caller.printed[t]) \in Nat /\ PumpedOf(t) \in Nat
          /\ Carried(InPipe, t, Len(caller.printed[t]), PumpedOf(t))
    BY <1>2, <1>15, PipeTypes DEF OutputStands
  <2>4. InPipe \in Seq(Frames)
    BY <1>2, PipeTypes
  <2>5. OutputStands(s)'
    <3>1. Carried(InPipe', s, Len(caller.printed[s]), PumpedOf(s) + 1)
      BY <1>5, <1>7, <2>1, <2>3, <2>4, CarriedAppend
    <3>2. From(output'[s], PumpedOf(s) + 1)
      BY <1>5, <1>9
    <3> QED BY <1>1, <1>2, <1>4, <1>10, <1>13, <1>15, <3>1, <3>2 DEF OutputStands
  <2>6. ASSUME NEW t \in B!Streams, t # s PROVE OutputStands(t)'
    <3>1. Carried(InPipe', t, Len(caller.printed[t]), PumpedOf(t))
      BY <1>7, <2>1, <2>3, <2>4, <2>6, CarriedAppend
    <3> QED BY <1>1, <1>2, <1>12, <1>14, <1>15, <2>6, <3>1 DEF OutputStands
  <2>7. \A i \in 1 .. Len(InPipe') : InPipe'[i].kind # "exit"
    <3> SUFFICES ASSUME NEW i \in 1 .. Len(InPipe') PROVE InPipe'[i].kind # "exit"
      OBVIOUS
    <3>1. CASE i = Len(InPipe) + 1
      BY <1>7, <2>1, <3>1 DEF B!Streams
    <3>2. CASE i \in 1 .. Len(InPipe)
      BY <1>2, <1>13, <2>1, <3>2 DEF ExitStands
    <3> QED BY <2>1, <2>4, <3>1, <3>2
  <2>8. ExitStands'
    BY <1>1, <1>2, <1>12, <1>13, <2>7 DEF ExitStands
  <2>9. \A t \in B!Streams : OutputStands(t)'
    BY <2>5, <2>6
  <2> QED BY <1>11, <2>2, <2>8, <2>9 DEF BridgeInv
<1>16. CASE writer = "failed" /\ pump' = [pump EXCEPT ![s] = "done"] /\ queue' = queue
  <2>1. BridgeTypes'
    BY <1>1, <1>2, <1>3, <1>9, <1>16 DEF BridgeTypes
  <2>2. OutputStands(s)'
    <3>1. From(output'[s], PumpedOf(s) + 1)
      BY <1>5, <1>9
    <3> QED BY <1>1, <1>2, <1>4, <1>10, <1>13, <1>16, <3>1 DEF OutputStands
  <2>3. ASSUME NEW t \in B!Streams, t # s PROVE OutputStands(t)'
    BY <1>1, <1>2, <1>3, <1>12, <1>14, <1>16, <2>3 DEF OutputStands
  <2>4. InPipe' = InPipe
    BY <1>1, <1>16 DEF InPipe
  <2>5. ExitStands'
    BY <1>1, <1>2, <1>12, <1>13, <2>4 DEF ExitStands
  <2>6. \A t \in B!Streams : OutputStands(t)'
    BY <2>2, <2>3
  <2> QED BY <1>11, <2>1, <2>5, <2>6 DEF BridgeInv
<1> QED BY <1>15, <1>16 DEF B!Pumps, f, chunk

\* The exit code follows all that the pumps took.
LEMMA ExitsStands ==
  ASSUME BridgeInv, B!Exits
  PROVE  BridgeInv'
<1> DEFINE f == B!Frame("exit", service.code)
<1>1. /\ main = "draining" /\ main' = "exiting" /\ feed' = "done"
      /\ \A s \in B!Streams : pump[s] = "done"
      /\ UNCHANGED <<caller, up, down, stdin, service, output, pump, writer>>
  BY DEF B!Exits, B!Pumped
<1>2. \/ writer = "failed" /\ queue' = queue
      \/ writer # "failed" /\ Len(queue) < Queue /\ queue' = Append(queue, f)
  BY DEF B!Exits
<1>3. BridgeTypes /\ (\A t \in B!Streams : OutputStands(t)) /\ ExitStands
  BY DEF BridgeInv
<1>4. f \in Frames /\ f.kind = "exit" /\ f.n = service.code
  BY <1>3 DEF B!Frame, Frames, BridgeTypes, ServiceRecord
<1> HIDE DEF f
<1>5. InputStands'
  BY <1>1, InputKept DEF B!Gone
<1>6. (B!Holds' <=> B!Holds) /\ (B!Gone' <=> B!Gone) /\ caller.phase # "exited"
  BY <1>1, <1>3 DEF B!Holds, B!Gone, ExitStands
<1>7. \A t \in B!Streams : PumpedOf(t)' = PumpedOf(t)
  BY <1>1 DEF PumpedOf
<1>8. CASE writer = "failed" /\ queue' = queue
  <2>1. BridgeTypes'
    BY <1>1, <1>3, <1>8 DEF BridgeTypes
  <2>2. \A t \in B!Streams : OutputStands(t)'
    BY <1>1, <1>3, <1>6, <1>7, <1>8 DEF OutputStands
  <2>3. InPipe' = InPipe
    BY <1>1, <1>8 DEF InPipe
  <2>4. ExitStands'
    BY <1>1, <1>3, <1>6, <2>3 DEF ExitStands
  <2> QED BY <1>5, <2>1, <2>2, <2>4 DEF BridgeInv
<1>9. CASE writer # "failed" /\ Len(queue) < Queue /\ queue' = Append(queue, f)
  <2>1. /\ queue' \in Seq(Frames) /\ Len(queue') <= Queue /\ InPipe' = Append(InPipe, f)
        /\ Len(Append(InPipe, f)) = Len(InPipe) + 1 /\ Append(InPipe, f)[Len(InPipe) + 1] = f
        /\ \A i \in 1 .. Len(InPipe) : Append(InPipe, f)[i] = InPipe[i]
    <3>1. InPipe' = down.frames \o Append(queue, f)
      BY <1>1, <1>9 DEF InPipe
    <3> QED BY <1>3, <1>4, <1>9, <3>1, PipeGrows
  <2>2. BridgeTypes'
    BY <1>1, <1>3, <1>9, <2>1 DEF BridgeTypes
  <2>3. ASSUME NEW t \in B!Streams PROVE OutputStands(t)'
    <3>1. /\ Len(caller.printed[t]) \in Nat /\ PumpedOf(t) \in Nat /\ InPipe \in Seq(Frames)
          /\ Carried(InPipe, t, Len(caller.printed[t]), PumpedOf(t)) /\ t # "exit"
      BY <1>3, <1>9, PipeTypes DEF OutputStands, B!Streams
    <3>2. Carried(InPipe', t, Len(caller.printed[t]), PumpedOf(t))
      BY <1>4, <2>1, <3>1, CarriedAppend
    <3> QED BY <1>1, <1>3, <1>6, <1>7, <3>2 DEF OutputStands
  <2>4. InPipe \in Seq(Frames) /\ \A i \in 1 .. Len(InPipe) : InPipe[i].kind # "exit"
    BY <1>1, <1>3, PipeTypes DEF ExitStands
  <2>5. ASSUME NEW i \in 1 .. Len(InPipe'), InPipe'[i].kind = "exit"
        PROVE  i = Len(InPipe') /\ InPipe'[i].n = service.code
    <3>1. CASE i = Len(InPipe) + 1
      BY <1>4, <2>1, <3>1
    <3>2. CASE i \in 1 .. Len(InPipe)
      BY <2>1, <2>4, <2>5, <3>2
    <3> QED BY <2>1, <2>4, <3>1, <3>2
  <2>6. ExitStands'
    BY <1>1, <1>3, <1>6, <2>5 DEF ExitStands
  <2> QED BY <1>5, <2>2, <2>3, <2>6 DEF BridgeInv
<1> QED BY <1>2, <1>8, <1>9

LEMMA BridgeStep ==
  ASSUME BridgeInv, [B!Next]_(B!vars)
  PROVE  BridgeInv'
<1>1. ASSUME B!Tasks PROVE BridgeInv'
  BY <1>1, FeedsStands, FeedEndsStands, WritesStand, WriteFailsStands, ServiceEndsStands,
     ExitsStands, FinishesStands, PumpsStand, PumpEndsStands DEF B!Tasks
<1>2. CASE B!Next
  BY <1>1, <1>2, SendsStands, PrintsStand, LeavesStands, InputEndsStands, ReadsStand,
     ServiceEndsStands, OutputsStand DEF B!Next
<1>3. CASE UNCHANGED B!vars
  BY <1>3 DEF B!vars, BridgeInv, BridgeTypes, OutputStands, ExitStands, InputStands, InPipe,
     PumpedOf, B!Gone, B!Holds
<1> QED BY <1>2, <1>3

LEMMA BridgeInit ==
  ASSUME B!Init
  PROVE  BridgeInv
<1> DEFINE none == << >>
<1>1. none \in Seq(Nat) /\ none \in Seq(Frames) /\ Len(none) = 0 /\ none \o none = none
  OBVIOUS
<1>2. /\ caller = [phase |-> "talking", input |-> "open", sent |-> 0,
                   printed |-> [s \in B!Streams |-> none], code |-> B!NoCode]
      /\ up = [frames |-> none, finished |-> FALSE] /\ down = [frames |-> none, finished |-> FALSE]
      /\ feed = "reading" /\ stdin = [chunks |-> none, closed |-> FALSE]
      /\ service = [running |-> TRUE, closed |-> FALSE, read |-> none, eof |-> FALSE,
                    wrote |-> [s \in B!Streams |-> 0], code |-> B!NoCode]
      /\ output = [s \in B!Streams |-> none] /\ pump = [s \in B!Streams |-> "reading"]
      /\ queue = none /\ writer = "writing" /\ main = "waiting"
  BY DEF B!Init
<1>3. B!NoCode \in Int
  BY DEF B!NoCode
<1> HIDE DEF none
<1>4. BridgeTypes
  <2>1. caller \in CallerRecord /\ service \in ServiceRecord
    BY <1>1, <1>2, <1>3 DEF CallerRecord, ServiceRecord
  <2> QED BY <1>1, <1>2, <2>1, BridgeConstants DEF BridgeTypes
<1>5. From(none, 0)
  BY <1>1 DEF From
<1>6. InPipe = none
  BY <1>1, <1>2 DEF InPipe
<1>7. ASSUME NEW s \in B!Streams PROVE OutputStands(s)
  <2>1. caller.printed[s] = none /\ output[s] = none /\ service.wrote[s] = 0 /\ pump[s] = "reading"
    BY <1>2
  <2>2. PumpedOf(s) = 0
    <3>1. Len(output[s]) = 0
      BY <1>1, <2>1
    <3> QED BY <2>1, <3>1 DEF PumpedOf
  <2>3. Carried(none, s, 0, 0)
    BY <1>1 DEF Carried
  <2> QED BY <1>1, <1>2, <1>5, <1>6, <2>1, <2>2, <2>3 DEF OutputStands
<1>8. ExitStands
  BY <1>1, <1>2, <1>6 DEF ExitStands
<1>9. InputStands
  BY <1>1, <1>2, <1>5 DEF InputStands
<1> QED BY <1>4, <1>7, <1>8, <1>9 DEF BridgeInv

LEMMA BridgeIsPart ==
  /\ MCInit => B!Init
  /\ [MCNext]_<<vars, capabilities, bridged, part>> => [B!Next]_(B!vars)
<1>1. MCInit => B!Init
  BY DEF MCInit
<1>2. ASSUME MCNext PROVE [B!Next]_(B!vars)
  BY <1>2 DEF MCNext, B!vars, bridged
<1>3. UNCHANGED <<vars, capabilities, bridged, part>> => UNCHANGED B!vars
  BY DEF B!vars, bridged
<1> QED BY <1>1, <1>2, <1>3

LEMMA FromIsUpTo ==
  ASSUME NEW q \in Seq(Nat), From(q, 0)
  PROVE  q = B!UpTo(Len(q))
<1>1. q = [i \in 1 .. Len(q) |-> q[i]]
  OBVIOUS
<1>2. \A i \in 1 .. Len(q) : q[i] = i
  BY DEF From
<1> QED BY <1>1, <1>2 DEF B!UpTo

\* For buffers of any size and any amount of data: a call that ends with an exit code has
\* printed all that the service wrote, stream by stream and in order, and the code is the
\* service's; the service reads what the caller sent, in order, and sees an end of it only
\* where the caller's is, or the caller's stdin failed or the caller went
\* (transport.rs: converse, bridge).
THEOREM BridgeCarriesEveryByte == MCSpec => []CarriesEveryByte
<1>1. BridgeInv => CarriesEveryByte
  <2> SUFFICES ASSUME BridgeInv PROVE CarriesEveryByte
    OBVIOUS
  <2>1. BridgeTypes /\ (\A s \in B!Streams : OutputStands(s)) /\ ExitStands /\ InputStands
    BY DEF BridgeInv
  <2>2. B!TypeOK
    BY <2>1 DEF BridgeTypes, CallerRecord, B!TypeOK
  <2>3. service.read \in Seq(Nat) /\ \A s \in B!Streams : caller.printed[s] \in Seq(Nat)
    BY <2>1 DEF BridgeTypes, CallerRecord, ServiceRecord
  <2>4. \A s \in B!Streams : caller.printed[s] = B!UpTo(Len(caller.printed[s]))
    BY <2>1, <2>3, FromIsUpTo DEF OutputStands
  <2>5. service.read = B!UpTo(Len(service.read))
    BY <2>1, <2>3, FromIsUpTo DEF InputStands
  <2>6. caller.phase = "exited" =>
          /\ \A s \in B!Streams : caller.printed[s] = B!UpTo(service.wrote[s])
          /\ caller.code = service.code
    BY <2>1, <2>4 DEF OutputStands, ExitStands
  <2>7. service.eof => \/ B!Gone
                       \/ caller.input = "failed"
                       \/ caller.input = "ended" /\ Len(service.read) = caller.sent
    <3> SUFFICES ASSUME service.eof, caller.input = "ended",
                        Len(service.read) + Len(stdin.chunks) = caller.sent
                 PROVE  Len(service.read) = caller.sent
      BY <2>1 DEF InputStands
    <3>1. Len(stdin.chunks) = 0 /\ Len(service.read) \in Nat
      BY <2>1, <2>3 DEF InputStands
    <3> QED BY <3>1
  <2> QED BY <2>2, <2>4, <2>5, <2>6, <2>7 DEF CarriesEveryByte, B!CarriesEveryByte
<1> QED BY <1>1, BridgeInit, BridgeStep, BridgeIsPart, PTL DEF MCSpec
=============================================================================
