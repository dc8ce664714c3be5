---------------------------- MODULE PushingProofs ----------------------------
(***************************************************************************)
(* Proofs about Pushing, for any callers, messages, fetches, lifetimes and *)
(* caps, under PushingAssumption, whether writes of the queue file succeed *)
(* or fail.  PushInv is the inductive invariant.  It says what the queues  *)
(* and the file hold (Kept), that a message is in neither before its push  *)
(* is sent on (UnqueuedAreOpen), that what is acknowledged is stored       *)
(* (AcksAreHeld), and that the permits and slots taken are those of open   *)
(* conversations (Counted): the last is what keeps them natural numbers.   *)
(* FileIsTrue alone supposes that writes succeed; with failing writes a    *)
(* restart finds a stale file, and QueuesAreTrue does not hold.            *)
(*                                                                         *)
(* Every action moves messages out of the queues in one way, Cut, or       *)
(* appends one; Carried and FetchCarries say what that keeps.              *)
(***************************************************************************)
EXTENDS Pushing, FiniteSetTheorems, SequenceTheorems, WellFoundedInduction, TLAPS

\* A set of numbers with a member has a least one.
LEMMA LeastNumber ==
  ASSUME NEW T \in SUBSET Nat, T # {}
  PROVE  \E n \in T : \A k \in T : n <= k
<1> DEFINE R == OpToRel(<, Nat)
<1>1. IsWellFoundedOn(R, Nat)
  BY NatLessThanWellFounded
<1>2. PICK n \in T : \A k \in T : <<k, n>> \notin R
  <2> HIDE DEF R
  <2> QED BY <1>1, WFMin
<1>3. \A k \in T : ~ (k < n)
  BY <1>2 DEF OpToRel
<1> QED BY <1>3

\* The recursion of Without, of a function g that has it up to i.
Step(q, gone, g, i) ==
  IF i = 0 THEN <<>> ELSE IF q[i] \in gone THEN g[i - 1] ELSE Append(g[i - 1], q[i])

\* The recursion of Without has a solution.
LEMMA KeptExists ==
  ASSUME NEW q, NEW gone, NEW n \in Nat
  PROVE  \E g : g = [i \in 0 .. n |-> Step(q, gone, g, i)]
<1> DEFINE Solves(g, k) == g = [i \in 0 .. k |-> Step(q, gone, g, i)]
           Bad == {k \in Nat : ~ \E g : Solves(g, k)}
<1>1. SUFFICES ASSUME Bad # {} PROVE FALSE
  OBVIOUS
<1>2. PICK k \in Bad : \A j \in Bad : k <= j
  BY <1>1, LeastNumber
<1>3. CASE k = 0
  <2> DEFINE h == [i \in 0 .. 0 |-> <<>>]
  <2>1. \A i \in 0 .. 0 : Step(q, gone, h, i) = <<>>
    BY DEF Step
  <2>2. Solves(h, 0)
    BY <2>1
  <2> QED BY <1>2, <1>3, <2>2
<1>4. CASE k # 0
  <2>1. k - 1 \in Nat /\ k - 1 \notin Bad
    BY <1>2, <1>4
  <2>2. PICK g : Solves(g, k - 1)
    BY <2>1
  <2> DEFINE h == [i \in 0 .. k |-> IF i = k THEN Step(q, gone, g, k) ELSE g[i]]
  <2>3. \A i \in 0 .. (k - 1) : h[i] = g[i]
    BY <2>1
  <2>4. \A i \in 0 .. k : Step(q, gone, h, i) = Step(q, gone, g, i)
    <3> TAKE i \in 0 .. k
    <3>1. i # 0 => h[i - 1] = g[i - 1]
      BY <2>1, <2>3
    <3> QED BY <3>1 DEF Step
  <2>5. \A i \in 0 .. (k - 1) : g[i] = Step(q, gone, g, i)
    BY <2>2
  <2>6. \A i \in 0 .. k : h[i] = Step(q, gone, h, i)
    BY <2>1, <2>4, <2>5
  <2>7. Solves(h, k)
    BY <2>6
  <2> QED BY <1>2, <2>7
<1> QED BY <1>3, <1>4

\* What is left of the first i messages of q.
KeptOf(q, gone, r, i) ==
  /\ r \in Seq(Range(q)) /\ Len(r) <= i
  /\ Range(r) = {q[j] : j \in 1 .. i} \ gone
  /\ IsInjective(q) => IsInjective(r)

\* The empty sequence is one of messages.
LEMMA OfNothing ==
  ASSUME NEW S
  PROVE  <<>> \in Seq(S) /\ Len(<<>>) = 0 /\ Range(<<>>) = {} /\ IsInjective(<<>>)
<1> DEFINE e == <<>>
<1>1. e \in Seq(S) /\ Len(e) = 0
  BY EmptySeq
<1>2. DOMAIN e = 1 .. Len(e)
  BY <1>1, LenProperties
<1> HIDE DEF e
<1>3. DOMAIN e = {}
  BY <1>1, <1>2
<1>4. Range(e) = {} /\ IsInjective(e)
  BY <1>3 DEF Range, IsInjective
<1> QED BY <1>1, <1>4 DEF e

\* One message appended that a sequence does not hold.
LEMMA Appended ==
  ASSUME NEW S, NEW r \in Seq(S), NEW m \in S
  PROVE  /\ Append(r, m) \in Seq(S) /\ Len(Append(r, m)) = Len(r) + 1
         /\ Range(Append(r, m)) = Range(r) \cup {m}
         /\ IsInjective(r) /\ m \notin Range(r) => IsInjective(Append(r, m))
<1> DEFINE a == Append(r, m)
<1>1. /\ a \in Seq(S) /\ Len(a) = Len(r) + 1
      /\ \A i \in 1 .. Len(r) : a[i] = r[i]
      /\ a[Len(r) + 1] = m
  BY AppendProperties
<1>2. Len(r) \in Nat /\ DOMAIN r = 1 .. Len(r) /\ DOMAIN a = 1 .. (Len(r) + 1)
  BY <1>1, LenProperties
<1> HIDE DEF a
<1>3. Range(a) = Range(r) \cup {m}
  BY <1>1, <1>2 DEF Range
<1>4. ASSUME IsInjective(r), m \notin Range(r) PROVE IsInjective(a)
  <2>1. \A i \in 1 .. Len(r) : r[i] # m
    BY <1>2, <1>4 DEF Range
  <2> QED BY <1>1, <1>2, <1>4, <2>1 DEF IsInjective
<1> QED BY <1>1, <1>3, <1>4 DEF a

\* The queue without some messages: those it held that are not among them, in a
\* queue no longer than it was, still each once (Queue::remove, Queue::sweep).
LEMMA WithoutKeeps ==
  ASSUME NEW S, NEW q \in Seq(S), NEW gone
  PROVE  /\ Without(q, gone) \in Seq(S) /\ Len(Without(q, gone)) <= Len(q)
         /\ Range(Without(q, gone)) = Range(q) \ gone
         /\ IsInjective(q) => IsInjective(Without(q, gone))
<1> DEFINE n == Len(q)
           g == CHOOSE k : k = [i \in 0 .. n |-> Step(q, gone, k, i)]
           Good(i) == KeptOf(q, gone, g[i], i)
           Bad == {i \in 0 .. n : ~ Good(i)}
<1>1. n \in Nat /\ DOMAIN q = 1 .. n /\ \A i \in 1 .. n : q[i] \in Range(q)
  BY LenProperties DEF Range
<1>2. g = [i \in 0 .. n |-> Step(q, gone, g, i)]
  BY <1>1, KeptExists
<1>3. Without(q, gone) = g[n]
  BY DEF Without, Step
<1> HIDE DEF g, n
<1>4. \A i \in 0 .. n : g[i] = Step(q, gone, g, i)
  BY <1>2
<1>5. Bad = {}
  <2>1. SUFFICES ASSUME Bad # {} PROVE FALSE
    OBVIOUS
  <2>2. PICK i \in Bad : \A j \in Bad : i <= j
    <3>1. Bad \in SUBSET Nat
      BY <1>1
    <3> HIDE DEF Bad
    <3> QED BY <2>1, <3>1, LeastNumber
  <2>3. CASE i = 0
    <3>1. g[0] = <<>>
      BY <1>1, <1>4 DEF Step
    <3>2. /\ <<>> \in Seq(Range(q)) /\ Len(<<>>) = 0
          /\ Range(<<>>) = {} /\ IsInjective(<<>>)
      BY OfNothing
    <3>4. {q[j] : j \in 1 .. 0} = {}
      OBVIOUS
    <3>5. Good(0)
      BY <3>1, <3>2, <3>4 DEF KeptOf
    <3> QED BY <2>2, <2>3, <3>5
  <2>4. CASE i # 0
    <3>1. i \in 1 .. n /\ i - 1 \in 0 .. n /\ Good(i - 1)
      BY <1>1, <2>2, <2>4
    <3>2. {q[j] : j \in 1 .. i} = {q[j] : j \in 1 .. (i - 1)} \cup {q[i]}
      BY <1>1, <3>1
    <3>3. CASE q[i] \in gone
      <4>1. g[i] = g[i - 1]
        BY <1>4, <2>4, <3>1, <3>3 DEF Step
      <4>2. Good(i)
        BY <1>1, <3>1, <3>2, <3>3, <4>1, LenProperties DEF KeptOf
      <4> QED BY <2>2, <4>2
    <3>4. CASE q[i] \notin gone
      <4>1. g[i] = Append(g[i - 1], q[i])
        BY <1>4, <2>4, <3>1, <3>4 DEF Step
      <4>2. g[i - 1] \in Seq(Range(q)) /\ q[i] \in Range(q) /\ Len(g[i - 1]) \in Nat
        BY <1>1, <3>1, LenProperties DEF KeptOf
      <4>3. IsInjective(q) => q[i] \notin Range(g[i - 1])
        <5>1. IsInjective(q) => q[i] \notin {q[j] : j \in 1 .. (i - 1)}
          BY <1>1, <3>1 DEF IsInjective
        <5> QED BY <3>1, <5>1 DEF KeptOf
      <4>4. /\ g[i] \in Seq(Range(q)) /\ Len(g[i]) = Len(g[i - 1]) + 1
            /\ Range(g[i]) = Range(g[i - 1]) \cup {q[i]}
            /\ IsInjective(g[i - 1]) /\ q[i] \notin Range(g[i - 1]) => IsInjective(g[i])
        BY <4>1, <4>2, Appended
      <4>5. Len(g[i]) <= i
        BY <1>1, <3>1, <4>2, <4>4 DEF KeptOf
      <4>6. Range(g[i]) = {q[j] : j \in 1 .. i} \ gone
        BY <3>1, <3>2, <3>4, <4>4 DEF KeptOf
      <4>7. IsInjective(q) => IsInjective(g[i])
        BY <3>1, <4>3, <4>4 DEF KeptOf
      <4> QED BY <2>2, <4>4, <4>5, <4>6, <4>7 DEF KeptOf
    <3> QED BY <3>3, <3>4
  <2> QED BY <2>3, <2>4
<1>6. KeptOf(q, gone, g[n], n)
  BY <1>1, <1>5
<1>7. {q[j] : j \in 1 .. n} = Range(q)
  BY <1>1 DEF Range
<1>8. g[n] \in Seq(S)
  BY <1>6, RangeOfSeq, SeqMonotonic DEF KeptOf
<1> QED BY <1>3, <1>6, <1>7, <1>8 DEF KeptOf, n

\* The oldest message is one of the queue's; the rest are the others.
LEMMA OldestGoes ==
  ASSUME NEW S, NEW q \in Seq(S), q # <<>>
  PROVE  /\ Head(q) \in Range(q)
         /\ Tail(q) \in Seq(S) /\ Len(Tail(q)) = Len(q) - 1
         /\ Range(Tail(q)) \cup {Head(q)} = Range(q)
         /\ IsInjective(q) => IsInjective(Tail(q)) /\ Head(q) \notin Range(Tail(q))
<1> DEFINE t == Tail(q)
           n == Len(q)
<1>1. n \in Nat \ {0} /\ DOMAIN q = 1 .. n
  BY EmptySeq, LenProperties
<1>2. /\ t \in Seq(S) /\ Len(t) = n - 1
      /\ \A i \in 1 .. Len(t) : t[i] = q[i + 1]
  BY HeadTailProperties
<1>3. DOMAIN t = 1 .. (n - 1)
  BY <1>2, LenProperties
<1>4. Head(q) = q[1]
  OBVIOUS
<1> HIDE DEF t, n
<1>5. Head(q) \in Range(q)
  BY <1>1, <1>4 DEF Range
<1>6. Range(t) \cup {Head(q)} = Range(q)
  <2>1. \A i \in 1 .. n : i = 1 \/ (i - 1 \in 1 .. (n - 1) /\ t[i - 1] = q[i])
    BY <1>1, <1>2
  <2>2. \A i \in 1 .. (n - 1) : t[i] \in Range(q)
    BY <1>1, <1>2 DEF Range
  <2>3. ASSUME NEW m \in Range(q) PROVE m \in Range(t) \cup {Head(q)}
    <3>1. PICK i \in 1 .. n : m = q[i]
      BY <1>1, <2>3 DEF Range
    <3>2. CASE i = 1
      BY <1>4, <3>1, <3>2
    <3>3. CASE i - 1 \in 1 .. (n - 1) /\ t[i - 1] = q[i]
      BY <1>3, <3>1, <3>3 DEF Range
    <3> QED BY <2>1, <3>2, <3>3
  <2>4. ASSUME NEW m \in Range(t) PROVE m \in Range(q)
    BY <1>3, <2>2, <2>4 DEF Range
  <2> QED BY <1>5, <2>3, <2>4
<1>7. ASSUME IsInjective(q) PROVE IsInjective(t) /\ Head(q) \notin Range(t)
  <2>1. \A i, j \in 1 .. n : q[i] = q[j] => i = j
    BY <1>1, <1>7 DEF IsInjective
  <2>2. \A i, j \in 1 .. (n - 1) : t[i] = t[j] => i = j
    BY <1>1, <1>2, <2>1
  <2>3. \A i \in 1 .. (n - 1) : t[i] # q[1]
    BY <1>1, <1>2, <2>1
  <2> QED BY <1>3, <1>4, <2>2, <2>3 DEF IsInjective, Range
<1> QED BY <1>2, <1>5, <1>6, <1>7 DEF t, n

\* The messages of a queue q that go out at once, without those of gone.
Batch(q, gone) ==
  LET live == Without(q, gone)
  IN  SubSeq(live, 1, IF Len(live) < MaxBatch THEN Len(live) ELSE MaxBatch)

\* A batch is empty only if every message of the queue is of gone.
LEMMA BatchIsSome ==
  ASSUME NEW q \in Seq(Messages), NEW gone
  PROVE  /\ Batch(q, gone) \in Seq(Messages)
         /\ Batch(q, gone) # <<>> <=> Range(q) \ gone # {}
<1> DEFINE live == Without(q, gone)
           n == IF Len(live) < MaxBatch THEN Len(live) ELSE MaxBatch
<1>1. live \in Seq(Messages) /\ Range(live) = Range(q) \ gone
  BY WithoutKeeps
<1>2. Batch(q, gone) = SubSeq(live, 1, n)
  BY DEF Batch
<1> HIDE DEF live
<1>3. Len(live) \in Nat /\ DOMAIN live = 1 .. Len(live)
  BY <1>1, LenProperties
<1>4. Range(live) # {} <=> Len(live) # 0
  <2>1. CASE Len(live) = 0
    <3>1. DOMAIN live = {}
      BY <1>3, <2>1
    <3> QED BY <2>1, <3>1 DEF Range
  <2>2. CASE Len(live) # 0
    <3>1. 1 \in DOMAIN live
      BY <1>3, <2>2
    <3> QED BY <2>2, <3>1 DEF Range
  <2> QED BY <2>1, <2>2
<1>5. n \in Nat /\ n <= Len(live) /\ (n # 0 <=> Len(live) # 0)
  BY <1>3, PushingAssumption
<1>6. \A i \in 1 .. n : live[i] \in Messages
  BY <1>1, <1>3, <1>5, ElementOfSeq
<1> HIDE DEF n
<1>7. SubSeq(live, 1, n) \in Seq(Messages) /\ Len(SubSeq(live, 1, n)) = n
  BY <1>5, <1>6, SubSeqProperties
<1>8. SubSeq(live, 1, n) # <<>> <=> n # 0
  BY <1>5, <1>7, EmptySeq
<1> QED BY <1>1, <1>2, <1>4, <1>5, <1>7, <1>8

\* Something is pending for a caller, in a state or after a step, if some message
\* queued for it has not expired (Queue::pending).
LEMMA PendingIsLive ==
  ASSUME NEW c \in Callers
  PROVE  /\ queue[c] \in Seq(Messages) =>
              /\ Pending(c) \in Seq(Messages)
              /\ Pending(c) # <<>> <=> \E m \in Range(queue[c]) : Live(m)
         /\ queue'[c] \in Seq(Messages) =>
              (Pending(c)' # <<>> <=> \E m \in Range(queue'[c]) : Live(m)')
<1>1. Pending(c) = Batch(queue[c], {m \in Messages : ~ Live(m)})
  BY DEF Pending, Batch
<1>2. Pending(c)' = Batch(queue'[c], {m \in Messages : ~ Live(m)'})
  BY DEF Pending, Batch
<1>3. queue[c] \in Seq(Messages) => Range(queue[c]) \subseteq Messages
  BY RangeOfSeq
<1>4. queue'[c] \in Seq(Messages) => Range(queue'[c]) \subseteq Messages
  BY RangeOfSeq
<1>5. ASSUME queue[c] \in Seq(Messages)
      PROVE  /\ Pending(c) \in Seq(Messages)
             /\ Pending(c) # <<>> <=> \E m \in Range(queue[c]) : Live(m)
  BY <1>1, <1>3, <1>5, BatchIsSome
<1>6. ASSUME queue'[c] \in Seq(Messages)
      PROVE  Pending(c)' # <<>> <=> \E m \in Range(queue'[c]) : Live(m)'
  BY <1>2, <1>4, <1>6, BatchIsSome
<1> QED BY <1>5, <1>6

Count(b) == IF b THEN 1 ELSE 0

\* Of two sets of fetches that differ in one fetch at most, one is larger by it.
LEMMA OneFetch ==
  ASSUME NEW A \in SUBSET Fetches, NEW B \in SUBSET Fetches, NEW f \in Fetches,
         A \ {f} = B \ {f}
  PROVE  /\ Cardinality(A) \in Nat /\ Cardinality(B) \in Nat
         /\ f \in A => Cardinality(A) >= 1
         /\ Cardinality(B) = Cardinality(A) - Count(f \in A) + Count(f \in B)
<1> DEFINE R == A \ {f}
<1>1. IsFiniteSet(A) /\ IsFiniteSet(B) /\ IsFiniteSet(R)
  BY FS_Subset, PushingAssumption
<1>2. Cardinality(A) \in Nat /\ Cardinality(B) \in Nat /\ Cardinality(R) \in Nat
  BY <1>1, FS_CardinalityType
<1>3. Cardinality(R \cup {f}) = Cardinality(R) + 1
  BY <1>1, FS_AddElement
<1>4. Cardinality(A) = Cardinality(R) + Count(f \in A)
  <2>1. CASE f \in A
    <3>1. A = R \cup {f}
      BY <2>1
    <3> QED BY <1>3, <2>1, <3>1 DEF Count
  <2>2. CASE f \notin A
    <3>1. A = R
      BY <2>2
    <3> QED BY <1>2, <2>2, <3>1 DEF Count
  <2> QED BY <2>1, <2>2
<1>5. Cardinality(B) = Cardinality(R) + Count(f \in B)
  <2>1. CASE f \in B
    <3>1. B = R \cup {f}
      BY <2>1
    <3> QED BY <1>3, <2>1, <3>1 DEF Count
  <2>2. CASE f \notin B
    <3>1. B = R
      BY <2>2
    <3> QED BY <1>2, <2>2, <3>1 DEF Count
  <2> QED BY <2>1, <2>2
<1> QED BY <1>2, <1>4, <1>5 DEF Count

-----------------------------------------------------------------------------
(* The inductive invariant. *)

\* The pushes whose message no queue has had.
Unqueued == {m \in Messages : push[m] \in {"unsent", "authorized"}}

Undecided == {f \in Fetches : fetch[f].step = "undecided"}

\* The permits and the slots taken are those of the conversations that are open.
Counted ==
  /\ permits = Cardinality(Undecided)
  /\ \A c \in Callers : slots[c] = Cardinality(Polls(c))

\* What the queues q hold: within the cap, each message once, in its own
\* recipient's queue.
Kept(q) ==
  \A c \in Callers :
    /\ Len(q[c]) <= QueueCap /\ IsInjective(q[c])
    /\ \A m \in Range(q[c]) : m \notin Unqueued /\ to[m] = c

\* Until a push is sent on, nothing has become of its message.
UnqueuedAreOpen == \A m \in Unqueued : fate[m] = "none"

\* Where every write of the file succeeds, it has the queues, and they hold the
\* messages whose fate is open.
FileIsTrue ==
  ~ SavesFail =>
    /\ disk = queue
    /\ \A m \in Messages, c \in Callers :
         m \in Range(queue[c]) <=> fate[m] = "queued" /\ to[m] = c

\* What is acknowledged is in the mailbox of who acknowledged it.
AcksAreHeld ==
  /\ \A m \in Messages : push[m] = "acked" => Range(offer[m]) \subseteq held[to[m]]
  /\ \A f \in Fetches : fetch[f].step = "acked" => Range(fetch[f].batch) \subseteq held[fetch[f].by]

PushInv ==
  /\ TypeOK /\ Counted
  /\ Kept(queue) /\ Kept(disk) /\ UnqueuedAreOpen /\ FileIsTrue
  /\ AcksAreHeld /\ DeliveredIsHeld
  /\ NoPollSleepsOnAMessage

-----------------------------------------------------------------------------
(* What the proofs of the actions have in common. *)

Fetching == [by : Callers, step : FetchSteps, woken : BOOLEAN, late : BOOLEAN,
             batch : Seq(Messages)]

WorldOK == now \in Nat /\ restarts \in Nat /\ standing \in [Callers -> Standing] /\ known \subseteq Callers

SendsOK ==
  /\ push \in [Messages -> PushSteps] /\ offer \in [Messages -> Seq(Messages)]
  /\ held \in [Callers -> SUBSET Messages]

ServesOK ==
  /\ fetch \in [Fetches -> Fetching]
  /\ slots \in [Callers -> Nat] /\ permits \in Nat /\ Counted

\* A step of one fetch that takes and frees what it holds.
LEMMA FetchCounts ==
  ASSUME ServesOK, NEW f \in Fetches, NEW k \in Fetching, fetch' = [fetch EXCEPT ![f] = k],
         permits' = permits - Count(f \in Undecided) + Count(k.step = "undecided"),
         slots' \in [Callers -> Int],
         \A c \in Callers : slots'[c] = slots[c] - Count(f \in Polls(c))
                              + Count(k.by = c /\ k.step \notin {"closed", "undecided"})
  PROVE  ServesOK'
<1>1. fetch' \in [Fetches -> Fetching] /\ fetch'[f] = k /\ \A g \in Fetches \ {f} : fetch'[g] = fetch[g]
  BY DEF ServesOK
<1>2. permits' \in Nat /\ permits' = Cardinality(Undecided')
  <2>1. Undecided \in SUBSET Fetches /\ Undecided' \in SUBSET Fetches
    BY DEF Undecided
  <2>2. Undecided \ {f} = Undecided' \ {f}
    BY <1>1 DEF Undecided
  <2>3. f \in Undecided' <=> k.step = "undecided"
    BY <1>1 DEF Undecided
  <2>4. permits = Cardinality(Undecided)
    BY DEF ServesOK, Counted
  <2> HIDE DEF Undecided
  <2> QED BY <2>1, <2>2, <2>3, <2>4, OneFetch DEF Count
<1>3. ASSUME NEW c \in Callers PROVE slots'[c] \in Nat /\ slots'[c] = Cardinality(Polls(c)')
  <2>1. Polls(c) \in SUBSET Fetches /\ Polls(c)' \in SUBSET Fetches
    BY DEF Polls
  <2>2. Polls(c) \ {f} = Polls(c)' \ {f}
    BY <1>1 DEF Polls
  <2>3. f \in Polls(c)' <=> k.by = c /\ k.step \notin {"closed", "undecided"}
    BY <1>1 DEF Polls
  <2>4. slots[c] = Cardinality(Polls(c))
    BY DEF ServesOK, Counted
  <2>5. slots'[c] = slots[c] - Count(f \in Polls(c)) + Count(f \in Polls(c)')
    BY <2>3 DEF Count
  <2> QED BY <2>1, <2>2, <2>4, <2>5, OneFetch DEF Count
<1> QED BY <1>1, <1>2, <1>3 DEF ServesOK, Counted

\* A step of one fetch that takes and frees nothing.
LEMMA FetchGoesOn ==
  ASSUME ServesOK, NEW f \in Fetches, NEW k \in Fetching, fetch' = [fetch EXCEPT ![f] = k],
         UNCHANGED <<slots, permits>>, k.by = fetch[f].by,
         k.step = "undecided" <=> fetch[f].step = "undecided",
         k.step = "closed" <=> fetch[f].step = "closed"
  PROVE  ServesOK'
<1>1. permits \in Nat /\ permits' = permits - Count(f \in Undecided) + Count(k.step = "undecided")
  BY DEF ServesOK, Undecided, Count
<1>2. slots' \in [Callers -> Int]
  BY DEF ServesOK
<1>3. \A c \in Callers : slots'[c] = slots[c] - Count(f \in Polls(c))
                              + Count(k.by = c /\ k.step \notin {"closed", "undecided"})
  BY DEF ServesOK, Polls, Count
<1> QED BY <1>1, <1>2, <1>3, FetchCounts

\* The messages of gone leave the queues they are in, with that outcome.
Cut(gone, outcome) ==
  /\ gone \subseteq Messages /\ \A m \in gone : \E c \in Callers : m \in Range(queue[c])
  /\ queue' \in [Callers -> Seq(Messages)]
  /\ \A c \in Callers :
       /\ Len(queue'[c]) <= Len(queue[c]) /\ IsInjective(queue'[c])
       /\ Range(queue'[c]) = Range(queue[c]) \ gone
  /\ disk' = queue' \/ (SavesFail /\ disk' = disk)
  /\ outcome \in Fates \ {"none", "queued"}
  /\ fate' = [m \in Messages |-> IF m \in gone THEN outcome ELSE fate[m]]

\* The polls that go to sleep, or sleep on, untold: nothing is pending for them, or
\* they slept already, and each send that is about to tell the polls still is.
Sleeps(f) ==
  fetch'[f].step = "asleep" /\ ~ fetch'[f].woken =>
    \/ Pending(fetch'[f].by) = <<>>
    \/ fetch'[f] = fetch[f] /\ \A m \in Messages : push[m] = "inserted" => push'[m] = "inserted"

\* Such a step keeps the invariant, if what it reports delivered is held.
LEMMA Carried ==
  ASSUME PushInv, NEW gone, NEW outcome, Cut(gone, outcome),
         outcome \in {"delivered", "fetched"} => \A m \in gone : m \in held[to[m]],
         UNCHANGED <<to, expires>>, now' >= now, Unqueued' = Unqueued,
         \A c \in Callers : held[c] \subseteq held'[c],
         \A f \in Fetches : Sleeps(f),
         WorldOK', SendsOK', ServesOK', AcksAreHeld'
  PROVE  PushInv'
<1>1. TypeOK
  BY DEF PushInv
<1>2. disk' \in [Callers -> Seq(Messages)] /\ fate' \in [Messages -> Fates]
  BY <1>1 DEF Cut, TypeOK
<1>3. TypeOK'
  BY <1>1, <1>2 DEF Cut, TypeOK, WorldOK, SendsOK, ServesOK, Fetching
<1>4. \A c \in Callers : Len(queue[c]) \in Nat /\ Len(queue'[c]) \in Nat
  BY <1>1, LenProperties DEF Cut, TypeOK
<1>5. Kept(queue)'
  <2> SUFFICES ASSUME NEW c \in Callers
               PROVE  /\ Len(queue'[c]) <= QueueCap /\ IsInjective(queue'[c])
                      /\ \A m \in Range(queue'[c]) : m \notin Unqueued' /\ to'[m] = c
    BY DEF Kept
  <2>1. /\ Len(queue[c]) <= QueueCap
        /\ \A m \in Range(queue[c]) : m \notin Unqueued /\ to[m] = c
    BY DEF PushInv, Kept
  <2>2. Range(queue'[c]) \subseteq Range(queue[c]) /\ IsInjective(queue'[c]) /\ Len(queue'[c]) <= Len(queue[c])
    BY DEF Cut
  <2> QED BY <1>4, <2>1, <2>2, PushingAssumption
<1>6. Kept(disk)'
  <2>1. CASE disk' = queue'
    BY <1>5, <2>1 DEF Kept
  <2>2. CASE disk' = disk
    BY <2>2 DEF PushInv, Kept
  <2> QED BY <2>1, <2>2 DEF Cut
<1>7. ASSUME NEW m \in gone PROVE m \notin Unqueued
  BY <1>7 DEF Cut, PushInv, Kept
<1>8. UnqueuedAreOpen'
  <2>1. \A m \in Unqueued : m \in Messages /\ fate'[m] = fate[m]
    BY <1>7 DEF Cut, Unqueued
  <2> QED BY <2>1 DEF PushInv, UnqueuedAreOpen
<1>9. FileIsTrue'
  <2> SUFFICES ASSUME ~ SavesFail
               PROVE  /\ disk' = queue'
                      /\ \A m \in Messages, c \in Callers :
                           m \in Range(queue'[c]) <=> fate'[m] = "queued" /\ to'[m] = c
    BY DEF FileIsTrue
  <2>1. \A m \in Messages, c \in Callers : m \in Range(queue[c]) <=> fate[m] = "queued" /\ to[m] = c
    BY DEF PushInv, FileIsTrue
  <2>2. \A m \in Messages : fate'[m] = IF m \in gone THEN outcome ELSE fate[m]
    BY DEF Cut
  <2> QED BY <2>1, <2>2 DEF Cut
<1>10. DeliveredIsHeld'
  <2> SUFFICES ASSUME NEW m \in Messages, fate'[m] \in {"delivered", "fetched"}
               PROVE  m \in held'[to[m]]
    BY DEF DeliveredIsHeld
  <2>1. to[m] \in Callers
    BY <1>1 DEF TypeOK
  <2>2. CASE m \in gone
    BY <2>1, <2>2 DEF Cut
  <2>3. CASE m \notin gone
    BY <2>1, <2>3 DEF Cut, PushInv, DeliveredIsHeld
  <2> QED BY <2>2, <2>3
<1>11. ASSUME NEW c \in Callers, Pending(c)' # <<>> PROVE Pending(c) # <<>>
  <2>1. queue[c] \in Seq(Messages) /\ queue'[c] \in Seq(Messages)
    BY <1>1, <1>3 DEF TypeOK
  <2>2. PICK m \in Range(queue'[c]) : Live(m)'
    BY <1>11, <2>1, PendingIsLive
  <2>3. m \in Range(queue[c]) /\ m \in Messages
    BY <2>1, <2>2, RangeOfSeq DEF Cut
  <2>4. now \in Nat /\ now' \in Nat /\ expires[m] \in Nat
    BY <1>1, <1>3, <2>3 DEF TypeOK, WorldOK
  <2>5. now' < expires[m]
    BY <2>2 DEF Live
  <2>6. Live(m)
    BY <2>4, <2>5 DEF Live
  <2> QED BY <2>1, <2>3, <2>6, PendingIsLive
<1>12. NoPollSleepsOnAMessage'
  <2> SUFFICES ASSUME NEW f \in Fetches, fetch'[f].step = "asleep", ~ fetch'[f].woken,
                      Pending(fetch[f].by)' # <<>>
               PROVE  \E m \in Messages : push'[m] = "inserted" /\ to'[m] = fetch'[f].by
    BY DEF NoPollSleepsOnAMessage
  <2> DEFINE c == fetch'[f].by
  <2>1. c \in Callers
    BY <1>3 DEF TypeOK
  <2>2. Pending(c) # <<>>
    BY <1>11, <2>1
  <2>3. fetch'[f] = fetch[f] /\ \A m \in Messages : push[m] = "inserted" => push'[m] = "inserted"
    BY <2>2 DEF Sleeps
  <2>4. PICK m \in Messages : push[m] = "inserted" /\ to[m] = c
    BY <2>2, <2>3 DEF PushInv, NoPollSleepsOnAMessage
  <2> QED BY <2>3, <2>4
<1> QED BY <1>3, <1>5, <1>6, <1>8, <1>9, <1>10, <1>12 DEF PushInv, ServesOK

\* The invariant says of each part of the state what it may be.
LEMMA Parts ==
  ASSUME PushInv
  PROVE  /\ TypeOK /\ WorldOK /\ SendsOK /\ ServesOK /\ AcksAreHeld
         /\ \A c \in Callers : queue[c] \in Seq(Messages) /\ Range(queue[c]) \subseteq Messages
BY RangeOfSeq DEF PushInv, TypeOK, WorldOK, SendsOK, ServesOK, Fetching

\* A step that leaves the queues cuts nothing.
LEMMA CutsNothing ==
  ASSUME PushInv, KeepQueue
  PROVE  Cut({}, "expired")
<1>1. queue \in [Callers -> Seq(Messages)] /\ fate \in [Messages -> Fates]
  BY DEF PushInv, TypeOK
<1>2. \A c \in Callers : Len(queue[c]) \in Nat /\ IsInjective(queue[c])
  BY <1>1, LenProperties DEF PushInv, Kept
<1>3. disk' = queue' \/ (SavesFail /\ disk' = disk)
  BY PushingAssumption DEF PushInv, FileIsTrue, KeepQueue
<1>4. fate' = [m \in Messages |-> IF m \in {} THEN "expired" ELSE fate[m]]
  BY <1>1 DEF KeepQueue
<1> QED BY <1>1, <1>2, <1>3, <1>4 DEF Cut, KeepQueue, Fates

\* with_queue, of one queue: the messages that leave it leave every queue, for no
\* other has them.
LEMMA CutsOne ==
  ASSUME PushInv, NEW c \in Callers, NEW ids, NEW q \in Seq(Messages), NEW outcome \in Fates \ {"none", "queued"},
         SetQueue(c, q), Record(c, ids, outcome),
         Len(q) <= Len(queue[c]), IsInjective(q), Range(q) = Range(queue[c]) \ ids
  PROVE  Cut(ids \cap Range(queue[c]), outcome)
<1> DEFINE gone == ids \cap Range(queue[c])
<1>1. queue \in [Callers -> Seq(Messages)]
  BY DEF PushInv, TypeOK
<1>2. gone \subseteq Messages /\ \A m \in gone : \E d \in Callers : m \in Range(queue[d])
  BY Parts
<1>3. queue' = [queue EXCEPT ![c] = q]
  BY DEF SetQueue
<1>4. queue' \in [Callers -> Seq(Messages)]
  BY <1>1, <1>3
<1>5. ASSUME NEW d \in Callers
      PROVE  /\ Len(queue'[d]) <= Len(queue[d]) /\ IsInjective(queue'[d])
             /\ Range(queue'[d]) = Range(queue[d]) \ gone
  <2>1. CASE d = c
    BY <1>1, <1>3, <2>1
  <2>2. CASE d # c
    <3>1. queue'[d] = queue[d]
      BY <1>1, <1>3, <2>2
    <3>2. Len(queue[d]) \in Nat /\ IsInjective(queue[d])
      BY <1>1, LenProperties DEF PushInv, Kept
    <3>3. \A m \in gone : m \notin Range(queue[d])
      BY <2>2 DEF PushInv, Kept
    <3> QED BY <3>1, <3>2, <3>3
  <2> QED BY <2>1, <2>2
<1>6. disk' = queue' \/ (SavesFail /\ disk' = disk)
  BY DEF SetQueue
<1>7. fate' = [m \in Messages |-> IF m \in gone THEN outcome ELSE fate[m]]
  BY DEF Record
<1> QED BY <1>2, <1>4, <1>5, <1>6, <1>7 DEF Cut

\* drop_queue cuts the whole queue of a recipient.
LEMMA CutsPurged ==
  ASSUME PushInv, NEW c \in Callers, Purge(c)
  PROVE  Cut(Messages \cap Range(queue[c]), "denied")
<1>1. <<>> \in Seq(Messages) /\ Len(<<>>) = 0 /\ Range(<<>>) = {} /\ IsInjective(<<>>)
  BY OfNothing
<1>2. Len(queue[c]) \in Nat /\ Range(queue[c]) \ Messages = {}
  BY Parts, LenProperties
<1>3. SetQueue(c, <<>>) /\ Record(c, Messages, "denied")
  BY DEF Purge
<1>4. "denied" \in Fates \ {"none", "queued"}
  BY DEF Fates
<1> DEFINE q == <<>>
<1>5. q \in Seq(Messages) /\ Len(q) <= Len(queue[c]) /\ IsInjective(q) /\ Range(q) = Range(queue[c]) \ Messages
  BY <1>1, <1>2
<1>6. SetQueue(c, q)
  BY <1>3
<1> HIDE DEF q
<1> QED BY <1>3, <1>4, <1>5, <1>6, CutsOne

\* What is acknowledged and queued is cut.
LEMMA CutsAcknowledged ==
  ASSUME PushInv, NEW c \in Callers, NEW ids, NEW outcome \in {"delivered", "fetched"},
         Acknowledged(c, ids, outcome)
  PROVE  Cut(ids \cap Range(queue[c]), outcome)
<1> DEFINE q == Without(queue[c], ids)
<1>1. queue[c] \in Seq(Messages) /\ IsInjective(queue[c])
  BY Parts DEF PushInv, Kept
<1>2. q \in Seq(Messages) /\ Len(q) <= Len(queue[c]) /\ Range(q) = Range(queue[c]) \ ids /\ IsInjective(q)
  BY <1>1, WithoutKeeps
<1>3. SetQueue(c, q) /\ Record(c, ids, outcome)
  BY DEF Acknowledged
<1>4. outcome \in Fates \ {"none", "queued"}
  BY DEF Fates
<1> HIDE DEF q
<1> QED BY <1>2, <1>3, <1>4, CutsOne

\* sweep cuts what has expired.
LEMMA CutsExpired ==
  ASSUME PushInv, Sweep
  PROVE  Cut({m \in Messages : \E c \in Callers : m \in Range(queue[c]) /\ ~ Live(m)}, "expired")
<1> DEFINE gone == {m \in Messages : \E c \in Callers : m \in Range(queue[c]) /\ ~ Live(m)}
<1>1. queue' = [c \in Callers |-> Without(queue[c], gone)]
  BY DEF Sweep
<1>2. disk' = queue' \/ (SavesFail /\ disk' = disk)
  BY DEF Sweep
<1>3. fate' = [m \in Messages |-> IF m \in gone THEN "expired" ELSE fate[m]]
  BY DEF Sweep
<1>4. gone \subseteq Messages /\ \A m \in gone : \E c \in Callers : m \in Range(queue[c])
  OBVIOUS
<1> HIDE DEF gone
<1>5. ASSUME NEW c \in Callers
      PROVE  /\ queue'[c] \in Seq(Messages)
             /\ Len(queue'[c]) <= Len(queue[c]) /\ IsInjective(queue'[c])
             /\ Range(queue'[c]) = Range(queue[c]) \ gone
  <2>1. queue[c] \in Seq(Messages) /\ IsInjective(queue[c])
    BY Parts DEF PushInv, Kept
  <2>2. queue'[c] = Without(queue[c], gone)
    BY <1>1
  <2> QED BY <2>1, <2>2, WithoutKeeps
<1>6. queue' \in [Callers -> Seq(Messages)]
  BY <1>1, <1>5
<1> QED BY <1>2, <1>3, <1>4, <1>5, <1>6 DEF Cut, Fates, gone

-----------------------------------------------------------------------------
(* The invariant is inductive. *)

\* A host starts with empty queues, no open conversation and no queue file.
LEMMA InitPush == Init => PushInv
<1> SUFFICES ASSUME Init PROVE PushInv
  OBVIOUS
<1>1. (CHOOSE c \in Callers : TRUE) \in Callers
  BY PushingAssumption
<1>2. <<>> \in Seq(Messages) /\ Len(<<>>) = 0 /\ Range(<<>>) = {} /\ IsInjective(<<>>)
  BY OfNothing
<1>3. Closed \in Fetching /\ Closed.step = "closed" /\ Closed.by \in Callers
  BY <1>1, <1>2 DEF Closed, Fetching, FetchSteps
<1>4. TypeOK
  BY <1>2, <1>3, PushingAssumption DEF Init, TypeOK, Fetching, PushSteps, Fates
<1>5. Undecided = {} /\ \A c \in Callers : Polls(c) = {}
  BY <1>3 DEF Init, Undecided, Polls
<1>6. Counted
  BY <1>5, FS_EmptySet DEF Init, Counted
<1>7. Kept(queue) /\ Kept(disk)
  BY <1>2, PushingAssumption DEF Init, Kept
<1>8. UnqueuedAreOpen /\ FileIsTrue
  BY <1>2 DEF Init, UnqueuedAreOpen, Unqueued, FileIsTrue
<1>9. AcksAreHeld /\ DeliveredIsHeld /\ NoPollSleepsOnAMessage
  BY <1>3 DEF Init, AcksAreHeld, DeliveredIsHeld, NoPollSleepsOnAMessage
<1> QED BY <1>4, <1>6, <1>7, <1>8, <1>9 DEF PushInv

\* A step that leaves the pushes and the fetches is carried.
LEMMA HostCarries ==
  ASSUME PushInv, NEW gone, Cut(gone, "expired"),
         UNCHANGED <<sending, serving, held>>, now' >= now, WorldOK'
  PROVE  PushInv'
<1>1. Unqueued' = Unqueued /\ \A f \in Fetches : Sleeps(f)
  BY DEF Unqueued, Sleeps, sending, serving
<1>2. SendsOK' /\ ServesOK' /\ AcksAreHeld'
  BY Parts DEF SendsOK, ServesOK, AcksAreHeld, Counted, Polls, Undecided, sending, serving
<1> QED BY <1>1, <1>2, Carried DEF sending

\* retain_not_expired, the clock, and what the policy says of a caller (push.rs).
LEMMA HostSteps ==
  ASSUME PushInv, Sweep \/ Tick \/ \E c \in Callers : PolicyMoves(c) \/ Called(c) \/ IdentityLapses(c)
  PROVE  PushInv'
<1>1. WorldOK
  BY Parts
<1>2. CASE Sweep
  <2>1. WorldOK' /\ now' >= now /\ UNCHANGED <<sending, serving, held>>
    BY <1>1, <1>2 DEF Sweep, WorldOK, world, policy
  <2> QED BY <1>2, <2>1, CutsExpired, HostCarries
<1>3. CASE Tick
  <2>1. WorldOK' /\ now' >= now /\ UNCHANGED <<sending, serving, held>> /\ KeepQueue
    BY <1>1, <1>3 DEF Tick, WorldOK, policy, KeepQueue
  <2> QED BY <2>1, CutsNothing, HostCarries
<1>4. ASSUME NEW c \in Callers, PolicyMoves(c) \/ Called(c) \/ IdentityLapses(c) PROVE PushInv'
  <2>1. UNCHANGED <<world, queue, disk, fate, sending, serving, held>>
    BY <1>4 DEF PolicyMoves, Called, IdentityLapses
  <2>2. standing' \in [Callers -> Standing] /\ known' \subseteq Callers
    BY <1>1, <1>4, PushingAssumption DEF PolicyMoves, Called, IdentityLapses, WorldOK
  <2>3. WorldOK' /\ now' >= now /\ KeepQueue
    BY <1>1, <2>1, <2>2 DEF WorldOK, world, KeepQueue
  <2> QED BY <2>1, <2>3, CutsNothing, HostCarries
<1> QED BY <1>2, <1>3, <1>4

\* A message is in no queue before its push is sent on, so what is said of it may
\* still change.
LEMMA SendPush ==
  ASSUME PushInv, NEW m \in Messages, NEW c \in Callers, Send(m, c)
  PROVE  PushInv'
<1>1. TypeOK /\ ServesOK
  BY Parts
<1>2. UNCHANGED <<now, standing, known, restarts, queue, disk, offer, fetch, slots, permits, held>>
  BY DEF Send, world, policy, serving
<1>3. /\ push[m] = "unsent"
      /\ to' = [to EXCEPT ![m] = c]
      /\ \E t \in Ttls : expires' = [expires EXCEPT ![m] = now + t]
      /\ \/ push' = [push EXCEPT ![m] = "authorized"] /\ fate' = fate
         \/ push' = [push EXCEPT ![m] = "reported"] /\ fate' = [fate EXCEPT ![m] = "denied"]
  BY DEF Send
<1>4. PICK t \in Ttls : expires' = [expires EXCEPT ![m] = now + t]
  BY <1>3
<1>5. to' \in [Messages -> Callers] /\ expires' \in [Messages -> Nat]
  BY <1>1, <1>3, <1>4, PushingAssumption DEF TypeOK
<1>6. push' \in [Messages -> PushSteps] /\ fate' \in [Messages -> Fates]
  <2>1. /\ push \in [Messages -> PushSteps] /\ fate \in [Messages -> Fates]
        /\ "authorized" \in PushSteps /\ "reported" \in PushSteps /\ "denied" \in Fates
    BY <1>1 DEF TypeOK, PushSteps, Fates
  <2>2. CASE push' = [push EXCEPT ![m] = "authorized"] /\ fate' = fate
    BY <2>1, <2>2
  <2>3. CASE push' = [push EXCEPT ![m] = "reported"] /\ fate' = [fate EXCEPT ![m] = "denied"]
    BY <2>1, <2>3
  <2> QED BY <1>3, <2>2, <2>3
<1>7. TypeOK'
  BY <1>1, <1>2, <1>5, <1>6 DEF TypeOK
<1>8. \A n \in Messages \ {m} : push'[n] = push[n] /\ to'[n] = to[n] /\ expires'[n] = expires[n] /\ fate'[n] = fate[n]
  BY <1>1, <1>3, <1>4 DEF TypeOK
<1>9. m \in Unqueued /\ push'[m] \in {"authorized", "reported"}
      /\ (push'[m] = "authorized" => fate'[m] = fate[m]) /\ (fate'[m] = fate[m] \/ fate'[m] = "denied")
  BY <1>1, <1>3 DEF Unqueued, TypeOK
<1>10. Unqueued' \subseteq Unqueued
  BY <1>8, <1>9 DEF Unqueued
<1>11. \A d \in Callers : m \notin Range(queue[d]) /\ m \notin Range(disk[d])
  BY <1>9 DEF PushInv, Kept
<1>12. Counted'
  BY <1>1, <1>2 DEF ServesOK, Counted, Undecided, Polls
<1>13. Kept(queue)' /\ Kept(disk)'
  <2>1. \A d \in Callers : \A n \in Range(queue[d]) : n \in Messages
    BY Parts
  <2>2. \A d \in Callers : \A n \in Range(disk[d]) : n \in Messages
    BY <1>1, RangeOfSeq DEF TypeOK
  <2> QED BY <1>2, <1>8, <1>10, <1>11, <2>1, <2>2 DEF PushInv, Kept
<1>14. UnqueuedAreOpen'
  <2> SUFFICES ASSUME NEW n \in Unqueued' PROVE fate'[n] = "none"
    BY DEF UnqueuedAreOpen
  <2>1. n \in Messages /\ n \in Unqueued /\ fate[n] = "none" /\ push'[n] \in {"unsent", "authorized"}
    BY <1>10 DEF PushInv, UnqueuedAreOpen, Unqueued
  <2>2. CASE n = m
    BY <1>9, <2>1, <2>2
  <2>3. CASE n # m
    BY <1>8, <2>1, <2>3
  <2> QED BY <2>2, <2>3
<1>15. FileIsTrue'
  <2>1. fate[m] = "none"
    BY <1>9 DEF PushInv, UnqueuedAreOpen
  <2>2. fate'[m] # "queued"
    BY <1>9, <2>1
  <2> QED BY <1>2, <1>8, <1>11, <2>2 DEF PushInv, FileIsTrue
<1>16. AcksAreHeld'
  <2>1. \A n \in Messages : push'[n] = "acked" => push[n] = "acked" /\ to'[n] = to[n]
    BY <1>8, <1>9
  <2> QED BY <1>2, <2>1 DEF PushInv, AcksAreHeld
<1>17. DeliveredIsHeld'
  <2>1. \A n \in Messages : fate'[n] \in {"delivered", "fetched"} => fate[n] = fate'[n] /\ n # m
    BY <1>8, <1>9 DEF PushInv, UnqueuedAreOpen
  <2> QED BY <1>2, <1>8, <2>1 DEF PushInv, DeliveredIsHeld
<1>18. NoPollSleepsOnAMessage'
  <2> SUFFICES ASSUME NEW f \in Fetches, fetch[f].step = "asleep", ~ fetch[f].woken,
                      Pending(fetch[f].by)' # <<>>
               PROVE  \E n \in Messages : push'[n] = "inserted" /\ to'[n] = fetch[f].by
    BY <1>2 DEF NoPollSleepsOnAMessage
  <2>1. fetch[f].by \in Callers
    BY <1>1 DEF TypeOK
  <2>2. PICK n \in Range(queue[fetch[f].by]) : Live(n)'
    BY <1>2, <2>1, Parts, PendingIsLive
  <2>3. n \in Messages /\ n # m
    BY <1>11, <2>1, <2>2, Parts
  <2>4. Live(n)
    BY <1>2, <1>8, <2>2, <2>3 DEF Live
  <2>5. Pending(fetch[f].by) # <<>>
    BY <2>1, <2>2, <2>4, Parts, PendingIsLive
  <2>6. PICK k \in Messages : push[k] = "inserted" /\ to[k] = fetch[f].by
    BY <2>5 DEF PushInv, NoPollSleepsOnAMessage
  <2>7. k # m
    BY <1>3, <2>6
  <2> QED BY <1>8, <2>6, <2>7
<1> QED BY <1>7, <1>12, <1>13, <1>14, <1>15, <1>16, <1>17, <1>18 DEF PushInv

\* What joins a queue was in none, and has one place there; past the cap, the
\* oldest makes room for it.
LEMMA InsertPush ==
  ASSUME PushInv, NEW m \in Messages, Insert(m)
  PROVE  PushInv'
<1> DEFINE c == to[m]
           q == Append(queue[c], m)
           full == Len(q) > QueueCap
           r == IF full THEN Tail(q) ELSE q
           old == IF full THEN {Head(q)} ELSE {}
<1>1. TypeOK /\ ServesOK /\ c \in Callers /\ queue[c] \in Seq(Messages)
  BY Parts DEF TypeOK
<1>2. UNCHANGED <<now, standing, known, restarts, to, expires, offer, fetch, slots, permits, held>>
  BY DEF Insert, world, policy, serving
<1>3. /\ push[m] = "authorized" /\ push' = [push EXCEPT ![m] = "inserted"]
      /\ queue' = [queue EXCEPT ![c] = r]
      /\ disk' = queue' \/ (SavesFail /\ disk' = disk)
      /\ fate' = [n \in Messages |-> IF n \in old THEN "dropped" ELSE IF n = m THEN "queued" ELSE fate[n]]
  <2>1. /\ push[m] = "authorized" /\ push' = [push EXCEPT ![m] = "inserted"]
        /\ SetQueue(c, r)
        /\ IF full THEN fate' = [[fate EXCEPT ![m] = "queued"] EXCEPT ![Head(q)] = "dropped"]
                   ELSE fate' = [fate EXCEPT ![m] = "queued"]
    BY DEF Insert
  <2> HIDE DEF q, full, r
  <2>2. fate' = [n \in Messages |-> IF n \in old THEN "dropped" ELSE IF n = m THEN "queued" ELSE fate[n]]
    BY <1>1, <2>1 DEF TypeOK
  <2> QED BY <2>1, <2>2 DEF SetQueue
<1>4. m \in Unqueued /\ \A d \in Callers : m \notin Range(queue[d]) /\ m \notin Range(disk[d])
  BY <1>1, <1>3 DEF Unqueued, PushInv, Kept
<1>5. /\ IsInjective(queue[c]) /\ Len(queue[c]) \in Nat /\ Len(queue[c]) <= QueueCap
      /\ QueueCap \in Nat \ {0}
  BY <1>1, PushingAssumption, LenProperties DEF PushInv, Kept
<1>6. /\ q \in Seq(Messages) /\ Len(q) = Len(queue[c]) + 1 /\ q # <<>>
      /\ Range(q) = Range(queue[c]) \cup {m} /\ IsInjective(q)
  BY <1>1, <1>4, <1>5, Appended, AppendProperties
<1>7. full => /\ Head(q) \in Range(q) /\ Tail(q) \in Seq(Messages) /\ Len(Tail(q)) = Len(q) - 1
              /\ Range(Tail(q)) \cup {Head(q)} = Range(q)
              /\ IsInjective(Tail(q)) /\ Head(q) \notin Range(Tail(q))
  BY <1>6, OldestGoes
<1>8. full => Head(q) # m
  <2>1. full => Len(queue[c]) # 0
    BY <1>5, <1>6
  <2>2. queue[c] # <<>> => Head(q) = Head(queue[c]) /\ Head(queue[c]) \in Range(queue[c])
    BY <1>1, HeadTailAppend, OldestGoes
  <2>3. queue[c] = <<>> => Len(queue[c]) = 0
    BY EmptySeq
  <2> HIDE DEF q
  <2> QED BY <1>1, <1>4, <2>1, <2>2, <2>3
<1> HIDE DEF q
<1>9. /\ r \in Seq(Messages) /\ Len(r) <= QueueCap /\ IsInjective(r)
      /\ Range(r) = (Range(queue[c]) \cup {m}) \ old /\ old \subseteq Range(queue[c])
      /\ m \in Range(r)
  <2>1. CASE full
    BY <1>4, <1>5, <1>6, <1>7, <1>8, <2>1
  <2>2. CASE ~ full
    <3>1. Len(q) <= QueueCap
      BY <1>5, <1>6, <2>2
    <3> QED BY <1>6, <2>2, <3>1
  <2> QED BY <2>1, <2>2
<1> HIDE DEF r, old, full
<1>10. queue' \in [Callers -> Seq(Messages)] /\ queue'[c] = r /\ \A d \in Callers \ {c} : queue'[d] = queue[d]
  BY <1>1, <1>3, <1>9 DEF TypeOK
<1>11. disk' \in [Callers -> Seq(Messages)]
  BY <1>1, <1>3, <1>10 DEF TypeOK
<1>12. push' \in [Messages -> PushSteps] /\ fate' \in [Messages -> Fates]
  BY <1>1, <1>3 DEF TypeOK, PushSteps, Fates
<1>13. TypeOK'
  BY <1>1, <1>2, <1>10, <1>11, <1>12 DEF TypeOK
<1>14. Counted'
  BY <1>1, <1>2 DEF ServesOK, Counted, Undecided, Polls
<1>15. push'[m] = "inserted" /\ \A n \in Messages \ {m} : push'[n] = push[n]
  BY <1>1, <1>3 DEF TypeOK
<1>16. Unqueued' = Unqueued \ {m}
  BY <1>15 DEF Unqueued
<1>17. Kept(queue)'
  <2> SUFFICES ASSUME NEW d \in Callers
               PROVE  /\ Len(queue'[d]) <= QueueCap /\ IsInjective(queue'[d])
                      /\ \A n \in Range(queue'[d]) : n \notin Unqueued' /\ to[n] = d
    BY <1>2 DEF Kept
  <2>1. /\ Len(queue[d]) <= QueueCap /\ IsInjective(queue[d])
        /\ \A n \in Range(queue[d]) : n \notin Unqueued /\ to[n] = d
    BY DEF PushInv, Kept
  <2>2. CASE d = c
    BY <1>9, <1>10, <1>16, <2>1, <2>2
  <2>3. CASE d # c
    BY <1>10, <1>16, <2>1, <2>3
  <2> QED BY <2>2, <2>3
<1>18. Kept(disk)'
  <2>1. CASE disk' = queue'
    BY <1>17, <2>1 DEF Kept
  <2>2. CASE disk' = disk
    BY <1>2, <1>16, <2>2 DEF PushInv, Kept
  <2> QED BY <1>3, <2>1, <2>2
<1>19. \A n \in old : n \notin Unqueued
  BY <1>1, <1>9 DEF PushInv, Kept
<1>20. UnqueuedAreOpen'
  <2> SUFFICES ASSUME NEW n \in Unqueued, n # m PROVE fate'[n] = "none"
    BY <1>16 DEF UnqueuedAreOpen
  <2>1. n \in Messages /\ n \notin old /\ fate[n] = "none"
    BY <1>19 DEF Unqueued, PushInv, UnqueuedAreOpen
  <2> QED BY <1>3, <2>1
<1>21. FileIsTrue'
  <2> SUFFICES ASSUME ~ SavesFail
               PROVE  /\ disk' = queue'
                      /\ \A n \in Messages, d \in Callers :
                           n \in Range(queue'[d]) <=> fate'[n] = "queued" /\ to[n] = d
    BY <1>2 DEF FileIsTrue
  <2>1. disk' = queue'
    BY <1>3
  <2>2. ASSUME NEW n \in Messages, NEW d \in Callers
        PROVE  n \in Range(queue'[d]) <=> fate'[n] = "queued" /\ to[n] = d
    <3>1. n \in Range(queue[d]) <=> fate[n] = "queued" /\ to[n] = d
      BY DEF PushInv, FileIsTrue
    <3>2. n \in old => to[n] = c
      BY <1>1, <1>9 DEF PushInv, Kept
    <3>3. fate'[n] = IF n \in old THEN "dropped" ELSE IF n = m THEN "queued" ELSE fate[n]
      BY <1>3
    <3>4. CASE d = c
      BY <1>9, <1>10, <3>1, <3>3, <3>4
    <3>5. CASE d # c
      BY <1>4, <1>9, <1>10, <3>1, <3>2, <3>3, <3>5
    <3> QED BY <3>4, <3>5
  <2> QED BY <2>1, <2>2
<1>22. AcksAreHeld'
  <2>1. \A n \in Messages : push'[n] = "acked" => push[n] = "acked"
    BY <1>15
  <2> QED BY <1>2, <2>1 DEF PushInv, AcksAreHeld
<1>23. DeliveredIsHeld'
  <2>1. \A n \in Messages : fate'[n] \in {"delivered", "fetched"} => fate[n] = fate'[n]
    BY <1>3
  <2> QED BY <1>2, <2>1 DEF PushInv, DeliveredIsHeld
<1>24. NoPollSleepsOnAMessage'
  <2> SUFFICES ASSUME NEW f \in Fetches, fetch[f].step = "asleep", ~ fetch[f].woken,
                      Pending(fetch[f].by)' # <<>>
               PROVE  \E n \in Messages : push'[n] = "inserted" /\ to[n] = fetch[f].by
    BY <1>2 DEF NoPollSleepsOnAMessage
  <2>1. fetch[f].by \in Callers
    BY <1>1 DEF TypeOK
  <2>2. CASE fetch[f].by = c
    BY <1>15, <2>2
  <2>3. CASE fetch[f].by # c
    <3>1. queue'[fetch[f].by] = queue[fetch[f].by]
      BY <1>10, <2>1, <2>3
    <3>2. Pending(fetch[f].by)' = Pending(fetch[f].by)
      BY <1>2, <3>1 DEF Pending, Live
    <3>3. PICK n \in Messages : push[n] = "inserted" /\ to[n] = fetch[f].by
      BY <3>2 DEF PushInv, NoPollSleepsOnAMessage
    <3>4. n # m
      BY <1>3, <3>3
    <3> QED BY <1>15, <3>3, <3>4
  <2> QED BY <2>2, <2>3
<1> QED BY <1>13, <1>14, <1>17, <1>18, <1>20, <1>21, <1>22, <1>23, <1>24 DEF PushInv

\* notify_waiters tells every poll that is armed or sleeps.
LEMMA NotifyPush ==
  ASSUME PushInv, NEW m \in Messages, NotifyWaiters(m)
  PROVE  PushInv'
<1>1. TypeOK /\ WorldOK /\ SendsOK /\ ServesOK /\ AcksAreHeld
  BY Parts
<1>2. /\ UNCHANGED <<now, standing, known, restarts, to, expires, offer, slots, permits, held>>
      /\ KeepQueue
  BY DEF NotifyWaiters, world, policy, KeepQueue
<1>3. /\ push[m] = "inserted" /\ push' = [push EXCEPT ![m] = "notified"]
      /\ fetch' = [f \in Fetches |->
           IF fetch[f].step \in {"armed", "asleep"} THEN [fetch[f] EXCEPT !.woken = TRUE]
           ELSE fetch[f]]
  BY DEF NotifyWaiters
<1>4. ASSUME NEW f \in Fetches
      PROVE  /\ fetch'[f] \in Fetching
             /\ fetch'[f].by = fetch[f].by /\ fetch'[f].step = fetch[f].step
             /\ fetch'[f].batch = fetch[f].batch
             /\ fetch'[f].step = "asleep" => fetch'[f].woken
  <2>1. fetch[f] \in Fetching
    BY <1>1 DEF ServesOK
  <2> QED BY <1>3, <2>1 DEF Fetching
<1>5. ServesOK'
  <2>1. fetch' \in [Fetches -> Fetching]
    BY <1>3, <1>4
  <2>2. Undecided' = Undecided /\ \A c \in Callers : Polls(c)' = Polls(c)
    BY <1>4 DEF Undecided, Polls
  <2> QED BY <1>1, <1>2, <2>1, <2>2 DEF ServesOK, Counted
<1>6. "notified" \in PushSteps
  BY DEF PushSteps
<1>7. SendsOK' /\ WorldOK'
  BY <1>1, <1>2, <1>3, <1>6 DEF SendsOK, WorldOK
<1>8. push'[m] = "notified" /\ \A n \in Messages \ {m} : push'[n] = push[n]
  BY <1>1, <1>3 DEF SendsOK
<1>9. Unqueued' = Unqueued
  BY <1>3, <1>8 DEF Unqueued
<1>10. AcksAreHeld'
  BY <1>1, <1>2, <1>4, <1>8 DEF AcksAreHeld
<1>11. \A f \in Fetches : Sleeps(f)
  BY <1>4 DEF Sleeps
<1>12. now' >= now
  BY <1>1, <1>2 DEF WorldOK
<1>13. \A c \in Callers : held[c] \subseteq held'[c]
  BY <1>2
<1>14. Cut({}, "expired")
  BY <1>2, CutsNothing
<1> QED BY <1>2, <1>5, <1>7, <1>9, <1>10, <1>11, <1>12, <1>13, <1>14, Carried

\* A step of the delivery of m, once the polls were told of it.
LEMMA DeliveryCarries ==
  ASSUME PushInv, NEW m \in Messages,
         NEW p \in PushSteps \ {"unsent", "authorized", "inserted"}, NEW b \in Seq(Messages),
         push[m] \in PushSteps \ {"unsent", "authorized", "inserted"},
         push' = [push EXCEPT ![m] = p], offer' = [offer EXCEPT ![m] = b],
         NEW gone, NEW outcome, Cut(gone, outcome),
         outcome \in {"delivered", "fetched"} => \A n \in gone : n \in held[to[n]],
         UNCHANGED <<world, policy, to, expires, serving>>,
         held' \in [Callers -> SUBSET Messages], \A c \in Callers : held[c] \subseteq held'[c],
         p = "acked" => Range(b) \subseteq held'[to[m]]
  PROVE  PushInv'
<1>1. TypeOK /\ WorldOK /\ SendsOK /\ ServesOK /\ AcksAreHeld
  BY Parts
<1>2. UNCHANGED <<now, standing, known, restarts, fetch, slots, permits>>
  BY DEF world, policy, serving
<1>3. /\ push'[m] = p /\ \A n \in Messages \ {m} : push'[n] = push[n]
      /\ offer'[m] = b /\ \A n \in Messages \ {m} : offer'[n] = offer[n]
  BY <1>1 DEF SendsOK
<1>4. SendsOK' /\ WorldOK'
  BY <1>1, <1>2 DEF SendsOK, WorldOK
<1>5. ServesOK'
  BY <1>1, <1>2 DEF ServesOK, Counted, Undecided, Polls
<1>6. Unqueued' = Unqueued
  BY <1>3 DEF Unqueued
<1>7. AcksAreHeld'
  <2>1. \A f \in Fetches : fetch[f].by \in Callers
    BY <1>1 DEF TypeOK
  <2>2. \A n \in Messages : to[n] \in Callers
    BY <1>1 DEF TypeOK
  <2>3. ASSUME NEW n \in Messages, push'[n] = "acked" PROVE Range(offer'[n]) \subseteq held'[to[n]]
    <3>1. CASE n = m
      BY <1>3, <2>3, <3>1
    <3>2. CASE n # m
      BY <1>1, <1>3, <2>2, <2>3, <3>2 DEF AcksAreHeld
    <3> QED BY <3>1, <3>2
  <2>4. ASSUME NEW f \in Fetches, fetch[f].step = "acked"
        PROVE  Range(fetch[f].batch) \subseteq held'[fetch[f].by]
    BY <1>1, <2>1, <2>4 DEF AcksAreHeld
  <2> QED BY <1>2, <2>3, <2>4 DEF AcksAreHeld
<1>8. \A f \in Fetches : Sleeps(f)
  BY <1>2, <1>3 DEF Sleeps
<1>9. now' >= now
  BY <1>1, <1>2 DEF WorldOK
<1> QED BY <1>4, <1>5, <1>6, <1>7, <1>8, <1>9, Carried

\* deliver_direct: the batch is offered on a conversation that the policy still allows.
LEMMA DeliverPush ==
  ASSUME PushInv, NEW m \in Messages, DeliverDirect(m)
  PROVE  PushInv'
<1>1. TypeOK /\ SendsOK /\ to[m] \in Callers /\ offer[m] \in Seq(Messages) /\ push[m] = "notified"
  BY Parts DEF TypeOK, DeliverDirect
<1>2. /\ UNCHANGED <<world, policy, to, expires, serving, held>>
      /\ held' \in [Callers -> SUBSET Messages] /\ \A c \in Callers : held[c] \subseteq held'[c]
  BY <1>1 DEF DeliverDirect, TypeOK
<1>3. push[m] \in PushSteps \ {"unsent", "authorized", "inserted"}
  BY <1>1 DEF PushSteps
<1>4. CASE Decide(to[m]) = "ok"
  <2> DEFINE p == IF Pending(to[m]) = <<>> THEN "reported" ELSE "offered"
             b == Pending(to[m])
  <2>1. push' = [push EXCEPT ![m] = p] /\ offer' = [offer EXCEPT ![m] = b] /\ KeepQueue
    BY <1>4 DEF DeliverDirect
  <2>2. b \in Seq(Messages)
    BY <1>1, Parts, PendingIsLive
  <2>3. p \in PushSteps \ {"unsent", "authorized", "inserted"} /\ p # "acked"
    BY DEF PushSteps
  <2>4. Cut({}, "expired")
    BY <2>1, CutsNothing
  <2> HIDE DEF p, b
  <2> QED BY <1>2, <1>3, <2>1, <2>2, <2>3, <2>4, DeliveryCarries
<1>5. CASE Decide(to[m]) # "ok"
  <2>1. /\ push' = [push EXCEPT ![m] = "reported"] /\ offer' = offer
        /\ Purge(to[m]) \/ KeepQueue
    BY <1>5 DEF DeliverDirect
  <2> DEFINE b == offer[m]
             p == "reported"
  <2>2. offer' = [offer EXCEPT ![m] = b] /\ b \in Seq(Messages) /\ push' = [push EXCEPT ![m] = p]
    BY <1>1, <2>1 DEF SendsOK
  <2>3. p \in PushSteps \ {"unsent", "authorized", "inserted"} /\ p # "acked"
    BY DEF PushSteps
  <2> HIDE DEF b, p
  <2>4. CASE Purge(to[m])
    <3>1. Cut(Messages \cap Range(queue[to[m]]), "denied")
      BY <1>1, <2>4, CutsPurged
    <3> QED BY <1>2, <1>3, <2>2, <2>3, <3>1, DeliveryCarries
  <2>5. CASE KeepQueue
    <3>1. Cut({}, "expired")
      BY <2>5, CutsNothing
    <3> QED BY <1>2, <1>3, <2>2, <2>3, <3>1, DeliveryCarries
  <2> QED BY <2>1, <2>4, <2>5
<1> QED BY <1>4, <1>5

\* A direct conversation that fails reports its push and leaves the queue.
LEMMA FailPush ==
  ASSUME PushInv, NEW m \in Messages, DirectFails(m)
  PROVE  PushInv'
<1>1. TypeOK
  BY Parts
<1>2. /\ UNCHANGED <<world, policy, to, expires, serving, held>>
      /\ held' \in [Callers -> SUBSET Messages] /\ \A c \in Callers : held[c] \subseteq held'[c]
  BY <1>1 DEF DirectFails, TypeOK
<1>3. /\ push[m] \in PushSteps \ {"unsent", "authorized", "inserted"}
      /\ "reported" \in PushSteps \ {"unsent", "authorized", "inserted"}
  BY DEF DirectFails, PushSteps
<1>4. /\ push' = [push EXCEPT ![m] = "reported"] /\ offer' = [offer EXCEPT ![m] = <<>>]
      /\ KeepQueue
  BY DEF DirectFails, KeepQueue
<1>5. Cut({}, "expired") /\ <<>> \in Seq(Messages)
  BY <1>4, CutsNothing, OfNothing
<1> QED BY <1>2, <1>3, <1>4, <1>5, DeliveryCarries

\* A direct acknowledgement removes from the queue what the recipient stored.
LEMMA AckPush ==
  ASSUME PushInv, NEW m \in Messages, DirectAcked(m)
  PROVE  PushInv'
<1> DEFINE gone == Range(offer[m]) \cap Range(queue[to[m]])
<1>1. TypeOK /\ AcksAreHeld /\ to[m] \in Callers
  BY Parts DEF TypeOK
<1>2. /\ UNCHANGED <<world, policy, to, expires, serving, held>>
      /\ held' \in [Callers -> SUBSET Messages] /\ \A c \in Callers : held[c] \subseteq held'[c]
  BY <1>1 DEF DirectAcked, TypeOK
<1>3. /\ push[m] \in PushSteps \ {"unsent", "authorized", "inserted"} /\ push[m] = "acked"
      /\ "reported" \in PushSteps \ {"unsent", "authorized", "inserted"}
  BY DEF DirectAcked, PushSteps
<1>4. /\ push' = [push EXCEPT ![m] = "reported"] /\ offer' = [offer EXCEPT ![m] = <<>>]
      /\ Acknowledged(to[m], Range(offer[m]), "delivered")
  BY DEF DirectAcked
<1>5. Cut(gone, "delivered") /\ <<>> \in Seq(Messages)
  BY <1>1, <1>4, CutsAcknowledged, OfNothing
<1>6. \A n \in gone : n \in held[to[n]]
  BY <1>1, <1>3 DEF AcksAreHeld, PushInv, Kept
<1> QED BY <1>2, <1>3, <1>4, <1>5, <1>6, DeliveryCarries

\* The recipient stores what it was offered, then acknowledges it (inbox.rs).
LEMMA ReceivePush ==
  ASSUME PushInv, NEW m \in Messages, ReceiveDirect(m)
  PROVE  PushInv'
<1> DEFINE ok == Acceptable(offer[m])
<1>1. TypeOK /\ SendsOK /\ to[m] \in Callers /\ offer[m] \in Seq(Messages)
  BY Parts DEF TypeOK
<1>2. ok \in Seq(Messages) /\ Range(ok) \subseteq Messages
  BY <1>1, WithoutKeeps, RangeOfSeq DEF Acceptable
<1>3. /\ UNCHANGED <<world, policy, to, expires, serving>>
      /\ held' = [held EXCEPT ![to[m]] = held[to[m]] \cup Range(ok)]
      /\ offer' = [offer EXCEPT ![m] = ok] /\ push' = [push EXCEPT ![m] = "acked"]
      /\ KeepQueue
  BY DEF ReceiveDirect
<1> HIDE DEF ok
<1>4. /\ held' \in [Callers -> SUBSET Messages] /\ \A c \in Callers : held[c] \subseteq held'[c]
      /\ Range(ok) \subseteq held'[to[m]]
  BY <1>1, <1>2, <1>3 DEF SendsOK
<1>5. /\ push[m] \in PushSteps \ {"unsent", "authorized", "inserted"}
      /\ "acked" \in PushSteps \ {"unsent", "authorized", "inserted"}
  BY DEF ReceiveDirect, PushSteps
<1>6. Cut({}, "expired")
  BY <1>3, CutsNothing
<1> QED BY <1>2, <1>3, <1>4, <1>5, <1>6, DeliveryCarries

\* A step of a fetch.
LEMMA FetchCarries ==
  ASSUME PushInv, NEW f \in Fetches, NEW k \in Fetching, fetch' = [fetch EXCEPT ![f] = k], ServesOK',
         NEW gone, NEW outcome, Cut(gone, outcome),
         outcome \in {"delivered", "fetched"} => \A n \in gone : n \in held[to[n]],
         UNCHANGED <<world, standing, sending>>, known' \subseteq Callers,
         held' \in [Callers -> SUBSET Messages], \A c \in Callers : held[c] \subseteq held'[c],
         k.step = "acked" => Range(k.batch) \subseteq held'[k.by],
         k.step = "asleep" => Pending(k.by) = <<>>
  PROVE  PushInv'
<1>1. TypeOK /\ WorldOK /\ SendsOK /\ ServesOK /\ AcksAreHeld
  BY Parts
<1>2. UNCHANGED <<now, standing, restarts, push, to, expires, offer>>
  BY DEF world, sending
<1>3. fetch'[f] = k /\ \A g \in Fetches \ {f} : fetch'[g] = fetch[g]
  BY <1>1 DEF ServesOK
<1>4. SendsOK' /\ WorldOK'
  BY <1>1, <1>2 DEF SendsOK, WorldOK
<1>5. Unqueued' = Unqueued
  BY <1>2 DEF Unqueued
<1>6. AcksAreHeld'
  <2>1. \A g \in Fetches : fetch[g].by \in Callers
    BY <1>1 DEF TypeOK
  <2>2. \A n \in Messages : to[n] \in Callers
    BY <1>1 DEF TypeOK
  <2>3. ASSUME NEW g \in Fetches, fetch'[g].step = "acked"
        PROVE  Range(fetch'[g].batch) \subseteq held'[fetch'[g].by]
    <3>1. CASE g = f
      BY <1>3, <2>3, <3>1
    <3>2. CASE g # f
      BY <1>1, <1>3, <2>1, <2>3, <3>2 DEF AcksAreHeld
    <3> QED BY <3>1, <3>2
  <2>4. ASSUME NEW n \in Messages, push[n] = "acked" PROVE Range(offer[n]) \subseteq held'[to[n]]
    BY <1>1, <2>2, <2>4 DEF AcksAreHeld
  <2> QED BY <1>2, <2>3, <2>4 DEF AcksAreHeld
<1>7. \A g \in Fetches : Sleeps(g)
  BY <1>2, <1>3 DEF Sleeps
<1>8. now' >= now
  BY <1>1, <1>2 DEF WorldOK
<1> QED BY <1>2, <1>4, <1>5, <1>6, <1>7, <1>8, Carried

\* What a conversation that is closed looks like.
LEMMA ClosedIsClosed ==
  /\ Closed \in Fetching /\ Closed.step = "closed" /\ Closed.batch = <<>>
  /\ \A c \in Callers : [Closed EXCEPT !.by = c, !.step = "undecided"] \in Fetching
<1>1. (CHOOSE c \in Callers : TRUE) \in Callers /\ <<>> \in Seq(Messages)
  BY PushingAssumption, OfNothing
<1> QED BY <1>1 DEF Closed, Fetching, FetchSteps

\* A caller opens an inbox conversation and takes one of the host's permits.
LEMMA BeginFetch ==
  ASSUME PushInv, NEW f \in Fetches, NEW c \in Callers, FetchBegins(f, c)
  PROVE  PushInv'
<1> DEFINE k == [Closed EXCEPT !.by = c, !.step = "undecided"]
<1>1. TypeOK /\ WorldOK /\ ServesOK
  BY Parts
<1>2. /\ fetch[f].step = "closed" /\ permits' = permits + 1
      /\ fetch' = [fetch EXCEPT ![f] = k] /\ KeepQueue
      /\ UNCHANGED <<world, policy, sending, slots, held>>
  BY DEF FetchBegins
<1>3. k \in Fetching /\ k.step = "undecided"
  BY ClosedIsClosed DEF Closed
<1> HIDE DEF k
<1>4. ServesOK'
  <2>1. permits' = permits - Count(f \in Undecided) + Count(k.step = "undecided")
    BY <1>1, <1>2, <1>3 DEF Undecided, Count, ServesOK
  <2>2. slots' \in [Callers -> Int]
    BY <1>1, <1>2 DEF ServesOK
  <2>3. \A d \in Callers : slots'[d] = slots[d] - Count(f \in Polls(d))
                             + Count(k.by = d /\ k.step \notin {"closed", "undecided"})
    BY <1>1, <1>2, <1>3 DEF Polls, Count, ServesOK
  <2> QED BY <1>1, <1>2, <1>3, <2>1, <2>2, <2>3, FetchCounts
<1>5. Cut({}, "expired")
  BY <1>2, CutsNothing
<1>6. /\ known' \subseteq Callers /\ UNCHANGED standing /\ held' \in [Callers -> SUBSET Messages]
      /\ \A d \in Callers : held[d] \subseteq held'[d]
  BY <1>1, <1>2 DEF TypeOK, policy
<1> QED BY <1>2, <1>3, <1>4, <1>5, <1>6, FetchCarries

\* A fetch that is refused leaves the queues, or purges the caller's queue; neither hands a
\* message over.
LEMMA CutsOnRefusal ==
  ASSUME PushInv, NEW c \in Callers, KeepQueue \/ Purge(c)
  PROVE  \E gone, outcome : Cut(gone, outcome) /\ outcome \notin {"delivered", "fetched"}
<1>1. CASE KeepQueue
  <2>1. Cut({}, "expired")
    BY <1>1, CutsNothing
  <2>2. "expired" \notin {"delivered", "fetched"}
    OBVIOUS
  <2> WITNESS {}, "expired"
  <2> QED BY <2>1, <2>2
<1>2. CASE Purge(c)
  <2>1. Cut(Messages \cap Range(queue[c]), "denied")
    BY <1>2, CutsPurged
  <2>2. "denied" \notin {"delivered", "fetched"}
    OBVIOUS
  <2> WITNESS Messages \cap Range(queue[c]), "denied"
  <2> QED BY <2>1, <2>2
<1> QED BY <1>1, <1>2

\* An undecided conversation that is refused gives its permit back.
LEMMA RefuseFetch ==
  ASSUME PushInv, NEW f \in Fetches, FetchRefused(f)
  PROVE  PushInv'
<1> DEFINE c == fetch[f].by
<1>1. TypeOK /\ WorldOK /\ ServesOK /\ c \in Callers
  BY Parts DEF TypeOK
<1>2. /\ fetch[f].step = "undecided" /\ permits' = permits - 1
      /\ fetch' = [fetch EXCEPT ![f] = Closed] /\ (KeepQueue \/ Purge(c))
      /\ UNCHANGED <<world, policy, sending, slots, held>>
  BY DEF FetchRefused
<1>3. Closed \in Fetching /\ Closed.step = "closed"
  BY ClosedIsClosed
<1>4. ServesOK'
  <2>1. permits' = permits - Count(f \in Undecided) + Count(Closed.step = "undecided")
    BY <1>1, <1>2, <1>3 DEF Undecided, Count, ServesOK
  <2>2. slots' \in [Callers -> Int]
    BY <1>1, <1>2 DEF ServesOK
  <2>3. \A d \in Callers : slots'[d] = slots[d] - Count(f \in Polls(d))
                             + Count(Closed.by = d /\ Closed.step \notin {"closed", "undecided"})
    BY <1>1, <1>2, <1>3 DEF Polls, Count, ServesOK
  <2> QED BY <1>1, <1>2, <1>3, <2>1, <2>2, <2>3, FetchCounts
<1>5. PICK gone, outcome : Cut(gone, outcome) /\ outcome \notin {"delivered", "fetched"}
  BY <1>1, <1>2, CutsOnRefusal
<1>6. /\ known' \subseteq Callers /\ UNCHANGED standing /\ held' \in [Callers -> SUBSET Messages]
      /\ \A d \in Callers : held[d] \subseteq held'[d]
  BY <1>1, <1>2 DEF TypeOK, policy
<1> QED BY <1>2, <1>3, <1>4, <1>5, <1>6, FetchCarries

\* serve_fetch admits a caller: a long poll takes a slot, any other ends.
LEMMA DecideFetch ==
  ASSUME PushInv, NEW f \in Fetches, NEW late \in BOOLEAN, FetchDecided(f, late)
  PROVE  PushInv'
<1> DEFINE c == fetch[f].by
           polls == standing[c] = "allowed" /\ HasSlot(c)
           k == IF polls THEN [fetch[f] EXCEPT !.step = "arming", !.late = late] ELSE Closed
<1>1. TypeOK /\ WorldOK /\ ServesOK /\ c \in Callers /\ fetch[f] \in Fetching
  BY Parts DEF TypeOK, ServesOK
<1>2. /\ fetch[f].step = "undecided" /\ permits' = permits - 1
      /\ KeepQueue \/ Purge(c)
      /\ known' = known \cup {c} \/ known' = known
      /\ slots' = IF polls THEN [slots EXCEPT ![c] = slots[c] + 1] ELSE slots
      /\ UNCHANGED <<world, standing, sending, held>>
  BY DEF FetchDecided
<1>3. fetch' = [fetch EXCEPT ![f] = k]
  <2>1. CASE polls
    <3>1. fetch' = [fetch EXCEPT ![f].step = "arming", ![f].late = late]
      BY <2>1 DEF FetchDecided
    <3> QED BY <1>1, <2>1, <3>1 DEF ServesOK
  <2>2. CASE ~ polls
    BY <2>2 DEF FetchDecided
  <2> QED BY <2>1, <2>2
<1>4. /\ k \in Fetching
      /\ polls => k.step = "arming" /\ k.by = c
      /\ ~ polls => k.step = "closed"
  BY <1>1, ClosedIsClosed DEF Fetching, FetchSteps
<1> HIDE DEF k, polls
<1>5. ServesOK'
  <2>1. permits' = permits - Count(f \in Undecided) + Count(k.step = "undecided")
    BY <1>1, <1>2, <1>4 DEF Undecided, Count, ServesOK
  <2>2. slots' \in [Callers -> Int]
    BY <1>1, <1>2 DEF ServesOK
  <2>3. \A d \in Callers : f \notin Polls(d) /\ slots[d] \in Nat
    BY <1>1, <1>2 DEF Polls, ServesOK
  <2>4. \A d \in Callers : slots'[d] = slots[d] - Count(f \in Polls(d))
                             + Count(k.by = d /\ k.step \notin {"closed", "undecided"})
    <3>1. CASE polls
      BY <1>1, <1>2, <1>4, <2>3, <3>1 DEF Count, ServesOK
    <3>2. CASE ~ polls
      BY <1>1, <1>2, <1>4, <2>3, <3>2 DEF Count, ServesOK
    <3> QED BY <3>1, <3>2
  <2> QED BY <1>1, <1>3, <1>4, <2>1, <2>2, <2>4, FetchCounts
<1>6. PICK gone, outcome : Cut(gone, outcome) /\ outcome \notin {"delivered", "fetched"}
  BY <1>1, <1>2, CutsOnRefusal
<1>7. /\ known' \subseteq Callers /\ held' \in [Callers -> SUBSET Messages]
      /\ \A d \in Callers : held[d] \subseteq held'[d]
  BY <1>1, <1>2 DEF TypeOK
<1>8. k.step \notin {"acked", "asleep"}
  BY <1>4
<1> QED BY <1>2, <1>3, <1>4, <1>5, <1>6, <1>7, <1>8, FetchCarries

\* A long poll that arms its notification, looks, wakes or receives.
LEMMA PollCarries ==
  ASSUME PushInv, NEW f \in Fetches, NEW k \in Fetching, fetch' = [fetch EXCEPT ![f] = k],
         fetch[f].step \notin {"closed", "undecided"}, k.step \notin {"closed", "undecided"},
         k.by = fetch[f].by, KeepQueue,
         UNCHANGED <<world, policy, sending, slots, permits>>,
         held' \in [Callers -> SUBSET Messages], \A c \in Callers : held[c] \subseteq held'[c],
         k.step = "acked" => Range(k.batch) \subseteq held'[k.by],
         k.step = "asleep" => Pending(k.by) = <<>>
  PROVE  PushInv'
<1>1. TypeOK /\ ServesOK
  BY Parts
<1>2. ServesOK'
  BY <1>1, FetchGoesOn
<1>3. Cut({}, "expired")
  BY CutsNothing
<1>4. known' \subseteq Callers /\ UNCHANGED standing
  BY <1>1 DEF TypeOK, policy
<1> QED BY <1>2, <1>3, <1>4, FetchCarries

\* A caller stores the batch a fetch offers, then acknowledges it.
LEMMA ReceiveFetch ==
  ASSUME PushInv, NEW f \in Fetches, ReceiveFetched(f)
  PROVE  PushInv'
<1> DEFINE ok == Acceptable(fetch[f].batch)
           k == [fetch[f] EXCEPT !.batch = ok, !.step = "acked"]
<1>1. TypeOK /\ SendsOK /\ ServesOK /\ fetch[f] \in Fetching
      /\ fetch[f].by \in Callers /\ fetch[f].batch \in Seq(Messages)
  BY Parts DEF TypeOK, ServesOK
<1>2. ok \in Seq(Messages) /\ Range(ok) \subseteq Messages
  BY <1>1, WithoutKeeps, RangeOfSeq DEF Acceptable
<1>3. /\ fetch[f].step = "offered"
      /\ held' = [held EXCEPT ![fetch[f].by] = held[fetch[f].by] \cup Range(ok)]
      /\ fetch' = [fetch EXCEPT ![f].batch = ok, ![f].step = "acked"]
      /\ KeepQueue /\ UNCHANGED <<world, policy, sending, slots, permits>>
  BY DEF ReceiveFetched
<1> HIDE DEF ok
<1>4. fetch' = [fetch EXCEPT ![f] = k]
  BY <1>1, <1>3 DEF ServesOK
<1>5. k \in Fetching /\ k.step = "acked" /\ k.by = fetch[f].by /\ k.batch = ok
  BY <1>1, <1>2 DEF Fetching, FetchSteps
<1> HIDE DEF k
<1>6. /\ held' \in [Callers -> SUBSET Messages] /\ \A c \in Callers : held[c] \subseteq held'[c]
      /\ Range(ok) \subseteq held'[fetch[f].by]
  BY <1>1, <1>2, <1>3 DEF SendsOK
<1> QED BY <1>3, <1>4, <1>5, <1>6, PollCarries

\* A poll arms its notification before it looks, and again when it wakes.
LEMMA ArmFetch ==
  ASSUME PushInv, NEW f \in Fetches, Arm(f) \/ Wake(f)
  PROVE  PushInv'
<1>1. TypeOK /\ ServesOK /\ fetch[f] \in Fetching
  BY Parts DEF ServesOK
<1>2. /\ KeepQueue /\ UNCHANGED <<world, policy, sending, slots, permits, held>>
      /\ fetch[f].step \in {"arming", "asleep"}
      /\ \/ fetch' = [fetch EXCEPT ![f].step = "armed", ![f].woken = FALSE]
         \/ fetch' = [fetch EXCEPT ![f].step = "arming"]
         \/ fetch' = [fetch EXCEPT ![f].step = "arming", ![f].late = TRUE]
  BY DEF Arm, Wake
<1>3. PICK k \in Fetching : /\ fetch' = [fetch EXCEPT ![f] = k]
                            /\ k.by = fetch[f].by /\ k.step \in {"armed", "arming"}
  <2>1. CASE fetch' = [fetch EXCEPT ![f].step = "armed", ![f].woken = FALSE]
    <3> DEFINE k == [fetch[f] EXCEPT !.step = "armed", !.woken = FALSE]
    <3>1. k \in Fetching /\ k.by = fetch[f].by /\ k.step = "armed"
      BY <1>1 DEF Fetching, FetchSteps
    <3>2. fetch' = [fetch EXCEPT ![f] = k]
      BY <1>1, <2>1 DEF ServesOK
    <3> HIDE DEF k
    <3> QED BY <3>1, <3>2
  <2>2. CASE fetch' = [fetch EXCEPT ![f].step = "arming"]
    <3> DEFINE k == [fetch[f] EXCEPT !.step = "arming"]
    <3>1. k \in Fetching /\ k.by = fetch[f].by /\ k.step = "arming"
      BY <1>1 DEF Fetching, FetchSteps
    <3>2. fetch' = [fetch EXCEPT ![f] = k]
      BY <1>1, <2>2 DEF ServesOK
    <3> HIDE DEF k
    <3> QED BY <3>1, <3>2
  <2>3. CASE fetch' = [fetch EXCEPT ![f].step = "arming", ![f].late = TRUE]
    <3> DEFINE k == [fetch[f] EXCEPT !.step = "arming", !.late = TRUE]
    <3>1. k \in Fetching /\ k.by = fetch[f].by /\ k.step = "arming"
      BY <1>1 DEF Fetching, FetchSteps
    <3>2. fetch' = [fetch EXCEPT ![f] = k]
      BY <1>1, <2>3 DEF ServesOK
    <3> HIDE DEF k
    <3> QED BY <3>1, <3>2
  <2> QED BY <1>2, <2>1, <2>2, <2>3
<1>4. held' \in [Callers -> SUBSET Messages] /\ \A c \in Callers : held[c] \subseteq held'[c]
  BY <1>1, <1>2 DEF TypeOK
<1> QED BY <1>2, <1>3, <1>4, PollCarries

\* A poll goes to sleep only when it has found nothing, armed.
LEMMA LookFetch ==
  ASSUME PushInv, NEW f \in Fetches, Look(f)
  PROVE  PushInv'
<1> DEFINE b == Pending(fetch[f].by)
<1>1. TypeOK /\ ServesOK /\ fetch[f] \in Fetching /\ fetch[f].by \in Callers
  BY Parts DEF TypeOK, ServesOK
<1>2. b \in Seq(Messages)
  BY <1>1, Parts, PendingIsLive
<1>3. /\ KeepQueue /\ UNCHANGED <<world, policy, sending, slots, permits, held>>
      /\ fetch[f].step = "armed"
      /\ \/ fetch' = [fetch EXCEPT ![f].step = "offered", ![f].batch = b]
         \/ b = <<>> /\ fetch' = [fetch EXCEPT ![f].step = "asleep"]
  BY DEF Look
<1>4. held' \in [Callers -> SUBSET Messages] /\ \A c \in Callers : held[c] \subseteq held'[c]
  BY <1>1, <1>3 DEF TypeOK
<1>5. CASE fetch' = [fetch EXCEPT ![f].step = "offered", ![f].batch = b]
  <2> HIDE DEF b
  <2> DEFINE k == [fetch[f] EXCEPT !.step = "offered", !.batch = b]
  <2>1. k \in Fetching /\ k.by = fetch[f].by /\ k.step = "offered"
    BY <1>1, <1>2 DEF Fetching, FetchSteps
  <2>2. fetch' = [fetch EXCEPT ![f] = k]
    BY <1>1, <1>5 DEF ServesOK
  <2> HIDE DEF k
  <2> QED BY <1>3, <1>4, <2>1, <2>2, PollCarries
<1>6. CASE b = <<>> /\ fetch' = [fetch EXCEPT ![f].step = "asleep"]
  <2> DEFINE k == [fetch[f] EXCEPT !.step = "asleep"]
  <2>1. k \in Fetching /\ k.by = fetch[f].by /\ k.step = "asleep"
    BY <1>1 DEF Fetching, FetchSteps
  <2>2. fetch' = [fetch EXCEPT ![f] = k]
    BY <1>1, <1>6 DEF ServesOK
  <2>3. Pending(k.by) = <<>>
    BY <1>6, <2>1
  <2> HIDE DEF k
  <2> QED BY <1>3, <1>4, <2>1, <2>2, <2>3, PollCarries
<1> QED BY <1>3, <1>5, <1>6

\* The end of a long poll, which frees its slot.
LEMMA ReturnCarries ==
  ASSUME PushInv, NEW f \in Fetches, fetch[f].step \notin {"closed", "undecided"}, Return(f),
         NEW gone, NEW outcome, Cut(gone, outcome),
         outcome \in {"delivered", "fetched"} => \A n \in gone : n \in held[to[n]],
         UNCHANGED <<world, policy, sending, permits, held>>
  PROVE  PushInv'
<1> DEFINE c == fetch[f].by
<1>1. TypeOK /\ WorldOK /\ ServesOK /\ c \in Callers
  BY Parts DEF TypeOK
<1>2. /\ slots' = [slots EXCEPT ![c] = slots[c] - 1]
      /\ fetch' = [fetch EXCEPT ![f] = Closed]
  BY DEF Return
<1>3. Closed \in Fetching /\ Closed.step = "closed"
  BY ClosedIsClosed
<1>4. ServesOK'
  <2>1. permits' = permits - Count(f \in Undecided) + Count(Closed.step = "undecided")
    BY <1>1, <1>3 DEF Undecided, Count, ServesOK
  <2>2. slots' \in [Callers -> Int]
    BY <1>1, <1>2 DEF ServesOK
  <2>3. \A d \in Callers : slots'[d] = slots[d] - Count(f \in Polls(d))
                             + Count(Closed.by = d /\ Closed.step \notin {"closed", "undecided"})
    BY <1>1, <1>2, <1>3 DEF Polls, Count, ServesOK
  <2> QED BY <1>1, <1>2, <1>3, <2>1, <2>2, <2>3, FetchCounts
<1>5. /\ known' \subseteq Callers /\ UNCHANGED standing /\ held' \in [Callers -> SUBSET Messages]
      /\ \A d \in Callers : held[d] \subseteq held'[d]
  BY <1>1 DEF TypeOK, policy
<1> QED BY <1>2, <1>3, <1>4, <1>5, FetchCarries

\* A fetch ends, acknowledged or not, and gives its slot back.
LEMMA EndFetch ==
  ASSUME PushInv, NEW f \in Fetches, FetchFails(f) \/ FetchAcked(f)
  PROVE  PushInv'
<1>1. TypeOK /\ AcksAreHeld /\ fetch[f].by \in Callers
  BY Parts DEF TypeOK
<1>2. /\ Return(f) /\ UNCHANGED <<world, policy, sending, permits, held>>
      /\ fetch[f].step \notin {"closed", "undecided"}
  BY DEF FetchFails, FetchAcked
<1>3. CASE FetchFails(f)
  <2>1. Cut({}, "expired")
    BY <1>3, CutsNothing DEF FetchFails
  <2> QED BY <1>2, <2>1, ReturnCarries
<1>4. CASE FetchAcked(f)
  <2> DEFINE gone == Range(fetch[f].batch) \cap Range(queue[fetch[f].by])
  <2>1. fetch[f].step = "acked" /\ Acknowledged(fetch[f].by, Range(fetch[f].batch), "fetched")
    BY <1>4 DEF FetchAcked
  <2>2. Cut(gone, "fetched")
    BY <1>1, <2>1, CutsAcknowledged
  <2>3. \A n \in gone : n \in held[to[n]]
    BY <1>1, <2>1 DEF AcksAreHeld, PushInv, Kept
  <2> QED BY <1>2, <2>2, <2>3, ReturnCarries
<1> QED BY <1>3, <1>4

\* persisted_queue: what a restart finds in the file was queued by a push sent on.
LEMMA RestartPush ==
  ASSUME PushInv, Restart
  PROVE  PushInv'
<1>1. TypeOK
  BY Parts
<1>2. /\ UNCHANGED <<now, standing, to, expires, held, fate>> /\ restarts' = restarts + 1
      /\ queue' = disk /\ disk' = disk /\ known' = {}
      /\ push' = [m \in Messages |-> IF push[m] = "unsent" THEN "unsent" ELSE "reported"]
      /\ offer' = [m \in Messages |-> <<>>]
      /\ fetch' = [f \in Fetches |-> Closed]
      /\ slots' = [c \in Callers |-> 0] /\ permits' = 0
  BY DEF Restart
<1>3. Closed \in Fetching /\ Closed.step = "closed" /\ <<>> \in Seq(Messages)
  BY ClosedIsClosed, OfNothing
<1>4. "unsent" \in PushSteps /\ "reported" \in PushSteps
  BY DEF PushSteps
<1>5. TypeOK'
  BY <1>1, <1>2, <1>3, <1>4 DEF TypeOK, Fetching
<1>6. Counted'
  <2>1. Undecided' = {} /\ \A c \in Callers : Polls(c)' = {}
    BY <1>2, <1>3 DEF Undecided, Polls
  <2> QED BY <1>2, <2>1, FS_EmptySet DEF Counted
<1>7. Unqueued' \subseteq Unqueued
  BY <1>2 DEF Unqueued
<1>8. Kept(queue)' /\ Kept(disk)'
  BY <1>2, <1>7 DEF PushInv, Kept
<1>9. UnqueuedAreOpen' /\ FileIsTrue'
  BY <1>2, <1>7 DEF PushInv, UnqueuedAreOpen, FileIsTrue
<1>10. AcksAreHeld' /\ NoPollSleepsOnAMessage'
  BY <1>2, <1>3 DEF AcksAreHeld, NoPollSleepsOnAMessage
<1>11. DeliveredIsHeld'
  BY <1>2 DEF PushInv, DeliveredIsHeld
<1> QED BY <1>5, <1>6, <1>8, <1>9, <1>10, <1>11 DEF PushInv

\* Every step of Pushing, and every stuttering step, keeps the invariant.
LEMMA PushStep == PushInv /\ [Next]_vars => PushInv'
<1> SUFFICES ASSUME PushInv, [Next]_vars PROVE PushInv'
  OBVIOUS
<1>1. CASE Sweep \/ Tick \/ \E c \in Callers : PolicyMoves(c) \/ Called(c) \/ IdentityLapses(c)
  BY <1>1, HostSteps
<1>2. ASSUME NEW m \in Messages, NEW c \in Callers, Send(m, c) PROVE PushInv'
  BY <1>2, SendPush
<1>3. ASSUME NEW m \in Messages, Insert(m) PROVE PushInv'
  BY <1>3, InsertPush
<1>4. ASSUME NEW m \in Messages, NotifyWaiters(m) PROVE PushInv'
  BY <1>4, NotifyPush
<1>5. ASSUME NEW m \in Messages, DeliverDirect(m) PROVE PushInv'
  BY <1>5, DeliverPush
<1>6. ASSUME NEW m \in Messages, DirectFails(m) PROVE PushInv'
  BY <1>6, FailPush
<1>7. ASSUME NEW m \in Messages, DirectAcked(m) PROVE PushInv'
  BY <1>7, AckPush
<1>8. ASSUME NEW m \in Messages, ReceiveDirect(m) PROVE PushInv'
  BY <1>8, ReceivePush
<1>9. ASSUME NEW f \in Fetches, ReceiveFetched(f) PROVE PushInv'
  BY <1>9, ReceiveFetch
<1>10. ASSUME NEW f \in Fetches, NEW c \in Callers, FetchBegins(f, c) PROVE PushInv'
  BY <1>10, BeginFetch
<1>11. ASSUME NEW f \in Fetches, FetchRefused(f) PROVE PushInv'
  BY <1>11, RefuseFetch
<1>12. ASSUME NEW f \in Fetches, NEW late \in BOOLEAN, FetchDecided(f, late) PROVE PushInv'
  BY <1>12, DecideFetch
<1>13. ASSUME NEW f \in Fetches, Arm(f) \/ Wake(f) PROVE PushInv'
  BY <1>13, ArmFetch
<1>14. ASSUME NEW f \in Fetches, Look(f) PROVE PushInv'
  BY <1>14, LookFetch
<1>15. ASSUME NEW f \in Fetches, FetchFails(f) \/ FetchAcked(f) PROVE PushInv'
  BY <1>15, EndFetch
<1>16. CASE Restart
  BY <1>16, RestartPush
<1>17. CASE UNCHANGED vars
  <2>1. /\ UNCHANGED <<sending, serving, held>> /\ KeepQueue
        /\ UNCHANGED <<now, restarts, standing, known>>
    BY <1>17 DEF vars, sending, serving, KeepQueue
  <2>2. WorldOK' /\ now' >= now
    BY <2>1, Parts DEF WorldOK
  <2> QED BY <2>1, <2>2, CutsNothing, HostCarries
<1> QED
  BY <1>1, <1>2, <1>3, <1>4, <1>5, <1>6, <1>7, <1>8, <1>9, <1>10, <1>11, <1>12, <1>13, <1>14,
     <1>15, <1>16, <1>17 DEF Next

-----------------------------------------------------------------------------
(* Theorems. *)

\* Every reachable state of a host and the callers it pushes to (push.rs, inbox.rs)
\* satisfies the inductive invariant, whether or not writes of the queue file fail.
THEOREM PushingInvariance == Spec => []PushInv
<1> QED BY InitPush, PushStep, PTL DEF Spec

\* "The notification is armed before each look, so a message queued in between is
\* never missed" (serve_fetch): for any pushes, polls, clocks and restarts, a poll
\* sleeps over a message only while a send is about to tell it.
THEOREM NoPollMissesAMessage == Spec => []NoPollSleepsOnAMessage
<1>1. PushInv => NoPollSleepsOnAMessage
  BY DEF PushInv
<1> QED BY <1>1, PushingInvariance, PTL

\* A message reported delivered or fetched is in its recipient's mailbox, whichever
\* conversation was cut short or came twice, and though the queue file be stale.
THEOREM DeliveredWasStored == Spec => []DeliveredIsHeld
<1>1. PushInv => DeliveredIsHeld
  BY DEF PushInv
<1> QED BY <1>1, PushingInvariance, PTL

\* On a host whose writes of the queue file succeed (with_queue saves, best effort)
\* the queues hold exactly the messages whose fate is open, each once, within the
\* cap, across restarts: "a host restart loses nothing".
THEOREM QueuesStayTrue ==
  ASSUME SavesFail = FALSE
  PROVE  Spec => []QueuesAreTrue
<1>1. PushInv => QueuesAreTrue
  BY DEF PushInv, QueuesAreTrue, FatesAreTrue, FileIsTrue, Kept
<1> QED BY <1>1, PushingInvariance, PTL
=============================================================================
