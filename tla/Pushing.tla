------------------------------ MODULE Pushing ------------------------------
(***************************************************************************)
(* A host pushing to callers: the queue it keeps for each, the direct      *)
(* delivery a push tries first, and the long polls it serves               *)
(* (wires/host/push.rs), with the receiving side of both conversations     *)
(* (wires/caller/inbox.rs) and what decides who may receive                *)
(* (ServicesHost::decide_push and admit_caller, wires/host/gate.rs).       *)
(*                                                                         *)
(* A message is its number.  A caller's mailbox is the set of messages it  *)
(* stored: module Mailbox has its files.  A connection may fail between    *)
(* any two frames.                                                         *)
(***************************************************************************)
EXTENDS Naturals, Sequences, FiniteSets, Functions

CONSTANTS
  Callers,        \* the nodes pushed to
  Messages,       \* bound: the messages ever pushed, 1..n
  Fetches,        \* bound: the fetch conversations open at once
  Standings,      \* what the host's policy may make of a caller: see Standing
  QueueCap,       \* QUEUE_PER_RECIPIENT
  MaxBatch,       \* MAX_BATCH
  MaxPreauth,     \* MAX_PREAUTH_FETCHES
  MaxFetches,     \* MAX_FETCHES_PER_NODE
  Ttls,           \* the times to live a push may ask for
  CallerAhead,    \* how far the callers' clocks are ahead of the host's
  SavesFail,      \* whether a write of the queue file may fail
  MaxEvents       \* bound: ticks of the host's clock and restarts of its `serve`

\* Under the host's policy: admitted and in a role push.allow names; admitted,
\* in none of them; in no role at all; its node banned; its person banned.
Standing == {"allowed", "member", "outsider", "nodeBanned", "personBanned"}

ASSUME PushingAssumption ==
  /\ Callers # {} /\ IsFiniteSet(Fetches)
  /\ Messages \subseteq Nat /\ Standings \subseteq Standing
  /\ QueueCap \in Nat \ {0} /\ MaxBatch \in Nat \ {0}
  /\ MaxPreauth \in Nat /\ MaxFetches \in Nat
  /\ Ttls \subseteq Nat \ {0} /\ CallerAhead \in Nat
  /\ SavesFail \in BOOLEAN /\ MaxEvents \in Nat

VARIABLES
  now,       \* the host's clock
  standing,  \* standing[c]: c's under the policy the host holds
  known,     \* the callers whose verified principal the host remembers
  queue,     \* queue[c]: the messages queued for c, oldest first
  disk,      \* the queue file
  push,      \* push[m]: how far `send` has got with m
  to,        \* to[m]: its recipient
  expires,   \* expires[m]: when it expires
  offer,     \* offer[m]: what m's direct delivery carries, or its ack
  fetch,     \* fetch[f]: a fetch conversation
  slots,     \* slots[c]: long polls c is counted as holding open
  permits,   \* fetches not yet decided that are counted
  held,      \* held[c]: the messages c's mailbox stored
  fate,      \* fate[m]: the last milestone of m (a ghost: the code traces it)
  restarts   \* counts restarts

vars == <<now, standing, known, queue, disk, push, to, expires, offer, fetch,
          slots, permits, held, fate, restarts>>

policy == <<standing, known>>
world == <<now, restarts>>
sending == <<push, to, expires, offer>>
serving == <<fetch, slots, permits>>

\* Steps of `send`: authorized, in the queue, long polls told, the direct
\* delivery's batch sent, its ack on the way back, reported.
PushSteps == {"unsent", "authorized", "inserted", "notified", "offered", "acked",
              "reported"}

\* Steps of serve_fetch: the opening frames; about to arm the notification;
\* armed, about to look; asleep; the batch sent; its ack on the way back.
FetchSteps == {"closed", "undecided", "arming", "armed", "asleep", "offered", "acked"}

Fates == {"none", "queued", "delivered", "fetched", "expired", "dropped", "denied"}

Closed == [by |-> CHOOSE c \in Callers : TRUE, step |-> "closed", woken |-> FALSE,
           late |-> FALSE, batch |-> <<>>]

TypeOK ==
  /\ now \in Nat
  /\ standing \in [Callers -> Standing] /\ known \subseteq Callers
  /\ queue \in [Callers -> Seq(Messages)] /\ disk \in [Callers -> Seq(Messages)]
  /\ push \in [Messages -> PushSteps] /\ to \in [Messages -> Callers]
  /\ expires \in [Messages -> Nat] /\ offer \in [Messages -> Seq(Messages)]
  /\ fetch \in [Fetches -> [by : Callers, step : FetchSteps, woken : BOOLEAN,
                            late : BOOLEAN, batch : Seq(Messages)]]
  /\ slots \in [Callers -> Nat] /\ permits \in Nat
  /\ held \in [Callers -> SUBSET Messages] /\ fate \in [Messages -> Fates]
  /\ restarts \in Nat

Init ==
  /\ now = 0
  /\ standing \in [Callers -> Standings] /\ known = {}
  /\ queue = [c \in Callers |-> <<>>] /\ disk = queue
  /\ push = [m \in Messages |-> "unsent"]
  /\ to = [m \in Messages |-> Closed.by]
  /\ expires = [m \in Messages |-> 0] /\ offer = [m \in Messages |-> <<>>]
  /\ fetch = [f \in Fetches |-> Closed]
  /\ slots = [c \in Callers |-> 0] /\ permits = 0
  /\ held = [c \in Callers |-> {}] /\ fate = [m \in Messages |-> "none"]
  /\ restarts = 0

-----------------------------------------------------------------------------
(* Who may receive. *)

Banned(c) == standing[c] \in {"nodeBanned", "personBanned"}

\* decide_push: a person's ban shows only while the host knows the person, and
\* nobody is in a role otherwise.
Decide(c) ==
  IF standing[c] = "nodeBanned" \/ (c \in known /\ standing[c] = "personBanned")
  THEN "banned"
  ELSE IF c \in known /\ standing[c] = "allowed" THEN "ok" ELSE "refused"

\* A policy the host adopts, or the IdP, changes what c is.
PolicyMoves(c) ==
  /\ standing' \in {[standing EXCEPT ![c] = s] : s \in Standings \ {standing[c]}}
  /\ UNCHANGED <<world, known, queue, disk, sending, serving, held, fate>>

\* admit_caller, on a call: the host remembers whom it admitted.
Called(c) ==
  /\ c \notin known
  /\ standing[c] \in {"allowed", "member"}
  /\ known' = known \cup {c}
  /\ UNCHANGED <<world, standing, queue, disk, sending, serving, held, fate>>

\* Identities::current: a remembered principal is not fresh for ever.
IdentityLapses(c) ==
  /\ c \in known
  /\ known' = known \ {c}
  /\ UNCHANGED <<world, standing, queue, disk, sending, serving, held, fate>>

-----------------------------------------------------------------------------
(* The queue. *)

\* The messages of q, in order, without those of gone.
Without(q, gone) ==
  LET kept[i \in 0 .. Len(q)] ==
        IF i = 0 THEN <<>>
        ELSE IF q[i] \in gone THEN kept[i - 1] ELSE Append(kept[i - 1], q[i])
  IN  kept[Len(q)]

Live(m) == now < expires[m]

\* Queue::pending.
Pending(c) ==
  LET live == Without(queue[c], {m \in Messages : ~Live(m)})
  IN  SubSeq(live, 1, IF Len(live) < MaxBatch THEN Len(live) ELSE MaxBatch)

\* with_queue: change c's queue under the lock, then save it, best effort.
SetQueue(c, q) ==
  /\ queue' = [queue EXCEPT ![c] = q]
  /\ disk' \in {queue'} \cup (IF SavesFail THEN {disk} ELSE {})

\* The milestone of each message of gone that c's queue held.
Record(c, gone, outcome) ==
  fate' = [m \in Messages |-> IF m \in gone \cap Range(queue[c]) THEN outcome ELSE fate[m]]

\* drop_queue: a removed recipient loses what is queued for it.
Purge(c) == SetQueue(c, <<>>) /\ Record(c, Messages, "denied")

\* The messages acknowledged leave the queue.
Acknowledged(c, ids, outcome) ==
  /\ SetQueue(c, Without(queue[c], ids))
  /\ Record(c, ids, outcome)

KeepQueue == UNCHANGED <<queue, disk, fate>>

\* sweep, once a second.
Sweep ==
  LET gone == {m \in Messages : \E c \in Callers : m \in Range(queue[c]) /\ ~Live(m)} IN
  /\ gone # {}
  /\ queue' = [c \in Callers |-> Without(queue[c], gone)]
  /\ disk' \in {queue'} \cup (IF SavesFail THEN {disk} ELSE {})
  /\ fate' = [m \in Messages |-> IF m \in gone THEN "expired" ELSE fate[m]]
  /\ UNCHANGED <<world, policy, sending, serving, held>>

-----------------------------------------------------------------------------
(* Sending: PushHost::send. *)

\* The push is authorized for a recipient it names.
Send(m, c) ==
  /\ push[m] = "unsent"
  /\ \A n \in Messages : n < m => push[n] # "unsent"
  /\ to' = [to EXCEPT ![m] = c]
  /\ expires' \in {[expires EXCEPT ![m] = now + t] : t \in Ttls}
  /\ IF Decide(c) = "ok"
     THEN push' = [push EXCEPT ![m] = "authorized"] /\ fate' = fate
     ELSE push' = [push EXCEPT ![m] = "reported"] /\ fate' = [fate EXCEPT ![m] = "denied"]
  /\ UNCHANGED <<world, policy, queue, disk, offer, serving, held>>

\* Queue::insert: it joins its recipient's queue; past the cap, the oldest goes.
Insert(m) ==
  /\ push[m] = "authorized"
  /\ LET q == Append(queue[to[m]], m) IN
       IF Len(q) > QueueCap
       THEN /\ SetQueue(to[m], Tail(q))
            /\ fate' = [[fate EXCEPT ![m] = "queued"] EXCEPT ![Head(q)] = "dropped"]
       ELSE SetQueue(to[m], q) /\ fate' = [fate EXCEPT ![m] = "queued"]
  /\ push' = [push EXCEPT ![m] = "inserted"]
  /\ UNCHANGED <<world, policy, to, expires, offer, serving, held>>

\* Mutant of NotifyWaiters: the notification is armed only by awaiting it, so a
\* poll that has looked and does not await yet misses it.
NotifyAwaiting(m) ==
  /\ push[m] = "inserted"
  /\ \E deaf \in SUBSET Fetches :
       fetch' = [f \in Fetches |->
         IF fetch[f].step = "asleep" /\ f \notin deaf THEN [fetch[f] EXCEPT !.woken = TRUE]
         ELSE fetch[f]]
  /\ push' = [push EXCEPT ![m] = "notified"]
  /\ UNCHANGED <<world, policy, queue, disk, to, expires, offer, slots, permits, held, fate>>

\* arrived.notify_waiters: every poll whose notification is armed hears it.
NotifyWaiters(m) ==
  /\ push[m] = "inserted"
  /\ fetch' = [f \in Fetches |->
       IF fetch[f].step \in {"armed", "asleep"} THEN [fetch[f] EXCEPT !.woken = TRUE]
       ELSE fetch[f]]
  /\ push' = [push EXCEPT ![m] = "notified"]
  /\ UNCHANGED <<world, policy, queue, disk, to, expires, offer, slots, permits, held, fate>>

\* deliver_direct: asked again, and the recipient dialed with one batch.
DeliverDirect(m) ==
  /\ push[m] = "notified"
  /\ IF Decide(to[m]) = "ok"
     THEN /\ offer' = [offer EXCEPT ![m] = Pending(to[m])]
          /\ push' = [push EXCEPT ![m] = IF Pending(to[m]) = <<>> THEN "reported" ELSE "offered"]
          /\ KeepQueue
     ELSE /\ IF Decide(to[m]) = "banned" THEN Purge(to[m]) ELSE KeepQueue
          /\ push' = [push EXCEPT ![m] = "reported"]
          /\ offer' = offer
  /\ UNCHANGED <<world, policy, to, expires, serving, held>>

\* No answer in time, a refusal, or the connection lost (before or after the
\* receiver stored anything): the message waits for a fetch.
DirectFails(m) ==
  /\ push[m] \in {"notified", "offered", "acked"}
  /\ push' = [push EXCEPT ![m] = "reported"]
  /\ offer' = [offer EXCEPT ![m] = <<>>]
  /\ UNCHANGED <<world, policy, queue, disk, to, expires, serving, held, fate>>

\* The receiver's acknowledgement: those messages leave the queue.
DirectAcked(m) ==
  /\ push[m] = "acked"
  /\ Acknowledged(to[m], Range(offer[m]), "delivered")
  /\ push' = [push EXCEPT ![m] = "reported"]
  /\ offer' = [offer EXCEPT ![m] = <<>>]
  /\ UNCHANGED <<world, policy, to, expires, serving, held>>

-----------------------------------------------------------------------------
(* The receiving side: acceptable and Mailbox::store. *)

Acceptable(batch) == Without(batch, {m \in Messages : now + CallerAhead >= expires[m]})

\* InboxReceiver::serve, while `wires inbox --wait` runs.
ReceiveDirect(m) ==
  /\ push[m] = "offered"
  /\ LET ok == Acceptable(offer[m]) IN
       /\ held' = [held EXCEPT ![to[m]] = @ \cup Range(ok)]
       /\ offer' = [offer EXCEPT ![m] = ok]
  /\ push' = [push EXCEPT ![m] = "acked"]
  /\ KeepQueue
  /\ UNCHANGED <<world, policy, to, expires, serving>>

\* fetch_from.
ReceiveFetched(f) ==
  /\ fetch[f].step = "offered"
  /\ LET ok == Acceptable(fetch[f].batch) IN
       /\ held' = [held EXCEPT ![fetch[f].by] = @ \cup Range(ok)]
       /\ fetch' = [fetch EXCEPT ![f].batch = ok, ![f].step = "acked"]
  /\ KeepQueue
  /\ UNCHANGED <<world, policy, sending, slots, permits>>

-----------------------------------------------------------------------------
(* Serving a fetch: serve_fetch. *)

\* A permit is taken; with none left the peer is told to try again.
FetchBegins(f, c) ==
  /\ fetch[f].step = "closed"
  /\ permits < MaxPreauth
  /\ permits' = permits + 1
  /\ fetch' = [fetch EXCEPT ![f] = [Closed EXCEPT !.by = c, !.step = "undecided"]]
  /\ KeepQueue
  /\ UNCHANGED <<world, policy, sending, slots, held>>

\* The opening frames fail, the token does not verify, or the IdP cannot be
\* reached: an expired token still names a banned person.
FetchRefused(f) ==
  LET c == fetch[f].by IN
  /\ fetch[f].step = "undecided"
  /\ fetch' = [fetch EXCEPT ![f] = Closed]
  /\ permits' = permits - 1
  /\ \/ KeepQueue
     \/ Banned(c) /\ Purge(c)
  /\ UNCHANGED <<world, policy, sending, slots, held>>

\* fetch_slot: one more long poll of c is held open.
HasSlot(c) == slots[c] < MaxFetches

\* admit_caller verifies the token and the policy decides; an admitted caller
\* is remembered, then push.allow decides; then a slot, if c has one left.
FetchDecided(f, late) ==
  LET c == fetch[f].by
      admitted == standing[c] \in {"allowed", "member"}
      polls == standing[c] = "allowed" /\ HasSlot(c)
  IN
  /\ fetch[f].step = "undecided"
  /\ permits' = permits - 1
  /\ known' = IF admitted THEN known \cup {c} ELSE known
  /\ IF Banned(c) THEN Purge(c) ELSE KeepQueue
  /\ slots' = IF polls THEN [slots EXCEPT ![c] = @ + 1] ELSE slots
  /\ fetch' = IF polls THEN [fetch EXCEPT ![f].step = "arming", ![f].late = late]
              ELSE [fetch EXCEPT ![f] = Closed]
  /\ UNCHANGED <<world, standing, sending, held>>

\* arrived.notified().enable(), before each look.
Arm(f) ==
  /\ fetch[f].step = "arming"
  /\ fetch' = [fetch EXCEPT ![f].step = "armed", ![f].woken = FALSE]
  /\ KeepQueue
  /\ UNCHANGED <<world, policy, sending, slots, permits, held>>

\* Something pending, or the wait is over: it is sent.  Else sleep, unless a
\* notification came since it was armed.
Look(f) ==
  LET batch == Pending(fetch[f].by) IN
  /\ fetch[f].step = "armed"
  /\ fetch' = IF batch # <<>> \/ fetch[f].late
              THEN [fetch EXCEPT ![f].step = "offered", ![f].batch = batch]
              ELSE [fetch EXCEPT ![f].step = "asleep"]
  /\ KeepQueue
  /\ UNCHANGED <<world, policy, sending, slots, permits, held>>

\* Told of a message, or the wait is over: look again.
Wake(f) ==
  /\ fetch[f].step = "asleep"
  /\ \/ fetch[f].woken /\ fetch' = [fetch EXCEPT ![f].step = "arming"]
     \/ fetch' = [fetch EXCEPT ![f].step = "arming", ![f].late = TRUE]
  /\ KeepQueue
  /\ UNCHANGED <<world, policy, sending, slots, permits, held>>

\* The slot is freed when serve_fetch returns, however it does.
Return(f) ==
  /\ slots' = [slots EXCEPT ![fetch[f].by] = @ - 1]
  /\ fetch' = [fetch EXCEPT ![f] = Closed]

\* Mutant of FetchFails: an error path keeps the slot.
FetchFailsHolding(f) ==
  /\ fetch[f].step \in {"offered", "acked"}
  /\ fetch' = [fetch EXCEPT ![f] = Closed]
  /\ KeepQueue
  /\ UNCHANGED <<world, policy, sending, slots, permits, held>>

\* The connection is lost, or no ack comes: nothing leaves the queue.
FetchFails(f) ==
  /\ fetch[f].step \in {"offered", "acked"}
  /\ Return(f)
  /\ KeepQueue
  /\ UNCHANGED <<world, policy, sending, permits, held>>

\* Mutant of FetchAcked: what was sent leaves the queue, acknowledged or not.
FetchSent(f) ==
  /\ fetch[f].step = "offered"
  /\ Acknowledged(fetch[f].by, Range(fetch[f].batch), "fetched")
  /\ Return(f)
  /\ UNCHANGED <<world, policy, sending, permits, held>>

FetchAcked(f) ==
  /\ fetch[f].step = "acked"
  /\ Acknowledged(fetch[f].by, Range(fetch[f].batch), "fetched")
  /\ Return(f)
  /\ UNCHANGED <<world, policy, sending, permits, held>>

-----------------------------------------------------------------------------
Tick ==
  /\ now + restarts < MaxEvents
  /\ now' = now + 1
  /\ UNCHANGED <<policy, queue, disk, sending, serving, held, fate, restarts>>

\* The host's `serve` stops, or dies, and starts again: persisted_queue.
Restart ==
  /\ now + restarts < MaxEvents
  /\ restarts' = restarts + 1
  /\ queue' = disk /\ disk' = disk
  /\ known' = {}
  /\ push' = [m \in Messages |-> IF push[m] = "unsent" THEN "unsent" ELSE "reported"]
  /\ offer' = [m \in Messages |-> <<>>]
  /\ fetch' = [f \in Fetches |-> Closed]
  /\ slots' = [c \in Callers |-> 0] /\ permits' = 0
  /\ UNCHANGED <<now, standing, to, expires, held, fate>>

Next ==
  \/ \E c \in Callers : PolicyMoves(c)
  \/ \E c \in Callers : Called(c)
  \/ \E c \in Callers : IdentityLapses(c)
  \/ Sweep
  \/ \E m \in Messages, c \in Callers : Send(m, c)
  \/ \E m \in Messages : Insert(m)
  \/ \E m \in Messages : NotifyWaiters(m)
  \/ \E m \in Messages : DeliverDirect(m)
  \/ \E m \in Messages : DirectFails(m)
  \/ \E m \in Messages : DirectAcked(m)
  \/ \E m \in Messages : ReceiveDirect(m)
  \/ \E f \in Fetches : ReceiveFetched(f)
  \/ \E f \in Fetches, c \in Callers : FetchBegins(f, c)
  \/ \E f \in Fetches : FetchRefused(f)
  \/ \E f \in Fetches, late \in BOOLEAN : FetchDecided(f, late)
  \/ \E f \in Fetches : Arm(f)
  \/ \E f \in Fetches : Look(f)
  \/ \E f \in Fetches : Wake(f)
  \/ \E f \in Fetches : FetchFails(f)
  \/ \E f \in Fetches : FetchAcked(f)
  \/ Tick
  \/ Restart

Spec == Init /\ [][Next]_vars

-----------------------------------------------------------------------------
(* What a host promises. *)

Polls(c) == {f \in Fetches : fetch[f].by = c /\ fetch[f].step \notin {"closed", "undecided"}}

\* "The notification is armed before each look, so a message queued in between
\* is never missed": a poll sleeps over a message for it only while the send
\* that queued one is about to tell the polls.
NoPollSleepsOnAMessage ==
  \A f \in Fetches :
    fetch[f].step = "asleep" /\ ~fetch[f].woken /\ Pending(fetch[f].by) # <<>>
      => \E m \in Messages : push[m] = "inserted" /\ to[m] = fetch[f].by

\* However sends, acks, sweeps, purges and restarts interleave, the queues hold
\* exactly the messages whose fate is open, within the cap ("a host restart loses
\* nothing").  For hosts that can write their queue file.
FatesAreTrue ==
  /\ \A m \in Messages, c \in Callers :
       m \in Range(queue[c]) <=> fate[m] = "queued" /\ to[m] = c
  /\ \A c \in Callers : Len(queue[c]) <= QueueCap /\ IsInjective(queue[c])

\* "Only an acknowledged message leaves the queue" as delivered: its recipient
\* has stored it, whichever conversation was cut short or came twice.
DeliveredIsHeld ==
  \A m \in Messages : fate[m] \in {"delivered", "fetched"} => m \in held[to[m]]

\* What the queues hold and what the fates say is what became of the messages.
QueuesAreTrue == TypeOK /\ FatesAreTrue /\ DeliveredIsHeld

\* The module documentation: the policy is asked "at send, at delivery and at
\* fetch", "a removed (banned) node or person gets nothing".  A long poll is asked
\* when it opens only.
BannedGetsNothing ==
  [][\A f \in Fetches :
       fetch[f].step = "armed" /\ fetch'[f].step = "offered" /\ fetch'[f].batch # <<>>
         => ~Banned(fetch[f].by)]_vars

\* A recipient that fetches again and again, and stays one that may be pushed to,
\* holds all that was queued for it, sooner or later, but what expired, was
\* dropped by newer messages or was purged.
QueuedArrives ==
  \A c \in Callers :
    []<>(standing[c] = "allowed" =>
           \A m \in Messages : to[m] = c /\ fate[m] = "queued" => m \in held[c])

\* `wires inbox --wait` asks again and again and in some try is decided and
\* receives; a poll goes on as straight-line code, its wait and the one for its
\* ack end; the sweep runs every second.
GoesOn(f) ==
  \/ Arm(f) \/ Look(f) \/ Wake(f) \/ FetchAcked(f)
  \/ fetch[f].step = "acked" /\ FetchFails(f)

LiveSpec ==
  /\ Spec
  /\ WF_vars(Sweep)
  /\ \A c \in Callers : SF_vars(\E f \in Fetches : FetchBegins(f, c))
  /\ \A f \in Fetches :
       /\ SF_vars(\E late \in BOOLEAN : FetchDecided(f, late))
       /\ WF_vars(GoesOn(f)) /\ SF_vars(ReceiveFetched(f))
=============================================================================
