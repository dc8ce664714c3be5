------------------------------- MODULE Mailbox -------------------------------
(***************************************************************************)
(* `wires inbox` (wires/caller/inbox.rs): the mailbox directory every      *)
(* wires process of one user shares, the processes that fetch into it,     *)
(* take deliveries into it and print from it.                              *)
(*                                                                         *)
(* A file is made, renamed or removed in one step; between two steps other *)
(* processes run, and a process may be killed.  A message is its id.  What *)
(* the hosts do with the exchange is Pushing's, and the proofs a fetch     *)
(* checks first are Calling's: here one host hands over what it has queued.*)
(***************************************************************************)
EXTENDS Integers, FiniteSets

CONSTANTS
  Messages,  \* numbered in their (at_ms, id) order
  Inboxes,   \* `wires inbox` processes
  Waiting,   \* those of them started with --wait
  MaxUnread, \* MAX_UNREAD
  MaxRead,   \* MAX_READ
  MaxBatch,  \* MAX_BATCH
  Lapsing,   \* bound: the messages that may expire meanwhile
  MaxStarts, \* bound: `wires inbox` started
  MaxKills   \* bound: processes killed

ASSUME MailboxAssumption ==
  /\ Messages \subseteq Int /\ IsFiniteSet(Messages) /\ Waiting \subseteq Inboxes
  /\ MaxUnread \in Nat /\ MaxRead \in Nat /\ MaxBatch \in Nat
  /\ MaxStarts \in Nat /\ MaxKills \in Nat

VARIABLES
  new, read,   \* the files new/<id>.json and read/<id>.json
  notes,       \* notes/: the evicted messages each note waiting counts
  queued,      \* the messages the hosts hold for this node
  expired,     \* the messages past their ttl on this node's clock
  store,       \* what each store under way is doing
  inbox,       \* what each `wires inbox` is doing
  starts,      \* how many were started
  kills,       \* how many were killed
  acked,       \* history: messages acknowledged to their host
  printed,     \* history: how often each message was printed, up to twice
  noted,       \* history: messages a note shown or waiting counts
  dropped,     \* history: messages in the hands of a process that stopped
  pruned,      \* history: messages removed from read/
  raced        \* history: messages written over one held since the look

files == <<new, read, notes>>
world == <<queued, expired, starts, kills>>
history == <<acked, printed, noted, dropped, pruned, raced>>
vars == <<files, world, store, inbox, history>>

\* A store under way: the fetch of each inbox, and the deliveries one with
\* --wait takes.
Stores == {<<"fetch", p>> : p \in Inboxes} \cup {<<"deliver", p>> : p \in Waiting}

IdleStore ==
  [at |-> "idle", todo |-> {}, ids |-> {}, writing |-> {}, full |-> FALSE,
   fresh |-> FALSE, evict |-> {}, out |-> {}]

IdleInbox == [at |-> "idle", todo |-> {}, mine |-> {}, refused |-> FALSE]

Init ==
  /\ new = {} /\ read = {} /\ notes = {}
  /\ queued = Messages /\ expired = {} /\ starts = 0 /\ kills = 0
  /\ store = [s \in Stores |-> IdleStore]
  /\ inbox = [p \in Inboxes |-> IdleInbox]
  /\ acked = {} /\ noted = {} /\ dropped = {} /\ pruned = {} /\ raced = {}
  /\ printed = [m \in Messages |-> 0]

\* The n members of S that come first.
Oldest(S, n) == {m \in S : Cardinality({k \in S : k < m}) < n}

\* evictions: as few of the oldest as leave `cap`.
Evictions(S, cap) == Oldest(S, Cardinality(S) - cap)

At(s, place) == store[s].at = place
InboxAt(p, place) == inbox[p].at = place

-----------------------------------------------------------------------------
(* Mailbox::store, one file at a time. *)

\* acceptable: an expired message is neither stored nor acknowledged.
Acceptable(batch) == batch \ expired

\* Which have expired by now is known here, where it is asked.
Hands(s, batch) ==
  \E late \in SUBSET ((batch \cap Lapsing) \ expired) :
    LET ok == Acceptable(batch) \ late
    IN /\ expired' = expired \cup late
       /\ store' = [store EXCEPT ![s] =
            [IdleStore EXCEPT !.at = "look", !.todo = ok, !.ids = ok,
                              !.full = Cardinality(batch) >= MaxBatch]]

\* holds: one already unread or read is acknowledged and no more.
Look(s) ==
  /\ At(s, "look") /\ store[s].todo # {}
  /\ LET m == Oldest(store[s].todo, 1)
     IN store' = [store EXCEPT ![s].todo = @ \ m,
                               ![s].at = IF m \subseteq new \cup read THEN @ ELSE "write",
                               ![s].writing = m \ (new \cup read)]
  /\ UNCHANGED <<files, world, inbox, history>>

Write(s) ==
  /\ At(s, "write")
  /\ new' = new \cup store[s].writing
  /\ raced' = raced \cup (store[s].writing \cap (new \cup read))
  /\ store' = [store EXCEPT ![s].at = "look", ![s].writing = {}, ![s].fresh = TRUE]
  /\ UNCHANGED <<read, notes, world, inbox, acked, printed, noted, dropped, pruned>>

\* unread_index and evictions, when something was stored.
Index(s) ==
  /\ At(s, "look") /\ store[s].todo = {}
  /\ store' = [store EXCEPT ![s].at = IF store[s].fresh THEN "evict" ELSE "ack",
                            ![s].evict = IF store[s].fresh
                                         THEN Evictions(new, MaxUnread) ELSE {}]
  /\ UNCHANGED <<files, world, inbox, history>>

\* Mutant of Evict: only a file already read is counted.
EvictUncounted(s) ==
  /\ At(s, "evict") /\ store[s].evict # {}
  /\ LET m == Oldest(store[s].evict, 1)
     IN /\ store' = [store EXCEPT ![s].evict = @ \ m, ![s].out = @ \cup (m \cap read)]
        /\ new' = new \ m
        /\ read' = read \cup (m \cap new)
  /\ UNCHANGED <<notes, world, inbox, history>>

\* One a reader takes first is not counted.
Evict(s) ==
  /\ At(s, "evict") /\ store[s].evict # {}
  /\ LET m == Oldest(store[s].evict, 1)
     IN /\ store' = [store EXCEPT ![s].evict = @ \ m, ![s].out = @ \cup (m \cap new)]
        /\ new' = new \ m
        /\ read' = read \cup (m \cap new)
  /\ UNCHANGED <<notes, world, inbox, history>>

Note(s) ==
  /\ At(s, "evict") /\ store[s].evict = {}
  /\ notes' = notes \cup ({store[s].out} \ {{}})
  /\ noted' = noted \cup store[s].out
  /\ store' = [store EXCEPT ![s].at = "ack", ![s].out = {}]
  /\ UNCHANGED <<new, read, world, inbox, acked, printed, dropped, pruned, raced>>

-----------------------------------------------------------------------------
(* What reaches a store: fetch_from and InboxReceiver::serve. *)

\* The round's fetch is over: the reader goes on to what is unread.
Round(p, refused) == [inbox EXCEPT ![p].at = "notes", ![p].refused = refused]

\* fetch_from: the host hands over the oldest of what it holds.
Fetch(p) ==
  /\ InboxAt(p, "ask") /\ At(<<"fetch", p>>, "idle")
  /\ Hands(<<"fetch", p>>, Oldest(queued, MaxBatch))
  /\ UNCHANGED <<files, queued, starts, kills, inbox, history>>

\* No host to ask, one that could not be reached, that showed no proof, that
\* answered out of turn, or that took longer than FETCH_BUDGET.
Unreached(p) ==
  /\ InboxAt(p, "ask") /\ At(<<"fetch", p>>, "idle")
  /\ inbox' = Round(p, FALSE)
  /\ UNCHANGED <<files, world, store, history>>

\* Every host refused this node.
RefusedByAll(p) ==
  /\ InboxAt(p, "ask") /\ At(<<"fetch", p>>, "idle")
  /\ inbox' = Round(p, TRUE)
  /\ UNCHANGED <<files, world, store, history>>

\* InboxReceiver::serve, of a peer the view names a host (another is denied,
\* and nothing changes).
Deliver(p, batch) ==
  /\ p \in Waiting /\ ~ InboxAt(p, "idle") /\ At(<<"deliver", p>>, "idle")
  /\ batch # {} /\ Cardinality(batch) <= MaxBatch
  /\ Hands(<<"deliver", p>>, batch)
  /\ UNCHANGED <<files, queued, starts, kills, inbox, history>>

\* The store is over.  After a full batch a fetch asks for more.
AfterFetch(s) ==
  IF s[1] = "fetch" /\ ~ store[s].full THEN Round(s[2], FALSE) ELSE inbox

Ack(s) ==
  /\ At(s, "ack")
  /\ acked' = acked \cup store[s].ids
  /\ queued' = queued \ store[s].ids
  /\ store' = [store EXCEPT ![s] = IdleStore]
  /\ inbox' = AfterFetch(s)
  /\ UNCHANGED <<files, expired, starts, kills, printed, noted, dropped, pruned, raced>>

\* The stream broke, or the fetch ran out of its budget, with the ack unsent.
AckLost(s) ==
  /\ At(s, "ack")
  /\ store' = [store EXCEPT ![s] = IdleStore]
  /\ inbox' = IF s[1] = "fetch" THEN Round(s[2], FALSE) ELSE inbox
  /\ UNCHANGED <<files, world, history>>

-----------------------------------------------------------------------------
(* The reader: inbox_cmd and read_loop. *)

Start(p) ==
  /\ starts < MaxStarts /\ starts' = starts + 1
  /\ InboxAt(p, "idle") /\ At(<<"fetch", p>>, "idle")
  /\ p \in Waiting => At(<<"deliver", p>>, "idle")
  /\ inbox' = [inbox EXCEPT ![p].at = "ask"]
  /\ UNCHANGED <<files, queued, expired, kills, store, history>>

\* take_notes: each is shown and removed.
TakeNotes(p) ==
  /\ InboxAt(p, "notes")
  /\ notes' = {}
  /\ inbox' = [inbox EXCEPT ![p].at = "load"]
  /\ UNCHANGED <<new, read, world, store, history>>

\* take_unread reads the directory, then renames file by file.
Load(p) ==
  /\ InboxAt(p, "load")
  /\ inbox' = [inbox EXCEPT ![p].at = "take", ![p].todo = new]
  /\ UNCHANGED <<files, world, store, history>>

\* A message another reader (or an eviction) took first is skipped.
Take(p) ==
  /\ InboxAt(p, "take") /\ inbox[p].todo # {}
  /\ LET m == Oldest(inbox[p].todo, 1)
     IN /\ inbox' = [inbox EXCEPT ![p].todo = @ \ m, ![p].mine = @ \cup (m \cap new)]
        /\ new' = new \ m
        /\ read' = read \cup (m \cap new)
  /\ UNCHANGED <<notes, world, store, history>>

\* The newest MAX_READ of the read are kept.
Prune(p) ==
  /\ InboxAt(p, "take") /\ inbox[p].todo = {}
  /\ read' = read \ Evictions(read, MaxRead)
  /\ pruned' = pruned \cup Evictions(read, MaxRead)
  /\ inbox' = [inbox EXCEPT ![p].at = "print"]
  /\ UNCHANGED <<new, notes, world, store, acked, printed, noted, dropped, raced>>

\* The messages are printed.  The command ends with 0 when there were some or
\* it does not wait, refused with none (77) even when it waits, at its
\* deadline (124); or it begins another round.
Show(p) ==
  /\ InboxAt(p, "print")
  /\ printed' = [m \in Messages |-> IF m \in inbox[p].mine /\ printed[m] < 2
                                    THEN printed[m] + 1 ELSE printed[m]]
  /\ \/ inbox' = [inbox EXCEPT ![p] = IdleInbox]
     \/ /\ p \in Waiting /\ inbox[p].mine = {} /\ ~ inbox[p].refused
        /\ inbox' = [inbox EXCEPT ![p] = [IdleInbox EXCEPT !.at = "ask"]]
  /\ UNCHANGED <<files, world, store, acked, noted, dropped, pruned, raced>>

-----------------------------------------------------------------------------
(* The world. *)

\* The command exited with a delivery under way.
Cut(p) ==
  /\ p \in Waiting /\ InboxAt(p, "idle") /\ ~ At(<<"deliver", p>>, "idle")
  /\ store' = [store EXCEPT ![<<"deliver", p>>] = IdleStore]
  /\ dropped' = dropped \cup store[<<"deliver", p>>].out
  /\ UNCHANGED <<files, world, inbox, acked, printed, noted, pruned, raced>>

Kill(p) ==
  /\ kills < MaxKills /\ ~ InboxAt(p, "idle")
  /\ kills' = kills + 1
  /\ store' = [s \in Stores |-> IF s[2] = p THEN IdleStore ELSE store[s]]
  /\ inbox' = [inbox EXCEPT ![p] = IdleInbox]
  /\ dropped' = dropped \cup inbox[p].mine
                        \cup UNION {store[s].out : s \in {t \in Stores : t[2] = p}}
  /\ UNCHANGED <<files, queued, expired, starts, acked, printed, noted, pruned, raced>>

Next ==
  \/ \E p \in Inboxes :
       \/ Start(p) \/ Fetch(p) \/ Unreached(p) \/ RefusedByAll(p)
       \/ TakeNotes(p) \/ Load(p) \/ Take(p) \/ Prune(p) \/ Show(p)
       \/ Cut(p) \/ Kill(p)
       \/ \E batch \in SUBSET queued : Deliver(p, batch)
  \/ \E s \in Stores :
       \/ Look(s) \/ Write(s) \/ Index(s) \/ Evict(s) \/ Note(s)
       \/ Ack(s) \/ AckLost(s)

Spec == Init /\ [][Next]_vars

-----------------------------------------------------------------------------
TypeOK ==
  /\ new \subseteq Messages /\ read \subseteq Messages
  /\ notes \subseteq SUBSET Messages
  /\ queued \subseteq Messages /\ expired \subseteq Messages
  /\ starts \in 0 .. MaxStarts
  /\ kills \in 0 .. MaxKills
  /\ \A s \in Stores :
       /\ store[s].at \in {"idle", "look", "write", "evict", "ack"}
       /\ {store[s].todo, store[s].ids, store[s].writing, store[s].evict, store[s].out}
            \subseteq SUBSET Messages
  /\ \A p \in Inboxes :
       /\ inbox[p].at \in {"idle", "ask", "notes", "load", "take", "print"}
       /\ inbox[p].todo \subseteq Messages /\ inbox[p].mine \subseteq Messages
  /\ printed \in [Messages -> 0 .. 2]

\* What a host was told it may forget is never lost here: it is unread, in a
\* reader's hands, printed, counted by a note or about to be, or was in the
\* hands of a process that stopped.  (Mailbox::store and take_unread: the ack
\* goes out only after the write, and an eviction is a rename that is counted.)
AckedIsTold ==
  \A m \in acked :
    \/ m \in new \cup noted \cup dropped
    \/ printed[m] > 0
    \/ \E p \in Inboxes : m \in inbox[p].mine
    \/ \E s \in Stores : m \in store[s].out

\* A message is printed twice only when it was forgotten (past MAX_READ) or
\* when two stores that both looked before either wrote put it back: renames
\* alone keep readers apart.
OnlyARacePrintsTwice ==
  \A m \in Messages : printed[m] = 2 => m \in pruned \cup raced

\* Of what this node took from the hosts, nothing is lost and nothing told twice.
ToldOnce == TypeOK /\ AckedIsTold /\ OnlyARacePrintsTwice
=============================================================================
