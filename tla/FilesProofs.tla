----------------------------- MODULE FilesProofs -----------------------------
(***************************************************************************)
(* Theorems about the commands that read and write a home's files, for any *)
(* messages, processes, logins, edits and bounds: the inbox (Mailbox), the *)
(* keystore (Keystores), a sign-in (SignIn) and the policy that admins     *)
(* edit (PolicyEdits), each by an invariant of its own, as the parts of    *)
(* MCFiles share no state.                                                 *)
(*                                                                         *)
(* MailboxInv follows a message: where one that left the host is, or was   *)
(* told of, and that until it is forgotten it is unread, or one reader's.  *)
(* KeystoreInv says what a command that is under way has found or made.    *)
(* SignInInv says of a login in the middle of its save what is at the      *)
(* names that it writes, which holds only while nobody raced it.           *)
(* EditsInv says that a command that has signed did it over a policy that  *)
(* was stored, and that a policy no newer than the stored one is it.       *)
(***************************************************************************)
EXTENDS MCFiles, FiniteSetTheorems, SequenceTheorems, TLAPS

-----------------------------------------------------------------------------
(* The inbox (Mailbox). *)

StoreRecord ==
  [at : {"idle", "look", "write", "evict", "ack"}, todo : SUBSET Messages,
   ids : SUBSET Messages, writing : SUBSET Messages, full : BOOLEAN, fresh : BOOLEAN,
   evict : SUBSET Messages, out : SUBSET Messages]

InboxRecord ==
  [at : {"idle", "ask", "notes", "load", "take", "print"}, todo : SUBSET Messages,
   mine : SUBSET Messages, refused : BOOLEAN]

MailboxTypes ==
  /\ new \subseteq Messages /\ read \subseteq Messages /\ acked \subseteq Messages
  /\ notes \subseteq SUBSET Messages
  /\ queued \subseteq Messages /\ expired \subseteq Messages
  /\ starts \in 0 .. MaxStarts /\ kills \in 0 .. MaxKills
  /\ store \in [Stores -> StoreRecord] /\ inbox \in [Inboxes -> InboxRecord]
  /\ printed \in [Messages -> 0 .. 2]

\* Where a message taken from a host is, or was told of.
Accounted(m) ==
  \/ m \in new \cup noted \cup dropped
  \/ printed[m] > 0
  \/ \E p \in Inboxes : m \in inbox[p].mine
  \/ \E s \in Stores : m \in store[s].out

\* A store holds messages to be noted only while it evicts, and what it has looked at
\* and written is accounted for.
StoreStands(s) ==
  /\ store[s].at # "evict" => store[s].out = {}
  /\ store[s].at # "write" => store[s].writing = {}
  /\ store[s].at \in {"evict", "ack"} => store[s].todo = {}
  /\ \A m \in store[s].ids \ (store[s].todo \cup store[s].writing) : Accounted(m)

\* What a message is that was neither forgotten nor written over: unread, or read by
\* one reader who has it or printed it, or evicted.
ReadOnce(m) ==
  /\ m \in new => m \notin read /\ printed[m] = 0
  /\ \A p \in Inboxes : m \in inbox[p].mine => m \in read /\ m \notin new /\ printed[m] = 0
  /\ \A p, q \in Inboxes : m \in inbox[p].mine /\ m \in inbox[q].mine => p = q
  /\ printed[m] # 2 /\ (printed[m] > 0 => m \in read)

MailboxInv ==
  /\ MailboxTypes
  /\ \A m \in acked \cup read : Accounted(m)
  /\ \A s \in Stores : StoreStands(s)
  /\ \A m \in Messages \ (pruned \cup raced) : ReadOnce(m)

\* The oldest of some messages are some of them.
LEMMA OldestAreOfThem == \A ms, n : Oldest(ms, n) \subseteq ms
  BY DEF Oldest

\* What is evicted to keep a directory small was in it.
LEMMA EvictionsAreOfThem == \A ms, n : Evictions(ms, n) \subseteq ms
  BY OldestAreOfThem DEF Evictions

\* A step of one store: what it has looked at and written stays accounted for.
LEMMA StoreCarries ==
  ASSUME MailboxInv, NEW s \in Stores, NEW k \in StoreRecord, store' = [store EXCEPT ![s] = k],
         UNCHANGED <<new, read, printed, pruned, raced>>,
         MailboxTypes', \A p \in Inboxes : inbox'[p].mine = inbox[p].mine,
         noted \cup (store[s].out \ k.out) \subseteq noted', UNCHANGED dropped,
         \A m \in acked' \ acked : Accounted(m),
         k.at # "evict" => k.out = {}, k.at # "write" => k.writing = {},
         k.at \in {"evict", "ack"} => k.todo = {},
         \A m \in k.ids \ (k.todo \cup k.writing) : Accounted(m)
  PROVE  MailboxInv'
<1>1. store'[s] = k /\ \A t \in Stores \ {s} : store'[t] = store[t]
  BY DEF MailboxInv, MailboxTypes
<1>2. ASSUME NEW m, Accounted(m) PROVE Accounted(m)'
  BY <1>1, <1>2 DEF Accounted
<1>3. \A m \in acked' \cup read' : Accounted(m)'
  BY <1>2 DEF MailboxInv
<1>4. \A t \in Stores : StoreStands(t)'
  BY <1>1, <1>2 DEF MailboxInv, StoreStands
<1>5. \A m \in Messages \ (pruned' \cup raced') : ReadOnce(m)'
  BY DEF MailboxInv, ReadOnce
<1> QED BY <1>3, <1>4, <1>5 DEF MailboxInv

\* A step of one inbox that takes and prints nothing.
LEMMA InboxCarries ==
  ASSUME MailboxInv, MailboxTypes', \A p \in Inboxes : inbox'[p].mine = inbox[p].mine,
         UNCHANGED <<new, read, store, printed, pruned, raced, noted, dropped, acked>>
  PROVE  MailboxInv'
<1>1. ASSUME NEW m, Accounted(m) PROVE Accounted(m)'
  BY <1>1 DEF Accounted
<1>2. \A m \in acked' \cup read' : Accounted(m)'
  BY <1>1 DEF MailboxInv
<1>3. \A t \in Stores : StoreStands(t)'
  BY <1>1 DEF MailboxInv, StoreStands
<1>4. \A m \in Messages \ (pruned' \cup raced') : ReadOnce(m)'
  BY DEF MailboxInv, ReadOnce
<1> QED BY <1>2, <1>3, <1>4 DEF MailboxInv

\* A store finds a message already there, or is to write it.
LEMMA LookStep ==
  ASSUME MailboxInv, NEW s \in Stores, Look(s)
  PROVE  MailboxInv'
<1> DEFINE m == Oldest(store[s].todo, 1)
           k == [store[s] EXCEPT !.todo = store[s].todo \ m,
                                 !.at = IF m \subseteq new \cup read THEN store[s].at ELSE "write",
                                 !.writing = m \ (new \cup read)]
<1>1. MailboxTypes /\ store[s] \in StoreRecord /\ StoreStands(s)
  BY DEF MailboxInv, MailboxTypes
<1>2. store[s].at = "look" /\ UNCHANGED <<files, world, inbox, history>>
      /\ store' = [store EXCEPT ![s] = k]
  <2>1. store' = [store EXCEPT ![s].todo = store[s].todo \ m,
                               ![s].at = IF m \subseteq new \cup read THEN store[s].at ELSE "write",
                               ![s].writing = m \ (new \cup read)]
    BY <1>1 DEF Look, MailboxTypes
  <2> QED BY <1>1, <2>1 DEF Look, At, MailboxTypes
<1>3. m \subseteq store[s].todo
  BY OldestAreOfThem
<1> HIDE DEF m
<1>4. /\ k \in StoreRecord /\ k.out = store[s].out /\ k.ids = store[s].ids
      /\ k.todo = store[s].todo \ m /\ k.writing = m \ (new \cup read)
      /\ k.at = (IF m \subseteq new \cup read THEN "look" ELSE "write")
  BY <1>1, <1>2, <1>3 DEF StoreRecord
<1> HIDE DEF k
<1>5. MailboxTypes'
  BY <1>1, <1>2, <1>4 DEF MailboxTypes, files, world, history
<1>6. \A x \in k.ids \ (k.todo \cup k.writing) : Accounted(x)
  <2>1. \A x \in new \cup read : Accounted(x)
    BY DEF MailboxInv, Accounted
  <2> QED BY <1>1, <1>2, <1>4, <2>1 DEF StoreStands
<1> QED
  BY <1>1, <1>2, <1>4, <1>5, <1>6, StoreCarries DEF files, history, StoreStands

\* A message is written: it is unread, and one read in between is written over.
LEMMA WriteStep ==
  ASSUME MailboxInv, NEW s \in Stores, Write(s)
  PROVE  MailboxInv'
<1> DEFINE k == [store[s] EXCEPT !.at = "look", !.writing = {}, !.fresh = TRUE]
<1>1. MailboxTypes /\ store[s] \in StoreRecord /\ StoreStands(s)
  BY DEF MailboxInv, MailboxTypes
<1>2. /\ store[s].at = "write" /\ new' = new \cup store[s].writing
      /\ raced' = raced \cup (store[s].writing \cap (new \cup read))
      /\ store' = [store EXCEPT ![s] = k]
      /\ UNCHANGED <<read, notes, queued, expired, starts, kills, inbox, acked, printed, noted,
                     dropped, pruned>>
  <2>1. store' = [store EXCEPT ![s].at = "look", ![s].writing = {}, ![s].fresh = TRUE]
    BY DEF Write
  <2> QED BY <1>1, <2>1 DEF Write, At, world, MailboxTypes
<1>3. /\ k \in StoreRecord /\ k.out = store[s].out /\ k.ids = store[s].ids
      /\ k.todo = store[s].todo /\ k.writing = {} /\ k.at = "look"
  BY <1>1 DEF StoreRecord
<1> HIDE DEF k
<1>4. MailboxTypes'
  <2>1. store[s].writing \subseteq Messages
    BY <1>1 DEF StoreRecord
  <2> QED BY <1>1, <1>2, <1>3, <2>1 DEF MailboxTypes
<1>5. store'[s] = k /\ \A t \in Stores \ {s} : store'[t] = store[t]
  BY <1>1, <1>2 DEF MailboxTypes
<1>6. ASSUME NEW m, Accounted(m) \/ m \in store[s].writing PROVE Accounted(m)'
  BY <1>2, <1>3, <1>5, <1>6 DEF Accounted
<1>7. \A m \in acked' \cup read' : Accounted(m)'
  BY <1>2, <1>6 DEF MailboxInv
<1>8. \A t \in Stores : StoreStands(t)'
  BY <1>2, <1>3, <1>5, <1>6 DEF MailboxInv, StoreStands
<1>9. ASSUME NEW m \in Messages \ (pruned' \cup raced') PROVE ReadOnce(m)'
  <2>1. ReadOnce(m) /\ (m \in store[s].writing => m \notin new \cup read)
    BY <1>2 DEF MailboxInv
  <2>2. printed[m] \in 0 .. 2
    BY <1>1 DEF MailboxTypes
  <2> QED BY <1>2, <2>1, <2>2 DEF ReadOnce
<1> QED BY <1>4, <1>7, <1>8, <1>9 DEF MailboxInv

\* A store that wrote something has the oldest beyond max_unread to evict.
LEMMA IndexStep ==
  ASSUME MailboxInv, NEW s \in Stores, Index(s)
  PROVE  MailboxInv'
<1> DEFINE ev == IF store[s].fresh THEN Evictions(new, MaxUnread) ELSE {}
           k == [store[s] EXCEPT !.at = IF store[s].fresh THEN "evict" ELSE "ack", !.evict = ev]
<1>1. MailboxTypes /\ store[s] \in StoreRecord /\ StoreStands(s)
  BY DEF MailboxInv, MailboxTypes
<1>2. /\ store[s].at = "look" /\ store[s].todo = {} /\ UNCHANGED <<files, world, inbox, history>>
      /\ store' = [store EXCEPT ![s] = k]
  <2>1. store' = [store EXCEPT ![s].at = IF store[s].fresh THEN "evict" ELSE "ack",
                               ![s].evict = ev]
    BY DEF Index
  <2> QED BY <1>1, <2>1 DEF Index, At, MailboxTypes
<1>3. ev \subseteq Messages
  BY <1>1, EvictionsAreOfThem DEF MailboxTypes
<1> HIDE DEF ev
<1>4. /\ k \in StoreRecord /\ k.out = store[s].out /\ k.ids = store[s].ids
      /\ k.todo = store[s].todo /\ k.writing = store[s].writing /\ k.at # "write"
  BY <1>1, <1>3 DEF StoreRecord
<1> HIDE DEF k
<1>5. MailboxTypes'
  BY <1>1, <1>2, <1>4 DEF MailboxTypes, files, world, history
<1>6. k.out = {} /\ k.writing = {} /\ k.todo = {}
      /\ \A x \in k.ids \ (k.todo \cup k.writing) : Accounted(x)
  BY <1>1, <1>2, <1>4 DEF StoreStands
<1> QED
  BY <1>1, <1>2, <1>4, <1>5, <1>6, StoreCarries DEF files, history

\* An evicted message is removed by the store that found it there, which is to note it.
LEMMA EvictStep ==
  ASSUME MailboxInv, NEW s \in Stores, Evict(s)
  PROVE  MailboxInv'
<1> DEFINE m == Oldest(store[s].evict, 1)
           k == [store[s] EXCEPT !.evict = store[s].evict \ m,
                                 !.out = store[s].out \cup (m \cap new)]
<1>1. MailboxTypes /\ store[s] \in StoreRecord /\ StoreStands(s)
  BY DEF MailboxInv, MailboxTypes
<1>2. m \subseteq store[s].evict
  BY OldestAreOfThem
<1>3. /\ store[s].at = "evict" /\ new' = new \ m /\ read' = read \cup (m \cap new)
      /\ store' = [store EXCEPT ![s] = k]
      /\ UNCHANGED <<notes, world, inbox, history>>
  <2>1. store' = [store EXCEPT ![s].evict = store[s].evict \ m,
                               ![s].out = store[s].out \cup (m \cap new)]
    BY DEF Evict
  <2> QED BY <1>1, <2>1 DEF Evict, At, MailboxTypes
<1> HIDE DEF m
<1>4. /\ k \in StoreRecord /\ k.out = store[s].out \cup (m \cap new) /\ k.ids = store[s].ids
      /\ k.todo = store[s].todo /\ k.writing = store[s].writing /\ k.at = "evict"
  BY <1>1, <1>2, <1>3 DEF StoreRecord, MailboxTypes
<1> HIDE DEF k
<1>5. MailboxTypes'
  BY <1>1, <1>3, <1>4 DEF MailboxTypes, world, history
<1>6. store'[s] = k /\ \A t \in Stores \ {s} : store'[t] = store[t]
  BY <1>1, <1>3 DEF MailboxTypes
<1>7. ASSUME NEW x, Accounted(x) PROVE Accounted(x)'
  <2>1. UNCHANGED <<noted, dropped, printed, inbox>>
    BY <1>3 DEF history
  <2> QED BY <1>3, <1>4, <1>6, <1>7, <2>1 DEF Accounted
<1>8. \A x \in acked' \cup read' : Accounted(x)'
  <2>1. \A x \in m \cap new : Accounted(x)
    BY DEF Accounted
  <2> QED BY <1>3, <1>7, <2>1 DEF MailboxInv, history
<1>9. \A t \in Stores : StoreStands(t)'
  BY <1>1, <1>3, <1>4, <1>6, <1>7 DEF MailboxInv, StoreStands
<1>10. ASSUME NEW x \in Messages \ (pruned' \cup raced') PROVE ReadOnce(x)'
  <2>1. ReadOnce(x)
    BY <1>3 DEF MailboxInv, history
  <2> QED BY <1>3, <2>1 DEF ReadOnce, history
<1> QED BY <1>5, <1>8, <1>9, <1>10 DEF MailboxInv

\* The note of what was evicted is written before anything is acknowledged.
LEMMA NoteStep ==
  ASSUME MailboxInv, NEW s \in Stores, Note(s)
  PROVE  MailboxInv'
<1> DEFINE k == [store[s] EXCEPT !.at = "ack", !.out = {}]
<1>1. MailboxTypes /\ store[s] \in StoreRecord /\ StoreStands(s)
  BY DEF MailboxInv, MailboxTypes
<1>2. /\ store[s].at = "evict" /\ notes' = notes \cup ({store[s].out} \ {{}})
      /\ noted' = noted \cup store[s].out /\ store' = [store EXCEPT ![s] = k]
      /\ UNCHANGED <<new, read, world, inbox, acked, printed, dropped, pruned, raced>>
  <2>1. store' = [store EXCEPT ![s].at = "ack", ![s].out = {}]
    BY DEF Note
  <2> QED BY <1>1, <2>1 DEF Note, At, MailboxTypes
<1>3. /\ k \in StoreRecord /\ k.out = {} /\ k.ids = store[s].ids
      /\ k.todo = store[s].todo /\ k.writing = store[s].writing /\ k.at = "ack"
  BY <1>1 DEF StoreRecord
<1> HIDE DEF k
<1>4. MailboxTypes'
  <2>1. store[s].out \subseteq Messages
    BY <1>1 DEF StoreRecord
  <2> QED BY <1>1, <1>2, <1>3, <2>1 DEF MailboxTypes, world
<1>5. /\ k.writing = {} /\ k.todo = {}
      /\ \A x \in k.ids \ (k.todo \cup k.writing) : Accounted(x)
  BY <1>1, <1>2, <1>3 DEF StoreStands
<1> QED
  BY <1>1, <1>2, <1>3, <1>4, <1>5, StoreCarries

\* The store ends, or begins with what it was handed.
LEMMA IdleStoreIsEmpty ==
  /\ IdleStore \in StoreRecord /\ IdleStore.at = "idle" /\ IdleStore.out = {}
  /\ IdleStore.ids = {} /\ IdleStore.todo = {} /\ IdleStore.writing = {}
  BY DEF IdleStore, StoreRecord

\* The round is over for one inbox.
LEMMA RoundKeeps ==
  ASSUME MailboxTypes, NEW p \in Inboxes, NEW b \in BOOLEAN
  PROVE  /\ Round(p, b) \in [Inboxes -> InboxRecord]
         /\ \A q \in Inboxes : Round(p, b)[q].mine = inbox[q].mine
<1> DEFINE k == [inbox[p] EXCEPT !.at = "notes", !.refused = b]
<1>1. inbox[p] \in InboxRecord /\ Round(p, b) = [inbox EXCEPT ![p] = k]
  BY DEF Round, MailboxTypes
<1>2. k \in InboxRecord /\ k.mine = inbox[p].mine
  BY <1>1 DEF InboxRecord
<1> HIDE DEF k
<1> QED BY <1>1, <1>2 DEF MailboxTypes

\* The fetches are of inboxes.
LEMMA StoresAreInboxes ==
  ASSUME NEW s \in Stores
  PROVE  s[2] \in Inboxes
  BY MailboxAssumption DEF Stores

\* What is acknowledged is accounted for, whether or not the host hears of it.
LEMMA AckStep ==
  ASSUME MailboxInv, NEW s \in Stores, Ack(s) \/ AckLost(s)
  PROVE  MailboxInv'
<1>1. MailboxTypes /\ store[s] \in StoreRecord /\ StoreStands(s)
  BY DEF MailboxInv, MailboxTypes
<1>2. /\ store[s].at = "ack" /\ store' = [store EXCEPT ![s] = IdleStore]
      /\ acked' \subseteq acked \cup store[s].ids /\ queued' \subseteq queued
      /\ UNCHANGED <<files, expired, starts, kills, printed, noted, dropped, pruned, raced>>
  BY DEF Ack, AckLost, At, world, history
<1>3. inbox' \in [Inboxes -> InboxRecord] /\ \A q \in Inboxes : inbox'[q].mine = inbox[q].mine
  <2>1. inbox' = inbox \/ inbox' = Round(s[2], FALSE)
    BY DEF Ack, AckLost, AfterFetch
  <2>2. s[2] \in Inboxes /\ FALSE \in BOOLEAN
    BY StoresAreInboxes
  <2>3. /\ Round(s[2], FALSE) \in [Inboxes -> InboxRecord]
        /\ \A q \in Inboxes : Round(s[2], FALSE)[q].mine = inbox[q].mine
    BY <1>1, <2>2, RoundKeeps
  <2> QED BY <1>1, <2>1, <2>3 DEF MailboxTypes
<1>4. MailboxTypes'
  <2>1. store[s].ids \subseteq Messages
    BY <1>1 DEF StoreRecord
  <2> QED BY <1>1, <1>2, <1>3, <2>1, IdleStoreIsEmpty DEF MailboxTypes, files
<1>5. store[s].out = {} /\ \A m \in store[s].ids : Accounted(m)
  BY <1>1, <1>2 DEF StoreStands
<1>6. UNCHANGED <<new, read, printed, pruned, raced, noted, dropped>>
  BY <1>2 DEF files
<1> QED BY <1>2, <1>3, <1>4, <1>5, <1>6, IdleStoreIsEmpty, StoreCarries

\* A store is handed a batch.
LEMMA HandsStep ==
  ASSUME MailboxInv, NEW s \in Stores, NEW batch \in SUBSET queued, Hands(s, batch), At(s, "idle"),
         UNCHANGED <<files, queued, starts, kills, inbox, history>>
  PROVE  MailboxInv'
<1>1. MailboxTypes /\ store[s] \in StoreRecord /\ StoreStands(s)
  BY DEF MailboxInv, MailboxTypes
<1>2. PICK late \in SUBSET ((batch \cap Lapsing) \ expired) :
        /\ expired' = expired \cup late
        /\ store' = [store EXCEPT ![s] =
             [IdleStore EXCEPT !.at = "look", !.todo = Acceptable(batch) \ late,
                               !.ids = Acceptable(batch) \ late,
                               !.full = Cardinality(batch) >= MaxBatch]]
  BY DEF Hands
<1> DEFINE ok == Acceptable(batch) \ late
           full == Cardinality(batch) >= MaxBatch
           k == [IdleStore EXCEPT !.at = "look", !.todo = ok, !.ids = ok, !.full = full]
<1>3. ok \subseteq Messages /\ late \subseteq Messages /\ full \in BOOLEAN
  <2>1. batch \subseteq Messages
    BY <1>1 DEF MailboxTypes
  <2>2. Cardinality(batch) \in Nat
    BY <2>1, MailboxAssumption, FS_Subset, FS_CardinalityType
  <2>3. full \in BOOLEAN
    BY <2>2, MailboxAssumption
  <2>4. ok \subseteq Messages /\ late \subseteq Messages
    BY <2>1 DEF Acceptable
  <2> QED BY <2>3, <2>4
<1>4. store' = [store EXCEPT ![s] = k]
  BY <1>2
<1> HIDE DEF ok, full
<1>5. /\ k \in StoreRecord /\ k.out = {} /\ k.ids = ok
      /\ k.todo = ok /\ k.writing = {} /\ k.at = "look"
  BY <1>3 DEF StoreRecord, IdleStore
<1> HIDE DEF k
<1>6. MailboxTypes'
  BY <1>1, <1>2, <1>3, <1>4, <1>5 DEF MailboxTypes, files, history
<1>7. store[s].out = {}
  BY <1>1 DEF StoreStands, At
<1>8. /\ UNCHANGED <<new, read, printed, pruned, raced, dropped, acked, noted>>
      /\ \A q \in Inboxes : inbox'[q].mine = inbox[q].mine
  BY DEF files, history
<1> QED BY <1>4, <1>5, <1>6, <1>7, <1>8, StoreCarries

\* Starting, a fetch that reaches nobody, taking notes and listing what is unread.
LEMMA ReaderSteps ==
  ASSUME MailboxInv, NEW p \in Inboxes,
         Start(p) \/ Unreached(p) \/ RefusedByAll(p) \/ TakeNotes(p) \/ Load(p)
  PROVE  MailboxInv'
<1>1. MailboxTypes /\ inbox[p] \in InboxRecord
  BY DEF MailboxInv, MailboxTypes
<1>2. /\ UNCHANGED <<new, read, queued, expired, kills, store, history>>
      /\ notes' \subseteq notes /\ starts' \in 0 .. MaxStarts
  <2>1. CASE Start(p)
    <3>1. starts < MaxStarts /\ starts' = starts + 1 /\ starts \in 0 .. MaxStarts
      BY <1>1, <2>1 DEF Start, MailboxTypes
    <3>2. starts' \in 0 .. MaxStarts
      BY <3>1, MailboxAssumption
    <3> QED BY <2>1, <3>2 DEF Start, files
  <2>2. CASE Unreached(p) \/ RefusedByAll(p) \/ TakeNotes(p) \/ Load(p)
    BY <1>1, <2>2 DEF Unreached, RefusedByAll, TakeNotes, Load, files, world, MailboxTypes
  <2> QED BY <2>1, <2>2
<1>3. inbox' \in [Inboxes -> InboxRecord] /\ \A q \in Inboxes : inbox'[q].mine = inbox[q].mine
  <2>1. TRUE \in BOOLEAN /\ FALSE \in BOOLEAN
    OBVIOUS
  <2>2. CASE Unreached(p) \/ RefusedByAll(p)
    <3>1. inbox' = Round(p, TRUE) \/ inbox' = Round(p, FALSE)
      BY <2>2 DEF Unreached, RefusedByAll
    <3>2. /\ Round(p, TRUE) \in [Inboxes -> InboxRecord]
          /\ \A q \in Inboxes : Round(p, TRUE)[q].mine = inbox[q].mine
      BY <1>1, <2>1, RoundKeeps
    <3>3. /\ Round(p, FALSE) \in [Inboxes -> InboxRecord]
          /\ \A q \in Inboxes : Round(p, FALSE)[q].mine = inbox[q].mine
      BY <1>1, <2>1, RoundKeeps
    <3> QED BY <3>1, <3>2, <3>3
  <2>3. CASE Start(p)
    BY <1>1, <2>3 DEF Start, MailboxTypes, InboxRecord
  <2>4. CASE TakeNotes(p)
    BY <1>1, <2>4 DEF TakeNotes, MailboxTypes, InboxRecord
  <2>5. CASE Load(p)
    <3> DEFINE k == [inbox[p] EXCEPT !.at = "take", !.todo = new]
    <3>1. inbox' = [inbox EXCEPT ![p].at = "take", ![p].todo = new]
      BY <2>5 DEF Load
    <3>2. inbox' = [inbox EXCEPT ![p] = k]
      BY <1>1, <3>1 DEF MailboxTypes
    <3>3. k \in InboxRecord /\ k.mine = inbox[p].mine
      BY <1>1 DEF MailboxTypes, InboxRecord
    <3> HIDE DEF k
    <3> QED BY <1>1, <3>2, <3>3 DEF MailboxTypes
  <2> QED BY <2>2, <2>3, <2>4, <2>5
<1>4. MailboxTypes'
  BY <1>1, <1>2, <1>3 DEF MailboxTypes, history
<1>5. UNCHANGED <<new, read, store, printed, pruned, raced, noted, dropped, acked>>
  BY <1>2 DEF history
<1> QED BY <1>3, <1>4, <1>5, InboxCarries

\* A message taken is read, and one reader has it: a rename happens once.
LEMMA TakeStep ==
  ASSUME MailboxInv, NEW p \in Inboxes, Take(p)
  PROVE  MailboxInv'
<1> DEFINE m == Oldest(inbox[p].todo, 1)
           k == [inbox[p] EXCEPT !.todo = inbox[p].todo \ m,
                                 !.mine = inbox[p].mine \cup (m \cap new)]
<1>1. MailboxTypes /\ inbox[p] \in InboxRecord
  BY DEF MailboxInv, MailboxTypes
<1>2. m \subseteq inbox[p].todo
  BY OldestAreOfThem
<1>3. /\ new' = new \ m /\ read' = read \cup (m \cap new) /\ inbox' = [inbox EXCEPT ![p] = k]
      /\ UNCHANGED <<notes, world, store, history>>
  <2>1. inbox' = [inbox EXCEPT ![p].todo = inbox[p].todo \ m,
                               ![p].mine = inbox[p].mine \cup (m \cap new)]
    BY DEF Take
  <2> QED BY <1>1, <2>1 DEF Take, MailboxTypes
<1> HIDE DEF m
<1>4. k \in InboxRecord /\ k.mine = inbox[p].mine \cup (m \cap new)
  BY <1>1, <1>2 DEF InboxRecord, MailboxTypes
<1> HIDE DEF k
<1>5. MailboxTypes'
  BY <1>1, <1>3, <1>4 DEF MailboxTypes, world, history
<1>6. inbox'[p] = k /\ \A q \in Inboxes \ {p} : inbox'[q] = inbox[q]
  BY <1>1, <1>3 DEF MailboxTypes
<1>7. ASSUME NEW x, Accounted(x) PROVE Accounted(x)'
  <2>1. UNCHANGED <<noted, dropped, printed, store>>
    BY <1>3 DEF history
  <2> QED BY <1>3, <1>4, <1>6, <1>7, <2>1 DEF Accounted
<1>8. \A x \in acked' \cup read' : Accounted(x)'
  <2>1. \A x \in m \cap new : Accounted(x)
    BY DEF Accounted
  <2> QED BY <1>3, <1>7, <2>1 DEF MailboxInv, history
<1>9. \A t \in Stores : StoreStands(t)'
  BY <1>3, <1>7 DEF MailboxInv, StoreStands
<1>10. ASSUME NEW x \in Messages \ (pruned' \cup raced') PROVE ReadOnce(x)'
  <2>1. ReadOnce(x) /\ printed' = printed
    BY <1>3 DEF MailboxInv, history
  <2>2. x \in new' => x \notin read' /\ printed'[x] = 0
    BY <1>3, <2>1 DEF ReadOnce
  <2>3. ASSUME NEW q \in Inboxes, x \in inbox'[q].mine
        PROVE  x \in read' /\ x \notin new' /\ printed'[x] = 0
    BY <1>3, <1>4, <1>6, <2>1, <2>3 DEF ReadOnce
  <2>4. ASSUME NEW q \in Inboxes, NEW r \in Inboxes, x \in inbox'[q].mine, x \in inbox'[r].mine
        PROVE  q = r
    BY <1>4, <1>6, <2>1, <2>4 DEF ReadOnce
  <2>5. printed'[x] # 2 /\ (printed'[x] > 0 => x \in read')
    BY <1>3, <2>1 DEF ReadOnce
  <2> QED BY <2>2, <2>3, <2>4, <2>5 DEF ReadOnce
<1> QED BY <1>5, <1>8, <1>9, <1>10 DEF MailboxInv

\* The oldest read messages are forgotten, which history remembers.
LEMMA PruneStep ==
  ASSUME MailboxInv, NEW p \in Inboxes, Prune(p)
  PROVE  MailboxInv'
<1> DEFINE old == Evictions(read, MaxRead)
<1>1. MailboxTypes /\ inbox[p] \in InboxRecord /\ old \subseteq read
  BY EvictionsAreOfThem DEF MailboxInv, MailboxTypes
<1>2. /\ read' = read \ old /\ pruned' = pruned \cup old
      /\ inbox' = [inbox EXCEPT ![p].at = "print"]
      /\ UNCHANGED <<new, notes, world, store, acked, printed, noted, dropped, raced>>
  BY DEF Prune
<1> HIDE DEF old
<1>3. inbox' \in [Inboxes -> InboxRecord] /\ \A q \in Inboxes : inbox'[q].mine = inbox[q].mine
  BY <1>1, <1>2 DEF MailboxTypes, InboxRecord
<1>4. MailboxTypes'
  BY <1>1, <1>2, <1>3 DEF MailboxTypes, world
<1>5. ASSUME NEW x, Accounted(x) PROVE Accounted(x)'
  BY <1>2, <1>3, <1>5 DEF Accounted
<1>6. \A x \in acked' \cup read' : Accounted(x)'
  BY <1>2, <1>5 DEF MailboxInv
<1>7. \A t \in Stores : StoreStands(t)'
  BY <1>2, <1>5 DEF MailboxInv, StoreStands
<1>8. ASSUME NEW x \in Messages \ (pruned' \cup raced') PROVE ReadOnce(x)'
  <2>1. ReadOnce(x) /\ x \notin old
    BY <1>2 DEF MailboxInv
  <2> QED BY <1>2, <1>3, <2>1 DEF ReadOnce
<1> QED BY <1>4, <1>6, <1>7, <1>8 DEF MailboxInv

\* What a reader took is printed, once.
LEMMA ShowStep ==
  ASSUME MailboxInv, NEW p \in Inboxes, Show(p)
  PROVE  MailboxInv'
<1>1. MailboxTypes /\ inbox[p] \in InboxRecord
  BY DEF MailboxInv, MailboxTypes
<1>2. PICK k \in InboxRecord : inbox' = [inbox EXCEPT ![p] = k] /\ k.mine = {}
  <2>1. /\ IdleInbox \in InboxRecord /\ IdleInbox.mine = {}
        /\ [IdleInbox EXCEPT !.at = "ask"] \in InboxRecord
        /\ [IdleInbox EXCEPT !.at = "ask"].mine = {}
    BY DEF IdleInbox, InboxRecord
  <2>2. \/ inbox' = [inbox EXCEPT ![p] = IdleInbox]
        \/ inbox' = [inbox EXCEPT ![p] = [IdleInbox EXCEPT !.at = "ask"]]
    BY DEF Show
  <2> QED BY <2>1, <2>2
<1>3. /\ printed' = [m \in Messages |-> IF m \in inbox[p].mine /\ printed[m] < 2
                                         THEN printed[m] + 1 ELSE printed[m]]
      /\ UNCHANGED <<files, world, store, acked, noted, dropped, pruned, raced>>
  BY DEF Show
<1>4. inbox'[p] = k /\ \A q \in Inboxes \ {p} : inbox'[q] = inbox[q]
  BY <1>1, <1>2 DEF MailboxTypes
<1>5. \A m \in Messages : printed[m] \in 0 .. 2 /\ printed'[m] \in 0 .. 2
  BY <1>1, <1>3 DEF MailboxTypes
<1>6. MailboxTypes'
  BY <1>1, <1>2, <1>3, <1>5 DEF MailboxTypes, files, world
<1>7. ASSUME NEW x \in Messages, Accounted(x) PROVE Accounted(x)'
  <2>1. printed[x] > 0 \/ x \in inbox[p].mine => printed'[x] > 0
    BY <1>3, <1>5
  <2>2. UNCHANGED <<new, noted, dropped, store>>
    BY <1>3 DEF files
  <2> QED BY <1>4, <1>7, <2>1, <2>2 DEF Accounted
<1>8. \A x \in acked' \cup read' : Accounted(x)'
  BY <1>3, <1>7 DEF MailboxInv, MailboxTypes, files
<1>9. \A t \in Stores : StoreStands(t)'
  BY <1>3, <1>7 DEF MailboxInv, StoreStands, MailboxTypes, StoreRecord
<1>10. ASSUME NEW x \in Messages \ (pruned' \cup raced') PROVE ReadOnce(x)'
  <2>1. ReadOnce(x) /\ UNCHANGED <<new, read>>
    BY <1>3 DEF MailboxInv, files
  <2>2. CASE x \in inbox[p].mine
    BY <1>2, <1>3, <1>4, <2>1, <2>2 DEF ReadOnce
  <2>3. CASE x \notin inbox[p].mine
    BY <1>2, <1>3, <1>4, <2>1, <2>3 DEF ReadOnce
  <2> QED BY <2>2, <2>3
<1> QED BY <1>6, <1>8, <1>9, <1>10 DEF MailboxInv

\* Processes that stop: what they had in hand is dropped, what they stored stays.
LEMMA StopSteps ==
  ASSUME MailboxInv, NEW p \in Inboxes, Cut(p) \/ Kill(p)
  PROVE  MailboxInv'
<1>1. MailboxTypes /\ inbox[p] \in InboxRecord
  BY DEF MailboxInv, MailboxTypes
<1>2. /\ UNCHANGED <<new, read, notes, queued, expired, starts, acked, printed, noted, pruned, raced>>
      /\ dropped \subseteq dropped'
  BY DEF Cut, Kill, files, world
<1>3. kills' \in 0 .. MaxKills
  <2>1. kills' = kills \/ (kills < MaxKills /\ kills' = kills + 1)
    BY DEF Cut, Kill, world
  <2> QED BY <1>1, <2>1, MailboxAssumption DEF MailboxTypes
<1>4. /\ inbox' \in [Inboxes -> InboxRecord]
      /\ \A q \in Inboxes : \/ inbox'[q] = inbox[q]
                            \/ inbox'[q].mine = {} /\ inbox[q].mine \subseteq dropped'
  <2>1. IdleInbox \in InboxRecord /\ IdleInbox.mine = {}
    BY DEF IdleInbox, InboxRecord
  <2>2. inbox' = inbox \/ (inbox' = [inbox EXCEPT ![p] = IdleInbox] /\ inbox[p].mine \subseteq dropped')
    BY DEF Cut, Kill
  <2> QED BY <1>1, <2>1, <2>2 DEF MailboxTypes
<1>5. /\ store' \in [Stores -> StoreRecord]
      /\ \A s \in Stores : \/ store'[s] = store[s]
                           \/ store'[s] = IdleStore /\ store[s].out \subseteq dropped'
  <2>1. CASE Cut(p)
    <3>1. <<"deliver", p>> \in Stores
      BY <2>1 DEF Cut, Stores
    <3>2. store' = [store EXCEPT ![<<"deliver", p>>] = IdleStore]
          /\ store[<<"deliver", p>>].out \subseteq dropped'
      BY <2>1 DEF Cut
    <3> QED BY <1>1, <3>1, <3>2, IdleStoreIsEmpty DEF MailboxTypes
  <2>2. CASE Kill(p)
    <3>1. store' = [s \in Stores |-> IF s[2] = p THEN IdleStore ELSE store[s]]
      BY <2>2 DEF Kill
    <3>2. \A s \in Stores : s[2] = p => store[s].out \subseteq dropped'
      BY <2>2 DEF Kill
    <3> QED BY <1>1, <3>1, <3>2, IdleStoreIsEmpty DEF MailboxTypes
  <2> QED BY <2>1, <2>2
<1>6. MailboxTypes'
  BY <1>1, <1>2, <1>3, <1>4, <1>5 DEF MailboxTypes
<1>7. ASSUME NEW x, Accounted(x) PROVE Accounted(x)'
  BY <1>2, <1>4, <1>5, <1>7 DEF Accounted
<1>8. \A x \in acked' \cup read' : Accounted(x)'
  BY <1>2, <1>7 DEF MailboxInv
<1>9. \A t \in Stores : StoreStands(t)'
  BY <1>5, <1>7, IdleStoreIsEmpty DEF MailboxInv, StoreStands
<1>10. ASSUME NEW x \in Messages \ (pruned' \cup raced') PROVE ReadOnce(x)'
  <2>1. ReadOnce(x)
    BY <1>2 DEF MailboxInv
  <2>2. \A q \in Inboxes : x \in inbox'[q].mine => x \in inbox[q].mine
    BY <1>4
  <2> QED BY <1>2, <2>1, <2>2 DEF ReadOnce
<1> QED BY <1>6, <1>8, <1>9, <1>10 DEF MailboxInv

\* The first `wires inbox` finds an empty mailbox directory.
LEMMA InitMailbox == Init => MailboxInv
<1> SUFFICES ASSUME Init PROVE MailboxInv
  OBVIOUS
<1>1. IdleInbox \in InboxRecord /\ IdleInbox.mine = {}
  BY DEF IdleInbox, InboxRecord
<1>2. MailboxTypes
  BY <1>1, IdleStoreIsEmpty, MailboxAssumption DEF Init, MailboxTypes
<1>3. \A s \in Stores : StoreStands(s)
  BY IdleStoreIsEmpty DEF Init, StoreStands
<1>4. \A m \in Messages : ReadOnce(m)
  BY <1>1 DEF Init, ReadOnce
<1> QED BY <1>2, <1>3, <1>4 DEF Init, MailboxInv

\* Every step of Mailbox, and every stuttering step, keeps the invariant.
LEMMA MailboxStep == MailboxInv /\ [Next]_vars => MailboxInv'
<1> SUFFICES ASSUME MailboxInv, [Next]_vars PROVE MailboxInv'
  OBVIOUS
<1>1. ASSUME NEW p \in Inboxes,
             Start(p) \/ Unreached(p) \/ RefusedByAll(p) \/ TakeNotes(p) \/ Load(p)
      PROVE  MailboxInv'
  BY <1>1, ReaderSteps
<1>2. ASSUME NEW p \in Inboxes, Fetch(p) PROVE MailboxInv'
  <2> DEFINE s == <<"fetch", p>>
             batch == Oldest(queued, MaxBatch)
  <2>1. s \in Stores /\ batch \in SUBSET queued
    BY OldestAreOfThem DEF Stores
  <2>2. /\ Hands(s, batch) /\ At(s, "idle")
        /\ UNCHANGED <<files, queued, starts, kills, inbox, history>>
    BY <1>2 DEF Fetch
  <2> HIDE DEF s, batch
  <2> QED BY <2>1, <2>2, HandsStep
<1>3. ASSUME NEW p \in Inboxes, NEW batch \in SUBSET queued, Deliver(p, batch) PROVE MailboxInv'
  <2> DEFINE s == <<"deliver", p>>
  <2>1. s \in Stores
    BY <1>3 DEF Deliver, Stores
  <2>2. /\ Hands(s, batch) /\ At(s, "idle")
        /\ UNCHANGED <<files, queued, starts, kills, inbox, history>>
    BY <1>3 DEF Deliver
  <2> HIDE DEF s
  <2> QED BY <2>1, <2>2, HandsStep
<1>4. ASSUME NEW p \in Inboxes, Take(p) PROVE MailboxInv'
  BY <1>4, TakeStep
<1>5. ASSUME NEW p \in Inboxes, Prune(p) PROVE MailboxInv'
  BY <1>5, PruneStep
<1>6. ASSUME NEW p \in Inboxes, Show(p) PROVE MailboxInv'
  BY <1>6, ShowStep
<1>7. ASSUME NEW p \in Inboxes, Cut(p) \/ Kill(p) PROVE MailboxInv'
  BY <1>7, StopSteps
<1>8. ASSUME NEW s \in Stores, Look(s) PROVE MailboxInv'
  BY <1>8, LookStep
<1>9. ASSUME NEW s \in Stores, Write(s) PROVE MailboxInv'
  BY <1>9, WriteStep
<1>10. ASSUME NEW s \in Stores, Index(s) PROVE MailboxInv'
  BY <1>10, IndexStep
<1>11. ASSUME NEW s \in Stores, Evict(s) PROVE MailboxInv'
  BY <1>11, EvictStep
<1>12. ASSUME NEW s \in Stores, Note(s) PROVE MailboxInv'
  BY <1>12, NoteStep
<1>13. ASSUME NEW s \in Stores, Ack(s) \/ AckLost(s) PROVE MailboxInv'
  BY <1>13, AckStep
<1>14. CASE UNCHANGED vars
  <2>1. MailboxTypes'
    BY <1>14 DEF MailboxInv, MailboxTypes, vars, files, world, history
  <2>2. UNCHANGED <<new, read, store, printed, pruned, raced, noted, dropped, acked, inbox>>
    BY <1>14 DEF vars, files, world, history
  <2> QED BY <2>1, <2>2, InboxCarries
<1> QED
  BY <1>1, <1>2, <1>3, <1>4, <1>5, <1>6, <1>7, <1>8, <1>9, <1>10, <1>11, <1>12, <1>13, <1>14
  DEF Next

\* Every reachable state of the mailbox directory and the processes that share it
\* (inbox.rs) satisfies the inductive invariant.
THEOREM MailboxInvariance == Spec => []MailboxInv
<1> QED BY InitMailbox, MailboxStep, PTL DEF Spec

\* Whatever processes share the mailbox and wherever they are killed (Mailbox::store,
\* take_unread), what was acknowledged to a host is unread, in hand, told of or was in
\* the hands of a process that stopped, and a message is printed twice only when it
\* was forgotten or two stores raced for it.
THEOREM EachIsToldOnce == Spec => []ToldOnce
<1>1. MailboxInv => ToldOnce
  <2> SUFFICES ASSUME MailboxInv PROVE ToldOnce
    OBVIOUS
  <2>1. TypeOK
    BY DEF MailboxInv, MailboxTypes, TypeOK, StoreRecord, InboxRecord
  <2>2. AckedIsTold
    BY DEF MailboxInv, Accounted, AckedIsTold
  <2>3. OnlyARacePrintsTwice
    BY DEF MailboxInv, ReadOnce, OnlyARacePrintsTwice
  <2> QED BY <2>1, <2>2, <2>3 DEF ToldOnce
<1> QED BY <1>1, MailboxInvariance, PTL

-----------------------------------------------------------------------------
(* The keystore (Keystores). *)

\* A command that has not started, or what it does, at which step, on what it read.
Places ==
  {"new", "start", "node", "node save", "node write", "policy", "network", "done", "root",
   "root save", "root write", "record", "record save", "label save"}

Runs(Seen) == [at : Places, line : CommandLines, seen : Seen]

IsJob(r) == r = [at |-> "new"] \/ (r \in Runs({r.seen}) /\ r.at # "new")

\* What a command found, or wrote, is there to stay; what it created is blank until it
\* writes it.
JobStands(r) ==
  /\ r.at = "node save" /\ K!Key(r.seen) => K!Key(node)
  /\ r.at = "network" => K!Key(node) /\ r.line.do = "join"
  /\ r.at = "node write" => node = Blank
  /\ r.at = "root write" => root = Blank

\* A seed is written by the one process that created it.
OneWrites ==
  \A i, j \in Jobs :
    job[i].at = job[j].at /\ job[i].at \in {"node write", "root write"} => i = j

JobsStand ==
  /\ job = [j \in Jobs |-> job[j]]
  /\ \A j \in Jobs : IsJob(job[j]) /\ JobStands(job[j])
  /\ OneWrites

KeystoreInv ==
  /\ JobsStand
  /\ policy = [root |-> policy.root, directories |-> policy.directories,
               issuers |-> policy.issuers]
  /\ policy.directories \in Seq(Jobs)
  /\ network # None => K!Decodes(network)
  /\ K!KeyBeforeNetwork

\* A step of j keeps the keys, and leaves a blank seed to the process that created it.
SeedsKeep(j) ==
  /\ K!KeysStay
  /\ node = Blank /\ job[j].at # "node write" => node' = Blank
  /\ root = Blank /\ job[j].at # "root write" => root' = Blank

\* A step of one process that keeps the seeds.
LEMMA JobMoves ==
  ASSUME KeystoreInv, NEW j \in Jobs, NEW r, IsJob(r), job' = [job EXCEPT ![j] = r],
         SeedsKeep(j),
         r.at = "node save" /\ K!Key(r.seen) => K!Key(node'),
         r.at = "network" => K!Key(node') /\ r.line.do = "join",
         r.at = "node write" => node = None /\ node' = Blank,
         r.at = "root write" => root = None /\ root' = Blank
  PROVE  JobsStand'
<1>1. job'[j] = r /\ \A i \in Jobs \ {j} : job'[i] = job[i]
  BY DEF KeystoreInv, JobsStand
<1>2. JobStands(job[j])'
  BY <1>1 DEF JobStands, K!Key
<1>3. ASSUME NEW i \in Jobs \ {j} PROVE JobStands(job[i])'
  <2>1. JobStands(job[i]) /\ job'[i] = job[i]
    BY <1>1 DEF KeystoreInv, JobsStand
  <2>2. /\ job[i].at = "node write" => job[j].at # "node write"
        /\ job[i].at = "root write" => job[j].at # "root write"
    BY DEF KeystoreInv, JobsStand, OneWrites
  <2>3. K!Key(node) => K!Key(node')
    BY DEF SeedsKeep, K!KeysStay
  <2> QED BY <2>1, <2>2, <2>3 DEF JobStands, SeedsKeep, K!Key
<1>4. \A i \in Jobs : IsJob(job'[i])
  BY <1>1 DEF KeystoreInv, JobsStand
<1>5. job' = [i \in Jobs |-> job'[i]]
  BY DEF KeystoreInv, JobsStand
<1>6. OneWrites'
  <2>1. Blank # None
    BY FilesAssumption DEF K!KeystoreAssumption
  <2>2. ASSUME NEW i \in Jobs \ {j}, r.at \in {"node write", "root write"}
        PROVE  job[i].at # r.at
    BY <2>1, <2>2 DEF KeystoreInv, JobsStand, JobStands
  <2> QED BY <1>1, <2>2 DEF KeystoreInv, JobsStand, OneWrites
<1> QED BY <1>2, <1>3, <1>4, <1>5, <1>6 DEF JobsStand

\* A process that runs a command goes on to another step, with what it has seen.
LEMMA RunMoves ==
  ASSUME NEW Seen, NEW q \in Runs(Seen), NEW pc \in Places
  PROVE  /\ [q EXCEPT !.at = pc] \in Runs(Seen)
         /\ [q EXCEPT !.at = pc].at = pc /\ [q EXCEPT !.at = pc].line = q.line
  BY DEF Runs

\* A process that has started runs a command.
LEMMA RunsAre ==
  ASSUME NEW r, IsJob(r), r.at # "new"
  PROVE  r \in Runs({r.seen}) /\ \A Seen : r.seen \in Seen => r \in Runs(Seen)
<1>1. r # [at |-> "new"]
  OBVIOUS
<1>2. r \in Runs({r.seen})
  BY <1>1 DEF IsJob
<1> QED BY <1>2 DEF Runs

\* What runs a command, at a step after the first, is a process.
LEMMA RunIsJob ==
  ASSUME NEW Seen, NEW r \in Runs(Seen), r.at # "new"
  PROVE  IsJob(r) /\ r.line \in CommandLines
<1>1. r \in Runs({r.seen})
  BY DEF Runs
<1> QED BY <1>1 DEF IsJob, Runs

\* A process goes on to another step of its command.
LEMMA GotoMoves ==
  ASSUME KeystoreInv, NEW j \in Jobs, job[j].at # "new", NEW pc \in Places, pc # "new",
         K!Goto(j, pc), SeedsKeep(j), pc # "node save",
         pc = "network" => K!Key(node') /\ job[j].line.do = "join",
         pc = "node write" => node = None /\ node' = Blank,
         pc = "root write" => root = None /\ root' = Blank
  PROVE  JobsStand'
<1> DEFINE Seen == {job[j].seen}
           q == job[j]
           r == [q EXCEPT !.at = pc]
<1>1. IsJob(job[j])
  BY DEF KeystoreInv, JobsStand
<1>2. q \in Runs(Seen)
  BY <1>1, RunsAre
<1>3. job' = [job EXCEPT ![j] = r]
  BY <1>2 DEF K!Goto, KeystoreInv, JobsStand
<1> HIDE DEF Seen, q
<1>4. r \in Runs(Seen) /\ r.at = pc /\ r.line = q.line
  BY <1>2, RunMoves
<1> HIDE DEF r
<1>5. IsJob(r)
  BY <1>4, RunIsJob
<1> QED BY <1>3, <1>4, <1>5, JobMoves DEF q

\* A process remembers what it read, for the step that saves.
LEMMA SeenMoves ==
  ASSUME KeystoreInv, NEW j \in Jobs, job[j].at # "new", NEW pc \in Places, pc # "new", NEW x,
         job' = [job EXCEPT ![j].at = pc, ![j].seen = x], UNCHANGED <<root, node>>,
         pc \notin {"network", "node write", "root write"}, pc = "node save" => x = node
  PROVE  JobsStand'
<1> DEFINE Seen == {job[j].seen, x}
           q == job[j]
           r == [q EXCEPT !.at = pc, !.seen = x]
<1>1. IsJob(job[j])
  BY DEF KeystoreInv, JobsStand
<1>2. q \in Runs(Seen) /\ x \in Seen
  BY <1>1, RunsAre
<1>3. job' = [job EXCEPT ![j] = r]
  BY <1>2 DEF KeystoreInv, JobsStand
<1> HIDE DEF Seen, q
<1>4. r \in Runs(Seen) /\ r.at = pc /\ r.seen = x
  BY <1>2 DEF Runs
<1> HIDE DEF r
<1>5. IsJob(r)
  BY <1>4, RunIsJob
<1>6. SeedsKeep(j) /\ (x = node => (K!Key(x) => K!Key(node')))
  BY DEF SeedsKeep, K!KeysStay
<1> QED BY <1>3, <1>4, <1>5, <1>6, JobMoves

\* What a step may do to the files of a keystore: make a key where there was none,
\* sign a policy under the root key, store a string that was decoded.
LEMMA KeystoreKeeps ==
  ASSUME KeystoreInv, JobsStand', K!KeysStay,
         policy' = [root |-> policy'.root, directories |-> policy'.directories,
                    issuers |-> policy'.issuers],
         policy'.directories \in Seq(Jobs),
         policy'.root = policy.root \/ (policy'.root = root' /\ K!Key(root')),
         network' = network \/ (network' # None => K!Decodes(network)' /\ K!Key(node'))
  PROVE  KeystoreInv' /\ K!KeysStay
<1>1. network' # None => K!Decodes(network)'
  BY DEF KeystoreInv, K!Decodes
<1>2. K!KeyBeforeNetwork'
  BY DEF KeystoreInv, K!KeyBeforeNetwork, K!KeysStay, K!Key
<1> QED BY <1>1, <1>2 DEF KeystoreInv

\* A step that moves a process and leaves the files.
LEMMA FilesStay ==
  ASSUME KeystoreInv, UNCHANGED K!files, JobsStand'
  PROVE  KeystoreInv' /\ K!KeysStay
<1>1. UNCHANGED <<root, node, network, policy>>
  BY DEF K!files
<1>2. policy' = [root |-> policy'.root, directories |-> policy'.directories,
                 issuers |-> policy'.issuers]
      /\ policy'.directories \in Seq(Jobs)
  BY <1>1 DEF KeystoreInv
<1>3. K!KeysStay
  BY <1>1 DEF K!KeysStay
<1> QED BY <1>1, <1>2, <1>3, KeystoreKeeps

\* Starting a command, killing it, its checks and what it reads.
LEMMA JobSteps ==
  ASSUME KeystoreInv, NEW j \in Jobs,
         \/ K!Start(j) \/ K!Kill(j) \/ K!ReadNode(j) \/ K!InitCheck(j) \/ K!ReadRoot(j)
         \/ K!JoinCheck(j) \/ K!LoadLogin(j) \/ K!LoadLabels(j)
  PROVE  KeystoreInv' /\ K!KeysStay
<1>1. UNCHANGED K!files
  BY DEF K!Start, K!Kill, K!ReadNode, K!InitCheck, K!ReadRoot, K!JoinCheck, K!LoadLogin,
         K!LoadLabels
<1>2. UNCHANGED <<root, node>> /\ SeedsKeep(j)
  BY <1>1 DEF K!files, SeedsKeep, K!KeysStay
<1>3. JobsStand'
  <2>1. CASE K!Start(j)
    <3>1. PICK l \in CommandLines :
            job' = [job EXCEPT ![j] = [at |-> "start", line |-> l, seen |-> None]]
      BY <2>1 DEF K!Start
    <3> DEFINE r == [at |-> "start", line |-> l, seen |-> None]
    <3>2. r.at = "start" /\ IsJob(r)
      BY DEF IsJob, Runs, Places
    <3>3. job' = [job EXCEPT ![j] = r]
      BY <3>1
    <3> HIDE DEF r
    <3> QED BY <1>2, <3>2, <3>3, JobMoves
  <2>2. CASE K!Kill(j)
    <3>1. job[j].at # "new" /\ K!Goto(j, "done")
      BY <2>2 DEF K!Kill, K!Running, K!End
    <3>2. "done" \in Places /\ "done" \notin {"new", "network", "node save", "node write", "root write"}
      BY DEF Places
    <3> QED BY <1>2, <3>1, <3>2, GotoMoves
  <2>3. CASE \/ K!ReadNode(j) \/ K!ReadRoot(j) \/ K!LoadLogin(j) \/ K!LoadLabels(j)
             \/ K!InitCheck(j) \/ K!JoinCheck(j)
    <3>1. job[j].at # "new"
      BY <2>3 DEF K!ReadNode, K!ReadRoot, K!LoadLogin, K!LoadLabels, K!InitCheck, K!JoinCheck,
                  K!At
    <3>2. CASE \E pc \in {"node save", "root save", "record save", "label save"} : \E x :
                 /\ job' = [job EXCEPT ![j].at = pc, ![j].seen = x]
                 /\ pc = "node save" => x = node
      <4>1. PICK pc \in {"node save", "root save", "record save", "label save"} : \E x :
                   /\ job' = [job EXCEPT ![j].at = pc, ![j].seen = x]
                   /\ pc = "node save" => x = node
        BY <3>2
      <4>2. PICK x : /\ job' = [job EXCEPT ![j].at = pc, ![j].seen = x]
                     /\ pc = "node save" => x = node
        BY <4>1
      <4>3. pc \in Places /\ pc # "new" /\ pc \notin {"network", "node write", "root write"}
        BY DEF Places
      <4> QED BY <1>2, <3>1, <4>2, <4>3, SeenMoves
    <3>3. CASE \E pc \in {"root", "node", "done"} : K!Goto(j, pc)
      <4>1. PICK pc \in {"root", "node", "done"} : K!Goto(j, pc)
        BY <3>3
      <4>2. /\ pc \in Places
            /\ pc \notin {"new", "network", "node save", "node write", "root write"}
        BY DEF Places
      <4> QED BY <1>2, <3>1, <4>1, <4>2, GotoMoves
    <3>4. \/ \E pc \in {"node save", "root save", "record save", "label save"} : \E x :
               /\ job' = [job EXCEPT ![j].at = pc, ![j].seen = x]
               /\ pc = "node save" => x = node
          \/ \E pc \in {"root", "node", "done"} : K!Goto(j, pc)
      BY <2>3 DEF K!ReadNode, K!ReadRoot, K!LoadLogin, K!LoadLabels, K!InitCheck, K!JoinCheck,
                  K!End, K!AfterMayJoin
    <3> QED BY <3>2, <3>3, <3>4
  <2> QED BY <2>1, <2>2, <2>3
<1> QED BY <1>1, <1>3, FilesStay

\* save_node, save_root: a seed is created where there is none, written by the process
\* that created it, and a command goes on with a key that was read or is written.
LEMMA SaveKeySteps ==
  ASSUME KeystoreInv, NEW j \in Jobs,
         K!SaveNode(j) \/ K!WriteNode(j) \/ K!SaveRoot(j) \/ K!WriteRoot(j)
  PROVE  KeystoreInv' /\ K!KeysStay
<1> USE DEF K!Key, K!Created
<1>1. UNCHANGED <<network, policy>> /\ job[j].at # "new" /\ JobStands(job[j])
  BY DEF K!SaveNode, K!SaveRoot, K!WriteNode, K!WriteRoot, K!At, KeystoreInv, JobsStand
<1>2. None \notin Jobs /\ Blank \notin Jobs /\ Blank # None
  BY FilesAssumption DEF K!KeystoreAssumption
<1>3. PICK pc : /\ pc \in {"policy", "network", "done", "node", "node write", "root write"}
                /\ K!Goto(j, pc) /\ SeedsKeep(j)
                /\ pc = "network" => K!Key(node') /\ job[j].line.do = "join"
                /\ pc = "node write" => node = None /\ node' = Blank
                /\ pc = "root write" => root = None /\ root' = Blank
  <2>1. CASE K!SaveRoot(j)
    <3>1. \/ K!Goto(j, "node") \/ K!Goto(j, "done")
          \/ K!Goto(j, "root write") /\ root = None /\ root' = Blank
      BY <2>1 DEF K!SaveRoot
    <3>2. SeedsKeep(j)
      BY <1>2, <2>1 DEF K!SaveRoot, SeedsKeep, K!KeysStay
    <3> QED BY <3>1, <3>2
  <2>2. CASE K!WriteRoot(j)
    <3>1. K!Goto(j, "node") /\ SeedsKeep(j)
      BY <1>1, <1>2, <2>2 DEF K!WriteRoot, SeedsKeep, K!KeysStay, JobStands
    <3> QED BY <3>1
  <2>3. K!AfterNode(j) \in {"policy", "network", "done"}
        /\ (K!AfterNode(j) = "network" => job[j].line.do = "join")
    BY DEF K!AfterNode
  <2>4. CASE K!SaveNode(j)
    <3>1. \/ K!Goto(j, "done")
          \/ K!Goto(j, "node write") /\ node = None /\ node' = Blank
          \/ K!Goto(j, K!AfterNode(j)) /\ K!Key(node')
      BY <1>1, <2>4 DEF K!SaveNode, JobStands
    <3>2. SeedsKeep(j)
      BY <1>2, <2>4 DEF K!SaveNode, SeedsKeep, K!KeysStay
    <3> QED BY <2>3, <3>1, <3>2
  <2>5. CASE K!WriteNode(j)
    <3>1. K!Goto(j, K!AfterNode(j)) /\ K!Key(node') /\ SeedsKeep(j)
      BY <1>1, <1>2, <2>5 DEF K!WriteNode, SeedsKeep, K!KeysStay, JobStands
    <3> QED BY <2>3, <3>1
  <2> QED BY <2>1, <2>2, <2>4, <2>5
<1>4. pc \in Places /\ pc # "new" /\ pc # "node save"
  BY <1>3 DEF Places
<1>5. JobsStand'
  BY <1>1, <1>3, <1>4, GotoMoves
<1>6. policy' = [root |-> policy'.root, directories |-> policy'.directories,
                 issuers |-> policy'.issuers]
      /\ policy'.directories \in Seq(Jobs)
  BY <1>1 DEF KeystoreInv
<1> QED BY <1>1, <1>3, <1>5, <1>6, KeystoreKeeps DEF SeedsKeep

\* first_policy and the admin's edits sign under the root key.
LEMMA SignSteps ==
  ASSUME KeystoreInv, NEW j \in Jobs, K!FirstPolicy(j) \/ K!Edit(j)
  PROVE  KeystoreInv' /\ K!KeysStay
<1>1. UNCHANGED <<root, node, network>> /\ job[j].at # "new"
  BY DEF K!FirstPolicy, K!Edit, K!At
<1>2. PICK pc \in {"record", "done"} : K!Goto(j, pc)
  BY DEF K!FirstPolicy, K!Edit, K!End
<1>3. /\ pc \in Places /\ pc \notin {"new", "network", "node save", "node write", "root write"}
      /\ SeedsKeep(j)
  BY <1>1, <1>2 DEF Places, SeedsKeep, K!KeysStay
<1>4. JobsStand'
  BY <1>1, <1>2, <1>3, GotoMoves
<1>5. /\ policy' = [root |-> policy'.root, directories |-> policy'.directories,
                    issuers |-> policy'.issuers]
      /\ policy'.directories \in Seq(Jobs)
      /\ policy'.root = policy.root \/ (policy'.root = root' /\ K!Key(root'))
  <2> DEFINE r == policy.root
             d == policy.directories
             is == policy.issuers
  <2>1. policy = [root |-> r, directories |-> d, issuers |-> is] /\ d \in Seq(Jobs)
    BY DEF KeystoreInv
  <2>2. CASE K!FirstPolicy(j)
    BY <1>1, <2>1, <2>2 DEF K!FirstPolicy
  <2>3. CASE K!Edit(j)
    <3>1. \/ policy' = policy
          \/ \E x : policy' = [policy EXCEPT !.issuers = x]
          \/ policy' = [policy EXCEPT !.directories = Append(policy.directories, j)]
      BY <2>3 DEF K!Edit
    <3>2. Append(d, j) \in Seq(Jobs)
      BY <2>1
    <3> QED BY <2>1, <3>1, <3>2
  <2> QED BY <2>2, <2>3
<1> QED BY <1>1, <1>3, <1>4, <1>5, KeystoreKeeps DEF SeedsKeep

\* join_in's last step, and the two files an admin's commands record things in.
LEMMA RecordSteps ==
  ASSUME KeystoreInv, NEW j \in Jobs, K!SaveNetwork(j) \/ K!SaveLogin(j) \/ K!SaveLabels(j)
  PROVE  KeystoreInv' /\ K!KeysStay
<1>1. UNCHANGED <<root, node, policy>> /\ job[j].at # "new" /\ K!Goto(j, "done")
  BY DEF K!SaveNetwork, K!SaveLogin, K!SaveLabels, K!At, K!End
<1>2. /\ "done" \in Places
      /\ "done" \notin {"new", "network", "node save", "node write", "root write"}
      /\ SeedsKeep(j)
  BY <1>1 DEF Places, SeedsKeep, K!KeysStay
<1>3. JobsStand'
  BY <1>1, <1>2, GotoMoves
<1>4. network' = network \/ (network' # None => K!Decodes(network)' /\ K!Key(node'))
  <2>1. CASE K!SaveNetwork(j)
    <3>1. job[j].at = "network" /\ network' = job[j].line.string
      BY <2>1 DEF K!SaveNetwork, K!At
    <3>2. IsJob(job[j]) /\ JobStands(job[j])
      BY DEF KeystoreInv, JobsStand
    <3>3. job[j].line \in CommandLines
      BY <1>1, <3>2, RunsAre DEF Runs
    <3>4. K!Key(node) /\ job[j].line.do = "join"
      BY <3>1, <3>2 DEF JobStands
    <3> QED
      BY <1>1, <3>1, <3>3, <3>4, FilesAssumption DEF K!Decodes, K!KeystoreAssumption, K!Lines
  <2>2. CASE K!SaveLogin(j) \/ K!SaveLabels(j)
    BY <2>2 DEF K!SaveLogin, K!SaveLabels
  <2> QED BY <2>1, <2>2
<1>5. policy' = [root |-> policy'.root, directories |-> policy'.directories,
                 issuers |-> policy'.issuers]
      /\ policy'.directories \in Seq(Jobs)
  BY <1>1 DEF KeystoreInv
<1> QED BY <1>1, <1>2, <1>3, <1>4, <1>5, KeystoreKeeps DEF SeedsKeep

\* Every step on the keystore, and every stuttering step, keeps the invariant and the keys.
LEMMA KeystoreStep == KeystoreInv /\ [K!Next]_(K!vars) => KeystoreInv' /\ K!KeysStay
<1> SUFFICES ASSUME KeystoreInv, [K!Next]_(K!vars) PROVE KeystoreInv' /\ K!KeysStay
  OBVIOUS
<1>1. CASE UNCHANGED K!vars
  <2>1. UNCHANGED K!files /\ UNCHANGED <<job, root, node>>
    BY <1>1 DEF K!vars, K!files
  <2> QED BY <2>1, FilesStay DEF KeystoreInv, JobsStand, JobStands, OneWrites
<1>2. CASE K!Next
  BY <1>2, JobSteps, SaveKeySteps, SignSteps, RecordSteps DEF K!Next
<1> QED BY <1>1, <1>2

\* What a keystore's files say of each other follows from the invariant.
LEMMA KeystoreStands == KeystoreInv => K!KeyBeforeNetwork /\ K!StringsDecode
<1> SUFFICES ASSUME KeystoreInv PROVE K!StringsDecode
  BY DEF KeystoreInv
<1> SUFFICES ASSUME NEW string \in K!Prints
             PROVE  K!Decodes(string) /\ (root # None => string.issuer \in policy.issuers)
  BY DEF K!StringsDecode
<1>1. CASE root = None
  BY <1>1 DEF K!Prints, KeystoreInv
<1>2. CASE root # None
  <2> DEFINE d == policy.directories
             n == IF Len(d) < MaxDirectories THEN Len(d) ELSE MaxDirectories
  <2>1. /\ policy.issuers # {}
        /\ string = [root |-> root, directories |-> K!FirstOf(d),
                     issuer |-> K!LoginIssuer, secret |-> K!Secret(K!LoginIssuer)]
    BY <1>2 DEF K!Prints
  <2>2. K!LoginIssuer \in policy.issuers
    BY <2>1 DEF K!LoginIssuer
  <2>3. Len(K!FirstOf(d)) <= MaxDirectories
    <3>1. d \in Seq(Jobs) /\ Len(d) \in Nat /\ MaxDirectories \in Nat
      BY FilesAssumption DEF KeystoreInv, K!KeystoreAssumption
    <3>2. n \in Nat /\ n <= Len(d) /\ n <= MaxDirectories
      BY <3>1
    <3>3. K!FirstOf(d) = SubSeq(d, 1, n)
      BY DEF K!FirstOf
    <3> HIDE DEF n
    <3>4. Len(SubSeq(d, 1, n)) = n
      BY <3>1, <3>2, SubSeqProperties
    <3> QED BY <3>2, <3>3, <3>4
  <2> QED BY <2>1, <2>2, <2>3 DEF K!Decodes
<1> QED BY <1>1, <1>2

\* init, join and login start on a machine with no keystore.
LEMMA InitKeystore == K!Init => KeystoreInv
<1> SUFFICES ASSUME K!Init PROVE KeystoreInv
  OBVIOUS
<1>1. \A j \in Jobs : job[j] = [at |-> "new"]
  BY DEF K!Init
<1>2. \A j \in Jobs : IsJob(job[j])
  BY <1>1 DEF IsJob
<1>3. (\A j \in Jobs : JobStands(job[j])) /\ OneWrites
  <2>1. \A j \in Jobs : job[j].at = "new"
    BY <1>1
  <2> QED BY <2>1 DEF JobStands, OneWrites
<1> QED BY <1>2, <1>3 DEF K!Init, KeystoreInv, JobsStand, K!NoPolicy, K!KeyBeforeNetwork

-----------------------------------------------------------------------------
(* Signing in (SignIn). *)

IdTokens == [who : People, bound : BOOLEAN]

LoginRecord ==
  [phase : {"idle", "failed", "finish", "renewing", "opening", "waiting", "exchange",
            "unlink", "create", "write", "rename", "signed in", "killed"},
   mode : Modes \cup {"browser", None}, token : IdTokens \cup {None, Partial},
   refresh : People \cup {None, Partial}, saving : {None, "token", "refresh"}]

SignInTypes ==
  /\ file \in [S!Files -> Logins \cup {Before, None}]
  /\ temp \in [S!Files -> Logins \cup {None}]
  /\ overlapped \in BOOLEAN
  /\ signing \in [Logins -> LoginRecord]
  /\ content = [l \in Logins \cup {Before} |-> [f \in S!Files |-> content[l][f]]]
  /\ \A l \in Logins \cup {Before} : /\ content[l]["token"] \in IdTokens \cup {None}
                                       /\ content[l]["refresh"] \in People \cup {None}
  /\ redirect \subseteq [of : Logins, to : Logins, who : People \cup {None}]

IsSaving(r) == r.phase \in {"unlink", "create", "write", "rename"}

\* What a login r is about to verify or to save: a token, and the refresh token that
\* came with it, of the same person.
Granted(r) ==
  /\ r.phase = "renewing" => r.refresh # None
  /\ r.phase = "exchange" => r.token \in IdTokens
  /\ r.phase \in {"renewing", "opening", "waiting", "exchange"} => r.mode # "reuse"
  /\ r.phase = "finish" /\ r.token # Partial => r.token \in IdTokens
  /\ r.phase = "finish" /\ r.mode # "reuse" => r.token # Partial
  /\ IsSaving(r) => /\ r.saving \in S!Files /\ r.token \in IdTokens /\ r.token.bound
                    /\ r.saving = "refresh" => r.refresh # None
  /\ (r.phase = "finish" \/ IsSaving(r)) /\ r.refresh # None =>
       r.mode # "reuse" /\ r.token # Partial /\ r.refresh = r.token.who

\* What a login r wrote, c, is what it signed in with.
Wrote(c, r) ==
  /\ c["token"] # None =>
       /\ c["token"] = r.token /\ r.token \in IdTokens /\ r.token.bound
       /\ \/ IsSaving(r) /\ (r.saving = "refresh" \/ r.phase = "rename")
          \/ r.phase \in {"signed in", "killed"}
  /\ c["refresh"] # None =>
       /\ c["refresh"] = r.refresh
       /\ \/ r.phase = "rename" /\ r.saving = "refresh"
          \/ r.phase \in {"signed in", "killed"}

\* While nobody raced: where login l is in its save, r, says what is at each name,
\* with .tmp and without, and a token that it checked again is the one kept.
Undisturbed(l, r, c, temps, names, kept) ==
  /\ r.phase = "create" => temps[r.saving] = None
  /\ r.phase \in {"write", "rename"} => temps[r.saving] = l
  /\ r.phase = "rename" => c[r.saving] # None
  /\ IsSaving(r) /\ r.saving = "refresh" => names["token"] = l /\ c["token"] # None
  /\ r.mode = "reuse" /\ (r.phase = "finish" \/ IsSaving(r)) =>
       names["token"] # None /\ kept = r.token

StandsIn(l, r, c, temps, names, kept) == Wrote(c, r) /\ Undisturbed(l, r, c, temps, names, kept)

SignInInv ==
  /\ SignInTypes
  /\ \A l \in Logins : Granted(signing[l])
  /\ content[Before]["token"] \in IdTokens /\ content[Before]["token"].bound
  /\ ~ overlapped =>
       /\ \A l \in Logins : StandsIn(l, signing[l], content[l], temp, file, S!Read("token"))
       /\ \A f \in S!Files : file[f] # None => content[file[f]][f] # None
       /\ S!RenewsTheSamePerson

\* A step on the files that nobody raced was made by the only login that had begun.
LEMMA NobodyElseHolds ==
  ASSUME S!Races, ~ overlapped', NEW l \in Logins, NEW m \in Logins, S!Holds(l), S!Holds(m)
  PROVE  l = m
  BY DEF S!Races

\* A step of one login that leaves the files: what it is about to save is its own.
LEMMA LoginMoves ==
  ASSUME SignInInv, NEW l \in Logins, NEW k \in LoginRecord, signing' = [signing EXCEPT ![l] = k],
         UNCHANGED <<file, temp, content, overlapped>>,
         redirect' \subseteq [of : Logins, to : Logins, who : People \cup {None}],
         Granted(k),
         StandsIn(l, signing[l], content[l], temp, file, S!Read("token"))
           => StandsIn(l, k, content[l], temp, file, S!Read("token")),
         Wrote(content[l], signing[l]) /\ S!Half(l)
           => k.mode # "reuse" /\ (k.refresh = None \/ k.phase # "signed in")
  PROVE  SignInInv'
<1>1. signing'[l] = k /\ \A m \in Logins \ {l} : signing'[m] = signing[m]
  BY DEF SignInInv, SignInTypes
<1>2. SignInTypes'
  BY DEF SignInInv, SignInTypes
<1>3. \A m \in Logins : Granted(signing'[m])
  BY <1>1 DEF SignInInv
<1>4. S!Read("token")' = S!Read("token") /\ S!Read("refresh")' = S!Read("refresh")
  BY DEF S!Read
<1>5. ASSUME ~ overlapped'
      PROVE  \A m \in Logins : StandsIn(m, signing'[m], content'[m], temp', file', S!Read("token")')
  <2>1. \A m \in Logins : StandsIn(m, signing[m], content[m], temp, file, S!Read("token"))
    BY <1>5 DEF SignInInv
  <2> QED BY <1>1, <1>4, <2>1
<1>6. ASSUME ~ overlapped'
      PROVE  \A f \in S!Files : file'[f] # None => content'[file'[f]][f] # None
  BY <1>6 DEF SignInInv
<1>7. ASSUME ~ overlapped' PROVE S!RenewsTheSamePerson'
  <2>1. \A m \in Logins : S!Half(m) => S!Half(m)'
    BY <1>1, <1>7 DEF S!Half, SignInInv, StandsIn
  <2> QED BY <1>4, <1>7, <2>1 DEF S!RenewsTheSamePerson, SignInInv
<1>8. content'[Before] = content[Before]
  OBVIOUS
<1> QED BY <1>2, <1>3, <1>5, <1>6, <1>7, <1>8 DEF SignInInv
\* What is read of a file is what was written to it.
LEMMA ReadsAre ==
  ASSUME SignInTypes
  PROVE  /\ S!Read("token") \in IdTokens \cup {None, Partial}
         /\ S!Read("refresh") \in People \cup {None, Partial}
         /\ S!Read("token") # None => file["token"] # None
  BY FilesAssumption DEF SignInTypes, S!Read, S!Files, S!SignInAssumption, IdTokens

\* A login that starts has what it reads of the files, or opens a browser.
LEMMA StartStep ==
  ASSUME SignInInv, NEW l \in Logins, NEW mode \in Modes, S!Start(l, mode)
  PROVE  SignInInv'
<1>1. SignInTypes /\ signing[l] \in LoginRecord /\ signing[l].phase = "idle"
  BY DEF SignInInv, SignInTypes, S!Start, S!In
<1>2. redirect' \subseteq [of : Logins, to : Logins, who : People \cup {None}]
      /\ UNCHANGED <<file, temp, content, overlapped>>
  BY <1>1 DEF SignInTypes, S!Start, S!disk
<1> DEFINE r == [S!Idle EXCEPT !.mode = mode]
<1>3. PICK k \in {[r EXCEPT !.phase = "failed"],
                  [r EXCEPT !.phase = "finish", !.token = S!Read("token")],
                  [r EXCEPT !.phase = "renewing", !.refresh = S!Read("refresh")],
                  [r EXCEPT !.phase = "opening"]} :
        /\ signing' = [signing EXCEPT ![l] = k]
        /\ k.phase = "finish" => k.mode = "reuse" /\ S!Read("token") # None
        /\ k.phase = "renewing" => k.mode = "refresh" /\ S!Read("refresh") # None
        /\ k.phase = "opening" => k.mode # "reuse"
  BY DEF S!Start, S!Becomes, S!Idle
<1>8. S!Idle \in LoginRecord /\ r \in LoginRecord
  BY DEF LoginRecord, S!Idle
<1>4. k \in LoginRecord
  <2> HIDE DEF r
  <2>1. /\ [r EXCEPT !.phase = "failed"] \in LoginRecord
        /\ [r EXCEPT !.phase = "opening"] \in LoginRecord
    BY <1>8 DEF LoginRecord
  <2>2. [r EXCEPT !.phase = "finish", !.token = S!Read("token")] \in LoginRecord
    BY <1>1, <1>8, ReadsAre DEF LoginRecord
  <2>3. [r EXCEPT !.phase = "renewing", !.refresh = S!Read("refresh")] \in LoginRecord
    BY <1>1, <1>8, ReadsAre DEF LoginRecord
  <2> QED BY <1>3, <2>1, <2>2, <2>3
<1>5. Granted(k)
  <2>1. /\ k.saving = None /\ ~ IsSaving(k)
        /\ k.phase = "finish" => k.token = S!Read("token") /\ k.refresh = None
        /\ k.phase = "renewing" => k.refresh = S!Read("refresh")
        /\ k.phase # "exchange"
    BY <1>3 DEF S!Idle, IsSaving
  <2>2. k.phase = "waiting" => FALSE
    BY <1>3 DEF S!Idle
  <2> QED BY <1>1, <1>3, <2>1, <2>2, ReadsAre DEF Granted
<1>6. StandsIn(l, signing[l], content[l], temp, file, S!Read("token"))
      => StandsIn(l, k, content[l], temp, file, S!Read("token"))
  BY <1>1, <1>3, ReadsAre DEF StandsIn, Wrote, Undisturbed, S!Idle, IsSaving
<1>7. Wrote(content[l], signing[l]) => ~ S!Half(l)
  BY <1>1 DEF Wrote, S!Half, IsSaving
<1> QED BY <1>2, <1>3, <1>4, <1>5, <1>6, <1>7, LoginMoves

\* A login that fails before it saves ends, or signs in with a browser.
LEMMA FailedStep ==
  ASSUME SignInInv, NEW l \in Logins, S!Failed(l), UNCHANGED <<S!disk, redirect>>,
         signing[l].phase \in {"renewing", "finish", "opening", "waiting", "exchange"}
  PROVE  SignInInv'
<1>1. SignInTypes /\ signing[l] \in LoginRecord
  BY DEF SignInInv, SignInTypes
<1>2. redirect' \subseteq [of : Logins, to : Logins, who : People \cup {None}]
      /\ UNCHANGED <<file, temp, content, overlapped>>
  BY <1>1 DEF SignInTypes, S!disk
<1>3. PICK k \in {[S!Idle EXCEPT !.mode = "browser", !.phase = "opening"],
                  [S!Idle EXCEPT !.mode = signing[l].mode, !.phase = "failed"]} :
        signing' = [signing EXCEPT ![l] = k]
  BY DEF S!Failed, S!Becomes
<1>4. k \in LoginRecord
  BY <1>1, <1>3 DEF LoginRecord, S!Idle
<1>5. Granted(k)
  BY <1>1, <1>3 DEF Granted, S!Idle, IsSaving
<1>6. StandsIn(l, signing[l], content[l], temp, file, S!Read("token"))
      => StandsIn(l, k, content[l], temp, file, S!Read("token"))
  BY <1>1, <1>3 DEF StandsIn, Wrote, Undisturbed, S!Idle, IsSaving
<1>7. Wrote(content[l], signing[l]) => ~ S!Half(l)
  BY <1>1 DEF Wrote, S!Half, IsSaving
<1> QED BY <1>2, <1>3, <1>4, <1>5, <1>6, <1>7, LoginMoves

\* A login that goes on before it saves, with nothing written yet.
LEMMA GoesOn ==
  ASSUME SignInInv, NEW l \in Logins, NEW k \in LoginRecord, signing' = [signing EXCEPT ![l] = k],
         UNCHANGED <<S!disk, redirect>>, Granted(k), k.phase \notin {"create", "write", "rename"},
         k.mode # "reuse" \/ (k.token = signing[l].token /\ signing[l].phase = "finish"
                              /\ k.mode = signing[l].mode)
                          \/ k.phase \in {"failed", "signed in", "killed"},
         IsSaving(k) => k.saving # "refresh",
         signing[l].phase \in {"idle", "renewing", "finish", "opening", "waiting", "exchange"}
  PROVE  SignInInv'
<1>1. SignInTypes /\ signing[l] \in LoginRecord
  BY DEF SignInInv, SignInTypes
<1>2. redirect' \subseteq [of : Logins, to : Logins, who : People \cup {None}]
      /\ UNCHANGED <<file, temp, content, overlapped>>
  BY <1>1 DEF SignInTypes, S!disk
<1>3. StandsIn(l, signing[l], content[l], temp, file, S!Read("token"))
      => StandsIn(l, k, content[l], temp, file, S!Read("token"))
  BY <1>1 DEF StandsIn, Wrote, Undisturbed, IsSaving
<1>4. Wrote(content[l], signing[l]) => ~ S!Half(l)
  BY <1>1 DEF Wrote, S!Half, IsSaving
<1> QED BY <1>2, <1>3, <1>4, LoginMoves
\* A redirect that a browser makes is to a login, of a login.
LEMMA RedirectStep ==
  ASSUME SignInInv, NEW l \in Logins,
         \/ \E who \in People \cup {None} : S!SignsIn(l, who)
         \/ \E m \in Logins : S!Strays(l, m)
  PROVE  SignInInv'
<1>1. redirect' \subseteq [of : Logins, to : Logins, who : People \cup {None}]
  <2>1. redirect \subseteq [of : Logins, to : Logins, who : People \cup {None}]
    BY DEF SignInInv, SignInTypes
  <2>2. ASSUME NEW who \in People \cup {None}, S!SignsIn(l, who)
        PROVE  redirect' \subseteq [of : Logins, to : Logins, who : People \cup {None}]
    BY <2>1, <2>2 DEF S!SignsIn
  <2>3. ASSUME NEW m \in Logins, S!Strays(l, m)
        PROVE  redirect' \subseteq [of : Logins, to : Logins, who : People \cup {None}]
    <3>1. PICK r \in redirect : redirect' = redirect \cup {[r EXCEPT !.to = m]}
      BY <2>3 DEF S!Strays
    <3>2. r \in [of : Logins, to : Logins, who : People \cup {None}]
      BY <2>1
    <3>3. [r EXCEPT !.to = m] \in [of : Logins, to : Logins, who : People \cup {None}]
      BY <3>2
    <3> QED BY <2>1, <3>1, <3>3
  <2> QED BY <2>2, <2>3
<1>2. UNCHANGED <<file, temp, content, overlapped, signing>>
  BY DEF S!SignsIn, S!Strays, S!disk
<1>3. SignInTypes'
  BY <1>1, <1>2 DEF SignInInv, SignInTypes
<1>4. S!Read("token")' = S!Read("token") /\ S!RenewsTheSamePerson' = S!RenewsTheSamePerson
  BY <1>2 DEF S!Read, S!RenewsTheSamePerson, S!Half
<1> QED BY <1>2, <1>3, <1>4 DEF SignInInv

\* The steps of a login up to its first save, and where it is killed.
LEMMA LoginSteps ==
  ASSUME SignInInv, NEW l \in Logins,
         \/ S!NotStarted(l) \/ S!Renew(l) \/ S!Open(l) \/ S!TimesOut(l) \/ S!Exchange(l)
         \/ S!Finish(l) \/ S!Kill(l) \/ \E r \in redirect : S!Callback(l, r)
  PROVE  SignInInv'
<1>1. SignInTypes /\ signing[l] \in LoginRecord /\ Granted(signing[l])
  BY DEF SignInInv, SignInTypes
<1>2. UNCHANGED <<S!disk, redirect>>
  BY DEF S!NotStarted, S!Renew, S!Open, S!TimesOut, S!Exchange, S!Finish, S!Kill, S!Callback
<1>3. CASE S!NotStarted(l)
  <2> DEFINE k == [signing[l] EXCEPT !.phase = "failed"]
  <2>1. signing' = [signing EXCEPT ![l] = k] /\ signing[l].phase = "idle"
    BY <1>3 DEF S!NotStarted, S!Goes, S!Becomes, S!In
  <2>2. k \in LoginRecord /\ k.phase = "failed"
    BY <1>1 DEF LoginRecord
  <2> HIDE DEF k
  <2>3. Granted(k) /\ ~ IsSaving(k)
    BY <2>2 DEF Granted, IsSaving
  <2> QED BY <1>2, <2>1, <2>2, <2>3, GoesOn
<1>4. CASE S!Renew(l)
  <2>1. signing[l].phase = "renewing"
    BY <1>4 DEF S!Renew, S!In
  <2>2. CASE S!Failed(l)
    BY <1>2, <2>1, <2>2, FailedStep
  <2>3. CASE ~ S!Failed(l)
    <3>1. PICK bound \in BOOLEAN : /\ signing[l].refresh # Partial
              /\ signing' = [signing EXCEPT ![l] = [signing[l] EXCEPT !.phase = "finish",
                               !.token = S!Token(signing[l].refresh, bound)]]
      BY <1>4, <2>3 DEF S!Renew, S!Becomes
    <3> DEFINE k == [signing[l] EXCEPT !.phase = "finish",
                                       !.token = S!Token(signing[l].refresh, bound)]
    <3>2. signing[l].refresh \in People
      BY <1>1, <2>1, <3>1 DEF LoginRecord, Granted
    <3>3. S!Token(signing[l].refresh, bound) \in IdTokens
          /\ S!Token(signing[l].refresh, bound).who = signing[l].refresh
      BY <3>2 DEF S!Token, IdTokens
    <3>4. /\ k \in LoginRecord /\ k.phase = "finish" /\ k.saving = signing[l].saving
          /\ k.mode = signing[l].mode /\ k.refresh = signing[l].refresh
          /\ k.token \in IdTokens /\ k.token.who = k.refresh
      BY <1>1, <3>3 DEF LoginRecord
    <3> HIDE DEF k
    <3>5. k.token # Partial /\ k.mode # "reuse"
      BY <1>1, <2>1, <3>4, FilesAssumption DEF IdTokens, S!SignInAssumption, Granted
    <3>6. Granted(k) /\ ~ IsSaving(k)
      BY <3>4, <3>5 DEF Granted, IsSaving
    <3> QED BY <1>2, <2>1, <3>1, <3>4, <3>5, <3>6, GoesOn DEF k
  <2> QED BY <2>2, <2>3
<1>5. CASE S!Open(l)
  <2>1. signing[l].phase = "opening"
    BY <1>5 DEF S!Open, S!In
  <2>2. CASE S!Failed(l)
    BY <1>2, <2>1, <2>2, FailedStep
  <2>3. CASE ~ S!Failed(l)
    <3> DEFINE k == [signing[l] EXCEPT !.phase = "waiting"]
    <3>1. signing' = [signing EXCEPT ![l] = k]
      BY <1>5, <2>3 DEF S!Open, S!Goes, S!Becomes
    <3>2. k \in LoginRecord /\ k.phase = "waiting" /\ k.mode # "reuse"
      BY <1>1, <2>1 DEF LoginRecord, Granted
    <3> HIDE DEF k
    <3>3. Granted(k) /\ ~ IsSaving(k)
      BY <3>2 DEF Granted, IsSaving
    <3> QED BY <1>2, <2>1, <3>1, <3>2, <3>3, GoesOn
  <2> QED BY <2>2, <2>3
<1>6. CASE S!TimesOut(l)
  BY <1>2, <1>6, FailedStep DEF S!TimesOut, S!In
<1>7. CASE \E r \in redirect : S!Callback(l, r)
  <2>1. PICK r \in redirect : S!Callback(l, r)
    BY <1>7
  <2>2. signing[l].phase = "waiting"
    BY <2>1 DEF S!Callback, S!In
  <2>3. CASE S!Failed(l)
    BY <1>2, <2>2, <2>3, FailedStep
  <2>4. CASE ~ S!Failed(l)
    <3> DEFINE k == [signing[l] EXCEPT !.phase = "exchange", !.token = S!Token(r.who, TRUE)]
    <3>1. r.who # None /\ signing' = [signing EXCEPT ![l] = k]
      BY <2>1, <2>4 DEF S!Callback, S!Becomes
    <3>2. r.who \in People
      BY <1>1, <3>1 DEF SignInTypes
    <3>3. S!Token(r.who, TRUE) \in IdTokens
      BY <3>2 DEF S!Token, IdTokens
    <3>4. k \in LoginRecord /\ k.phase = "exchange" /\ k.mode # "reuse" /\ k.token \in IdTokens
      BY <1>1, <2>2, <3>3 DEF LoginRecord, Granted
    <3> HIDE DEF k
    <3>5. Granted(k) /\ ~ IsSaving(k)
      BY <3>4 DEF Granted, IsSaving
    <3> QED BY <1>2, <2>2, <3>1, <3>4, <3>5, GoesOn
  <2> QED BY <2>3, <2>4
<1>8. CASE S!Exchange(l)
  <2>1. signing[l].phase = "exchange"
    BY <1>8 DEF S!Exchange, S!In
  <2>2. CASE S!Failed(l)
    BY <1>2, <2>1, <2>2, FailedStep
  <2>3. CASE ~ S!Failed(l)
    <3>1. PICK rt \in {None, signing[l].token.who} :
              signing' = [signing EXCEPT ![l] = [signing[l] EXCEPT !.phase = "finish", !.refresh = rt]]
      BY <1>8, <2>3 DEF S!Exchange, S!Becomes
    <3> DEFINE k == [signing[l] EXCEPT !.phase = "finish", !.refresh = rt]
    <3>2. signing[l].token \in IdTokens /\ signing[l].token.who \in People
      BY <1>1, <2>1 DEF Granted, IdTokens
    <3>3. /\ k \in LoginRecord /\ k.phase = "finish" /\ k.saving = signing[l].saving
          /\ k.mode = signing[l].mode /\ k.refresh = rt /\ k.token = signing[l].token
      BY <1>1, <3>2 DEF LoginRecord
    <3> HIDE DEF k
    <3>4. k.token # Partial /\ k.mode # "reuse"
      BY <1>1, <2>1, <3>2, <3>3, FilesAssumption DEF IdTokens, S!SignInAssumption, Granted
    <3>5. Granted(k) /\ ~ IsSaving(k)
      BY <3>2, <3>3, <3>4 DEF Granted, IsSaving
    <3> QED BY <1>2, <2>1, <3>1, <3>3, <3>4, <3>5, GoesOn DEF k
  <2> QED BY <2>2, <2>3
<1>9. CASE S!Finish(l)
  <2>1. signing[l].phase = "finish"
    BY <1>9 DEF S!Finish, S!In
  <2>2. CASE S!Failed(l)
    BY <1>2, <2>1, <2>2, FailedStep
  <2>3. CASE ~ S!Failed(l)
    <3> DEFINE k == [signing[l] EXCEPT !.phase = "unlink", !.saving = "token"]
    <3>1. /\ signing[l].token # Partial /\ signing[l].token.bound
          /\ signing' = [signing EXCEPT ![l] = k]
      BY <1>9, <2>3 DEF S!Finish, S!Becomes, S!Verifies
    <3>2. /\ k \in LoginRecord /\ k.phase = "unlink" /\ k.saving = "token"
          /\ k.mode = signing[l].mode /\ k.refresh = signing[l].refresh /\ k.token = signing[l].token
      BY <1>1 DEF LoginRecord
    <3> HIDE DEF k
    <3>3. Granted(k)
      BY <1>1, <2>1, <3>1, <3>2 DEF Granted, IsSaving, S!Files
    <3> QED BY <1>2, <2>1, <3>1, <3>2, <3>3, GoesOn
  <2> QED BY <2>2, <2>3
<1>10. CASE S!Kill(l)
  <2> DEFINE k == [signing[l] EXCEPT !.phase = "killed"]
  <2>1. signing' = [signing EXCEPT ![l] = k] /\ signing[l].phase # "signed in"
    BY <1>10 DEF S!Kill, S!Goes, S!Becomes
  <2>2. /\ k \in LoginRecord /\ k.phase = "killed" /\ k.mode = signing[l].mode
        /\ k.refresh = signing[l].refresh /\ k.token = signing[l].token
    BY <1>1 DEF LoginRecord
  <2> HIDE DEF k
  <2>3. Granted(k)
    BY <2>2 DEF Granted, IsSaving
  <2>4. StandsIn(l, signing[l], content[l], temp, file, S!Read("token"))
        => StandsIn(l, k, content[l], temp, file, S!Read("token"))
    BY <2>2 DEF StandsIn, Wrote, Undisturbed, IsSaving
  <2>5. S!Half(l) => k.mode # "reuse" /\ (k.refresh = None \/ k.phase # "signed in")
    BY <2>2 DEF S!Half
  <2>6. redirect' \subseteq [of : Logins, to : Logins, who : People \cup {None}]
        /\ UNCHANGED <<file, temp, content, overlapped>>
    BY <1>1, <1>2 DEF SignInTypes, S!disk
  <2> QED BY <2>1, <2>2, <2>3, <2>4, <2>5, <2>6, LoginMoves
<1> QED BY <1>3, <1>4, <1>5, <1>6, <1>7, <1>8, <1>9, <1>10
\* What a save leaves alone: the inodes of the others, whoever they are.
OthersStay(l) ==
  content'[Before] = content[Before] /\ \A m \in Logins \ {l} : content'[m] = content[m]

\* A step on the files, of a login that saves: only one that nobody raced need leave
\* them in order.
LEMMA SaveMoves ==
  ASSUME SignInInv, NEW l \in Logins, S!Saving(l), S!Races,
         NEW k \in LoginRecord, signing' = [signing EXCEPT ![l] = k], Granted(k),
         SignInTypes', OthersStay(l),
         ~ overlapped' =>
            /\ StandsIn(l, k, content'[l], temp', file', S!Read("token")')
            /\ \A f \in S!Files : file'[f] # None => content'[file'[f]][f] # None
            /\ S!RenewsTheSamePerson'
  PROVE  SignInInv'
<1>1. signing'[l] = k /\ \A m \in Logins \ {l} : signing'[m] = signing[m]
  BY DEF SignInInv, SignInTypes
<1>2. \A m \in Logins : Granted(signing'[m])
  BY <1>1 DEF SignInInv
<1>3. ASSUME ~ overlapped', NEW m \in Logins
      PROVE  StandsIn(m, signing'[m], content'[m], temp', file', S!Read("token")')
  <2>1. CASE m = l
    BY <1>1, <1>3, <2>1
  <2>2. CASE m # l
    <3>1. ~ S!Holds(m)
      BY <1>3, <2>2, NobodyElseHolds DEF S!Holds
    <3>2. ~ overlapped
      BY <1>3 DEF S!Races
    <3>3. Wrote(content[m], signing[m])
      BY <3>2 DEF SignInInv, StandsIn
    <3> QED BY <1>1, <2>2, <3>1, <3>3
            DEF OthersStay, StandsIn, Undisturbed, S!Holds, S!Saving, IsSaving
  <2> QED BY <2>1, <2>2
<1>4. content'[Before]["token"] \in IdTokens /\ content'[Before]["token"].bound
  BY DEF SignInInv, OthersStay
<1> QED BY <1>2, <1>3, <1>4 DEF SignInInv

\* While nobody races, the login that saves is in its save, and the files are in order.
LEMMA SavesAlone ==
  ASSUME SignInInv, S!Races, ~ overlapped', NEW l \in Logins
  PROVE  /\ ~ overlapped
         /\ Wrote(content[l], signing[l])
         /\ Undisturbed(l, signing[l], content[l], temp, file, S!Read("token"))
         /\ \A f \in S!Files : file[f] # None => content[file[f]][f] # None
         /\ S!RenewsTheSamePerson
  BY DEF S!Races, SignInInv, StandsIn

\* A step of a save that leaves what is read as it was, and what the login signed in with.
LEMMA ReadsStay ==
  ASSUME S!RenewsTheSamePerson, ~ overlapped, file' = file,
         S!Read("token")' = S!Read("token"), S!Read("refresh")' = S!Read("refresh"),
         \A m \in Logins : S!Half(m) => S!Half(m)' /\ content'[m]["token"] = content[m]["token"]
  PROVE  S!RenewsTheSamePerson'
  BY DEF S!RenewsTheSamePerson

\* The name with .tmp is freed.
LEMMA UnlinkStep ==
  ASSUME SignInInv, NEW l \in Logins, S!Unlink(l)
  PROVE  SignInInv'
<1> DEFINE k == [signing[l] EXCEPT !.phase = "create"]
<1>1. SignInTypes /\ signing[l] \in LoginRecord /\ Granted(signing[l]) /\ signing[l].phase = "unlink"
  BY DEF SignInInv, SignInTypes, S!Unlink, S!In
<1>2. /\ signing' = [signing EXCEPT ![l] = k] /\ S!Races /\ S!Saving(l)
      /\ temp' = [temp EXCEPT ![signing[l].saving] = None]
      /\ UNCHANGED <<file, content, redirect>>
  BY <1>1 DEF S!Unlink, S!Goes, S!Becomes, S!Saving
<1>3. /\ k \in LoginRecord /\ k.phase = "create" /\ k.mode = signing[l].mode
      /\ k.refresh = signing[l].refresh /\ k.token = signing[l].token /\ k.saving = signing[l].saving
  BY <1>1 DEF LoginRecord
<1> HIDE DEF k
<1>4. Granted(k) /\ k.saving \in S!Files
  BY <1>1, <1>3 DEF Granted, IsSaving
<1>5. SignInTypes' /\ OthersStay(l)
  <2>1. overlapped' \in BOOLEAN
    BY <1>2 DEF S!Races
  <2> QED BY <1>1, <1>2, <1>3, <2>1 DEF SignInTypes, OthersStay
<1>6. temp'[k.saving] = None
  BY <1>1, <1>2, <1>3, <1>4 DEF SignInTypes
<1>7. S!Read("token")' = S!Read("token") /\ S!Read("refresh")' = S!Read("refresh")
  BY <1>2 DEF S!Read
<1>8. \A m \in Logins : S!Half(m) => S!Half(m)'
  BY <1>1, <1>2, <1>3 DEF S!Half, SignInTypes
<1>9. ASSUME ~ overlapped'
      PROVE  /\ StandsIn(l, k, content'[l], temp', file', S!Read("token")')
             /\ \A f \in S!Files : file'[f] # None => content'[file'[f]][f] # None
             /\ S!RenewsTheSamePerson'
  <2>1. StandsIn(l, k, content'[l], temp', file', S!Read("token")')
    <3>1. Wrote(content[l], signing[l]) /\ Undisturbed(l, signing[l], content[l], temp, file, S!Read("token"))
      BY <1>2, <1>9, SavesAlone
    <3>2. Wrote(content'[l], k)
      BY <1>1, <1>2, <1>3, <3>1 DEF Wrote, IsSaving
    <3>3. Undisturbed(l, k, content'[l], temp', file', S!Read("token")')
      BY <1>1, <1>2, <1>3, <1>6, <1>7, <3>1 DEF Undisturbed, IsSaving
    <3> QED BY <3>2, <3>3 DEF StandsIn
  <2>2. \A f \in S!Files : file'[f] # None => content'[file'[f]][f] # None
    BY <1>2, <1>9, SavesAlone
  <2> QED BY <1>2, <1>7, <1>8, <1>9, <2>1, <2>2, SavesAlone, ReadsStay
<1> QED BY <1>2, <1>3, <1>4, <1>5, <1>9, SaveMoves
\* A save that fails, which only a race makes of it.
LEMMA SaveFails ==
  ASSUME SignInInv, NEW l \in Logins, S!Failed(l), S!Saving(l), S!Races, overlapped',
         UNCHANGED <<file, temp, content, redirect>>
  PROVE  SignInInv'
<1>1. SignInTypes /\ signing[l] \in LoginRecord
  BY DEF SignInInv, SignInTypes
<1> DEFINE k == [S!Idle EXCEPT !.mode = signing[l].mode, !.phase = "failed"]
<1>2. signing' = [signing EXCEPT ![l] = k]
  BY DEF S!Failed, S!Becomes, S!Saving
<1>3. k \in LoginRecord /\ k.phase = "failed"
  BY <1>1 DEF LoginRecord, S!Idle
<1> HIDE DEF k
<1>4. Granted(k)
  BY <1>3 DEF Granted, IsSaving
<1>5. SignInTypes' /\ OthersStay(l)
  <2>1. overlapped' \in BOOLEAN
    BY DEF S!Races
  <2> QED BY <1>1, <1>2, <1>3, <2>1 DEF SignInTypes, OthersStay
<1> QED BY <1>2, <1>3, <1>4, <1>5, SaveMoves

\* The file with .tmp is created: no other login's is in the way but in a race.
LEMMA CreateStep ==
  ASSUME SignInInv, NEW l \in Logins, S!Create(l)
  PROVE  SignInInv'
<1> DEFINE k == [signing[l] EXCEPT !.phase = "write"]
<1>1. SignInTypes /\ signing[l] \in LoginRecord /\ Granted(signing[l]) /\ signing[l].phase = "create"
  BY DEF SignInInv, SignInTypes, S!Create, S!In
<1>2. S!Races /\ S!Saving(l) /\ UNCHANGED <<file, content, redirect>>
  BY <1>1 DEF S!Create, S!Saving
<1>3. CASE temp[signing[l].saving] # None
  <2>1. S!Failed(l) /\ temp' = temp
    BY <1>3 DEF S!Create
  <2>2. overlapped'
    BY <1>1, <1>2, <1>3, SavesAlone DEF Undisturbed
  <2> QED BY <1>2, <2>1, <2>2, SaveFails
<1>4. CASE temp[signing[l].saving] = None
  <2>1. /\ signing' = [signing EXCEPT ![l] = k]
        /\ temp' = [temp EXCEPT ![signing[l].saving] = l]
    BY <1>4 DEF S!Create, S!Goes, S!Becomes
  <2>2. /\ k \in LoginRecord /\ k.phase = "write" /\ k.mode = signing[l].mode
        /\ k.refresh = signing[l].refresh /\ k.token = signing[l].token /\ k.saving = signing[l].saving
    BY <1>1 DEF LoginRecord
  <2> HIDE DEF k
  <2>3. Granted(k) /\ k.saving \in S!Files
    BY <1>1, <2>2 DEF Granted, IsSaving
  <2>4. SignInTypes' /\ OthersStay(l)
    <3>1. overlapped' \in BOOLEAN
      BY <1>2 DEF S!Races
    <3> QED BY <1>1, <1>2, <2>1, <2>2, <3>1 DEF SignInTypes, OthersStay
  <2>5. temp'[k.saving] = l
    BY <1>1, <2>1, <2>2, <2>3 DEF SignInTypes
  <2>6. S!Read("token")' = S!Read("token") /\ S!Read("refresh")' = S!Read("refresh")
    BY <1>2 DEF S!Read
  <2>7. \A m \in Logins : S!Half(m) => S!Half(m)'
    BY <1>1, <1>2, <2>1, <2>2 DEF S!Half, SignInTypes
  <2>8. ASSUME ~ overlapped'
        PROVE  /\ StandsIn(l, k, content'[l], temp', file', S!Read("token")')
               /\ \A f \in S!Files : file'[f] # None => content'[file'[f]][f] # None
               /\ S!RenewsTheSamePerson'
    <3>1. StandsIn(l, k, content'[l], temp', file', S!Read("token")')
      <4>1. /\ Wrote(content[l], signing[l])
            /\ Undisturbed(l, signing[l], content[l], temp, file, S!Read("token"))
        BY <1>2, <2>8, SavesAlone
      <4>2. Wrote(content'[l], k)
        BY <1>1, <1>2, <2>2, <4>1 DEF Wrote, IsSaving
      <4>3. Undisturbed(l, k, content'[l], temp', file', S!Read("token")')
        BY <1>1, <1>2, <2>2, <2>5, <2>6, <4>1 DEF Undisturbed, IsSaving
      <4> QED BY <4>2, <4>3 DEF StandsIn
    <3>2. \A f \in S!Files : file'[f] # None => content'[file'[f]][f] # None
      BY <1>2, <2>8, SavesAlone
    <3> QED BY <1>2, <2>6, <2>7, <2>8, <3>1, <3>2, SavesAlone, ReadsStay
  <2> QED BY <1>2, <2>1, <2>2, <2>3, <2>4, <2>8, SaveMoves
<1> QED BY <1>3, <1>4

\* What is saved is written to the inode at the name with .tmp, which nobody reads yet.
LEMMA SecretIsWritten ==
  ASSUME SignInInv, NEW l \in Logins, S!Write(l)
  PROVE  SignInInv'
<1> DEFINE k == [signing[l] EXCEPT !.phase = "rename"]
           v == IF signing[l].saving = "token" THEN signing[l].token ELSE signing[l].refresh
<1>1. SignInTypes /\ signing[l] \in LoginRecord /\ Granted(signing[l]) /\ signing[l].phase = "write"
  BY DEF SignInInv, SignInTypes, S!Write, S!In
<1>2. /\ S!Races /\ S!Saving(l) /\ UNCHANGED <<file, temp, redirect>>
      /\ signing' = [signing EXCEPT ![l] = k]
      /\ content' = [content EXCEPT ![l][signing[l].saving] = v]
  BY <1>1 DEF S!Write, S!Saving, S!Goes, S!Becomes
<1>3. /\ k \in LoginRecord /\ k.phase = "rename" /\ k.mode = signing[l].mode
      /\ k.refresh = signing[l].refresh /\ k.token = signing[l].token /\ k.saving = signing[l].saving
  BY <1>1 DEF LoginRecord
<1> HIDE DEF k
<1>4. Granted(k) /\ k.saving \in {"token", "refresh"}
  BY <1>1, <1>3 DEF Granted, IsSaving, S!Files
<1>5. /\ k.saving = "token" => v = k.token /\ v \in IdTokens
      /\ k.saving = "refresh" => v = k.refresh /\ v \in People
  <2>1. k.saving = "refresh" => k.refresh \in People
    BY <1>1, <1>3, <1>4, FilesAssumption DEF Granted, IsSaving, LoginRecord, IdTokens
  <2> QED BY <1>1, <1>3, <1>4, <2>1 DEF Granted, IsSaving
<1>6. v # None
  BY <1>4, <1>5, FilesAssumption DEF S!SignInAssumption, IdTokens
<1> HIDE DEF v
<1>7. /\ content'[l][k.saving] = v
      /\ \A f \in S!Files \ {k.saving} : content'[l][f] = content[l][f]
      /\ OthersStay(l)
      /\ content' = [m \in Logins \cup {Before} |-> [f \in S!Files |-> content'[m][f]]]
  <2>1. Before # l
    BY FilesAssumption DEF S!SignInAssumption
  <2>2. content[l] = [f \in S!Files |-> content[l][f]]
    BY <1>1 DEF SignInTypes
  <2>3. content' = [content EXCEPT ![l] = [content[l] EXCEPT ![k.saving] = v]]
    BY <1>2, <1>3
  <2> DEFINE w == [content[l] EXCEPT ![k.saving] = v]
  <2>4. w = [f \in S!Files |-> w[f]] /\ w[k.saving] = v
        /\ \A f \in S!Files \ {k.saving} : w[f] = content[l][f]
    BY <1>4, <2>2 DEF S!Files
  <2> HIDE DEF w
  <2>5. content'[l] = w /\ \A m \in (Logins \cup {Before}) \ {l} : content'[m] = content[m]
    BY <1>1, <2>3 DEF w, SignInTypes
  <2>6. content' = [m \in Logins \cup {Before} |-> content'[m]]
    BY <1>1, <2>3 DEF SignInTypes
  <2>7. \A m \in Logins \cup {Before} : content'[m] = [f \in S!Files |-> content'[m][f]]
    BY <1>1, <2>4, <2>5 DEF SignInTypes
  <2> QED BY <2>1, <2>4, <2>5, <2>6, <2>7 DEF OthersStay
<1>8. SignInTypes'
  <2>1. overlapped' \in BOOLEAN
    BY <1>2 DEF S!Races
  <2>2. \A m \in Logins \cup {Before} : /\ content'[m]["token"] \in IdTokens \cup {None}
                                         /\ content'[m]["refresh"] \in People \cup {None}
    BY <1>1, <1>4, <1>5, <1>7 DEF SignInTypes, OthersStay, S!Files
  <2>3. signing' \in [Logins -> LoginRecord]
    BY <1>1, <1>2, <1>3 DEF SignInTypes
  <2> QED BY <1>1, <1>2, <1>7, <2>1, <2>2, <2>3 DEF SignInTypes
<1>9. ASSUME ~ overlapped'
      PROVE  /\ StandsIn(l, k, content'[l], temp', file', S!Read("token")')
             /\ \A f \in S!Files : file'[f] # None => content'[file'[f]][f] # None
             /\ S!RenewsTheSamePerson'
  <2>1. /\ ~ overlapped /\ Wrote(content[l], signing[l])
        /\ Undisturbed(l, signing[l], content[l], temp, file, S!Read("token"))
        /\ \A f \in S!Files : file[f] # None => content[file[f]][f] # None
        /\ S!RenewsTheSamePerson
    BY <1>2, <1>9, SavesAlone
  <2>2. content[l][k.saving] = None /\ (k.saving = "token" => content[l]["refresh"] = None)
    BY <1>1, <1>3, <1>4, <2>1 DEF Wrote, IsSaving
  <2>3. file[k.saving] # l /\ S!Files = {"token", "refresh"}
    BY <1>4, <2>1, <2>2, FilesAssumption DEF S!Files, S!SignInAssumption
  <2>4. \A f \in S!Files : file[f] # None => content'[file[f]][f] = content[file[f]][f]
    <3>1. ASSUME NEW f \in S!Files, file[f] # None, file[f] = l
          PROVE  content'[file[f]][f] = content[file[f]][f]
      BY <1>7, <2>3, <3>1
    <3>2. ASSUME NEW f \in S!Files, file[f] # None, file[f] # l
          PROVE  content'[file[f]] = content[file[f]]
      <4>1. file[f] \in Logins \cup {Before}
        BY <1>1, <3>2 DEF SignInTypes
      <4> QED BY <1>7, <3>2, <4>1 DEF OthersStay
    <3> QED BY <3>1, <3>2
  <2>5. S!Read("token")' = S!Read("token") /\ S!Read("refresh")' = S!Read("refresh")
    BY <1>2, <2>3, <2>4 DEF S!Read
  <2>6. StandsIn(l, k, content'[l], temp', file', S!Read("token")')
    <3>1. Wrote(content'[l], k)
      BY <1>1, <1>3, <1>4, <1>5, <1>7, <2>1, <2>2, <2>3 DEF Wrote, IsSaving, Granted
    <3>2. Undisturbed(l, k, content'[l], temp', file', S!Read("token")')
      BY <1>1, <1>2, <1>3, <1>4, <1>6, <1>7, <2>1, <2>3, <2>5 DEF Undisturbed, IsSaving
    <3> QED BY <3>1, <3>2 DEF StandsIn
  <2>7. \A f \in S!Files : file'[f] # None => content'[file'[f]][f] # None
    BY <1>2, <2>1, <2>4
  <2>8. ASSUME NEW m \in Logins, S!Half(m)
        PROVE  S!Half(m)' /\ content'[m]["token"] = content[m]["token"]
    <3>1. CASE m # l
      BY <1>1, <1>2, <1>7, <2>8, <3>1 DEF S!Half, SignInTypes, OthersStay
    <3>2. CASE m = l
      <4>1. k.saving # "token"
        BY <2>2, <2>8, <3>2 DEF S!Half
      <4>2. content'[l]["token"] = content[l]["token"]
        BY <1>7, <2>3, <4>1
      <4>3. signing'[l] = k
        BY <1>1, <1>2 DEF SignInTypes
      <4> QED BY <1>3, <2>8, <3>2, <4>2, <4>3 DEF S!Half
    <3> QED BY <3>1, <3>2
  <2>9. S!RenewsTheSamePerson'
    BY <1>2, <2>1, <2>5, <2>8, ReadsStay
  <2> QED BY <2>6, <2>7, <2>9
<1> QED BY <1>2, <1>3, <1>4, <1>7, <1>8, <1>9, SaveMoves
\* The new ID token is at its name: who signed in is who may renew, but for a sign-in
\* that has its refresh token still to store, or has none.
LEMMA TokenIsKept ==
  ASSUME SignInInv, SignInTypes', NEW l \in Logins, S!Races, ~ overlapped', signing[l].phase = "rename",
         signing[l].saving = "token", file' = [file EXCEPT !["token"] = l], content' = content,
         NEW k \in LoginRecord, signing' = [signing EXCEPT ![l] = k],
         k.token = signing[l].token, k.mode = signing[l].mode, k.refresh = signing[l].refresh,
         \/ k.refresh # None /\ k.phase = "unlink" /\ k.saving = "refresh"
         \/ k.refresh = None /\ k.phase = "signed in" /\ k.saving = "token"
  PROVE  /\ StandsIn(l, k, content'[l], temp', file', S!Read("token")')
         /\ \A f \in S!Files : file'[f] # None => content'[file'[f]][f] # None
         /\ S!RenewsTheSamePerson'
<1>1. SignInTypes /\ signing[l] \in LoginRecord /\ Granted(signing[l])
  BY DEF SignInInv, SignInTypes
<1>2. /\ ~ overlapped /\ Wrote(content[l], signing[l])
      /\ Undisturbed(l, signing[l], content[l], temp, file, S!Read("token"))
      /\ \A f \in S!Files : file[f] # None => content[file[f]][f] # None
      /\ S!RenewsTheSamePerson
  BY SavesAlone
<1>3. content[l]["token"] # None /\ content[l]["token"] = k.token /\ content[l]["refresh"] = None
  BY <1>2 DEF Undisturbed, Wrote, IsSaving
<1>4. l # None
  BY FilesAssumption DEF S!SignInAssumption
<1>5. file'["token"] = l /\ file'["refresh"] = file["refresh"]
  BY <1>1 DEF SignInTypes, S!Files
<1>6. S!Read("token")' = k.token /\ S!Read("refresh")' = S!Read("refresh")
  <2>1. S!Read("token")' = k.token
    BY <1>3, <1>4, <1>5 DEF S!Read
  <2>2. S!Read("refresh")' = S!Read("refresh")
    <3>1. file'["refresh"] = file["refresh"]
      BY <1>5
    <3>2. content'[file'["refresh"]]["refresh"] = content[file["refresh"]]["refresh"]
      BY <3>1
    <3> QED BY ONLY <3>1, <3>2 DEF S!Read
  <2> QED BY <2>1, <2>2
<1>7. Wrote(content'[l], k)
  BY <1>2, <1>3 DEF Wrote, IsSaving
<1>8. k.mode = "reuse" => k.refresh = None
  BY <1>1 DEF Granted, IsSaving
<1>9. Undisturbed(l, k, content'[l], temp', file', S!Read("token")')
  BY <1>3, <1>4, <1>5, <1>8 DEF Undisturbed, IsSaving
<1>10. \A f \in S!Files : file'[f] # None => content'[file'[f]][f] # None
  BY <1>2, <1>3, <1>5 DEF S!Files
<1>11. S!RenewsTheSamePerson'
  <2>1. signing'[l] = k /\ \A m \in Logins \ {l} : signing'[m] = signing[m]
    BY <1>1 DEF SignInTypes
  <2>2. CASE k.mode # "reuse"
    <3>1. S!Half(l)' /\ content'[l]["token"] = S!Read("token")'
      BY <1>3, <1>6, <2>1, <2>2 DEF S!Half
    <3> QED BY <3>1 DEF S!RenewsTheSamePerson
  <2>3. CASE k.mode = "reuse"
    <3>1. file["token"] # None /\ S!Read("token") = k.token
      BY <1>2, <2>3 DEF Undisturbed, IsSaving
    <3>2. \A m \in Logins : S!Half(m) => S!Half(m)'
      BY <2>1, <2>3 DEF S!Half
    <3> QED BY <1>2, <1>5, <1>6, <3>1, <3>2 DEF S!RenewsTheSamePerson
  <2> QED BY <2>2, <2>3
<1> QED BY <1>7, <1>9, <1>10, <1>11 DEF StandsIn

\* The refresh token that came with the ID token kept is at its name.
LEMMA RefreshIsKept ==
  ASSUME SignInInv, SignInTypes', NEW l \in Logins, S!Races, ~ overlapped', signing[l].phase = "rename",
         signing[l].saving = "refresh", file' = [file EXCEPT !["refresh"] = l], content' = content,
         NEW k \in LoginRecord, signing' = [signing EXCEPT ![l] = k], k.phase = "signed in",
         k.token = signing[l].token, k.mode = signing[l].mode, k.refresh = signing[l].refresh
  PROVE  /\ StandsIn(l, k, content'[l], temp', file', S!Read("token")')
         /\ \A f \in S!Files : file'[f] # None => content'[file'[f]][f] # None
         /\ S!RenewsTheSamePerson'
<1>1. SignInTypes /\ signing[l] \in LoginRecord /\ Granted(signing[l])
  BY DEF SignInInv, SignInTypes
<1>2. /\ ~ overlapped /\ Wrote(content[l], signing[l])
      /\ Undisturbed(l, signing[l], content[l], temp, file, S!Read("token"))
      /\ \A f \in S!Files : file[f] # None => content[file[f]][f] # None
  BY SavesAlone
<1>3. /\ content[l]["token"] # None /\ content[l]["token"] = k.token
      /\ content[l]["refresh"] # None /\ content[l]["refresh"] = k.refresh
      /\ file["token"] = l
  BY <1>2 DEF Undisturbed, Wrote, IsSaving
<1>4. l # None /\ k.refresh = k.token.who
  BY <1>1, <1>3, FilesAssumption DEF S!SignInAssumption, Granted, IsSaving
<1>5. file'["refresh"] = l /\ file'["token"] = l
  BY <1>1, <1>3 DEF SignInTypes, S!Files
<1>6. S!Read("token")' = k.token /\ S!Read("refresh")' = k.refresh
  BY <1>3, <1>4, <1>5 DEF S!Read
<1>7. Wrote(content'[l], k)
  BY <1>2, <1>3 DEF Wrote, IsSaving
<1>8. Undisturbed(l, k, content'[l], temp', file', S!Read("token")')
  BY DEF Undisturbed, IsSaving
<1>9. \A f \in S!Files : file'[f] # None => content'[file'[f]][f] # None
  BY <1>2, <1>3, <1>5 DEF S!Files
<1>10. S!RenewsTheSamePerson'
  BY <1>4, <1>6 DEF S!RenewsTheSamePerson
<1> QED BY <1>7, <1>8, <1>9, <1>10 DEF StandsIn

\* The inode at the name with .tmp comes to be at the name.
LEMMA RenameStep ==
  ASSUME SignInInv, NEW l \in Logins, S!Rename(l)
  PROVE  SignInInv'
<1> DEFINE k == S!Saved(l)
<1>1. SignInTypes /\ signing[l] \in LoginRecord /\ Granted(signing[l]) /\ signing[l].phase = "rename"
  BY DEF SignInInv, SignInTypes, S!Rename, S!In
<1>2. S!Races /\ S!Saving(l) /\ UNCHANGED <<content, redirect>> /\ signing[l].saving \in S!Files
  BY <1>1 DEF S!Rename, S!Saving, Granted, IsSaving
<1>3. CASE temp[signing[l].saving] = None
  <2>1. S!Failed(l) /\ UNCHANGED <<file, temp>>
    BY <1>3 DEF S!Rename
  <2>2. l # None
    BY FilesAssumption DEF S!SignInAssumption
  <2>3. overlapped'
    BY <1>1, <1>2, <1>3, <2>2, SavesAlone DEF Undisturbed
  <2> QED BY <1>2, <2>1, <2>3, SaveFails
<1>4. CASE temp[signing[l].saving] # None
  <2>1. /\ file' = [file EXCEPT ![signing[l].saving] = temp[signing[l].saving]]
        /\ temp' = [temp EXCEPT ![signing[l].saving] = None]
        /\ signing' = [signing EXCEPT ![l] = k]
    BY <1>4 DEF S!Rename, S!Becomes
  <2>2. k \in LoginRecord /\ k.mode = signing[l].mode
        /\ k.refresh = signing[l].refresh /\ k.token = signing[l].token
    BY <1>1 DEF LoginRecord, S!Saved
  <2>3. IF signing[l].saving = "token" /\ k.refresh # None
        THEN k.phase = "unlink" /\ k.saving = "refresh"
        ELSE k.phase = "signed in" /\ k.saving = signing[l].saving
    BY <1>1 DEF LoginRecord, S!Saved
  <2> HIDE DEF k
  <2>4. Granted(k)
    BY <1>1, <2>2, <2>3 DEF Granted, IsSaving, S!Files
  <2>5. SignInTypes' /\ OthersStay(l)
    <3>1. overlapped' \in BOOLEAN
      BY <1>2 DEF S!Races
    <3> QED BY <1>1, <1>2, <2>1, <2>2, <3>1 DEF SignInTypes, OthersStay
  <2>6. ASSUME ~ overlapped'
        PROVE  /\ StandsIn(l, k, content'[l], temp', file', S!Read("token")')
               /\ \A f \in S!Files : file'[f] # None => content'[file'[f]][f] # None
               /\ S!RenewsTheSamePerson'
    <3>1. temp[signing[l].saving] = l
      BY <1>1, <1>2, <2>6, SavesAlone DEF Undisturbed
    <3>2. CASE signing[l].saving = "token"
      BY <1>1, <1>2, <2>1, <2>2, <2>3, <2>5, <2>6, <3>1, <3>2, TokenIsKept
    <3>3. CASE signing[l].saving = "refresh"
      BY <1>1, <1>2, <2>1, <2>2, <2>3, <2>5, <2>6, <3>1, <3>3, RefreshIsKept
    <3> QED BY <1>2, <3>2, <3>3 DEF S!Files
  <2> QED BY <1>2, <2>1, <2>2, <2>4, <2>5, <2>6, SaveMoves
<1> QED BY <1>3, <1>4

\* Every step of a sign-in.
LEMMA SignInStep == SignInInv /\ [S!Next]_(S!vars) => SignInInv'
<1> SUFFICES ASSUME SignInInv, [S!Next]_(S!vars) PROVE SignInInv'
  OBVIOUS
<1>1. CASE UNCHANGED S!vars
  <2>1. S!Read("token")' = S!Read("token") /\ S!RenewsTheSamePerson' = S!RenewsTheSamePerson
    BY <1>1 DEF S!vars, S!Read, S!RenewsTheSamePerson, S!Half
  <2> QED BY <1>1, <2>1 DEF S!vars, SignInInv, SignInTypes
<1>2. CASE S!Next
  BY <1>2, StartStep, LoginSteps, RedirectStep, UnlinkStep, CreateStep, SecretIsWritten, RenameStep
  DEF S!Next
<1> QED BY <1>1, <1>2

\* The files there are to begin with are one sign-in's.
LEMMA InitSignIn == S!Init => SignInInv
<1> SUFFICES ASSUME S!Init PROVE SignInInv
  OBVIOUS
<1>1. PICK who \in People : content = [l \in Logins \cup {Before} |-> [f \in S!Files |->
            IF l # Before THEN None ELSE IF f = "token" THEN S!Token(who, TRUE) ELSE who]]
  BY DEF S!Init
<1>2. Before \notin Logins /\ None \notin Logins \cup {Before} /\ None \notin People
  BY FilesAssumption DEF S!SignInAssumption
<1>3. S!Token(who, TRUE) \in IdTokens /\ S!Token(who, TRUE).who = who /\ S!Token(who, TRUE).bound
  BY DEF S!Token, IdTokens
<1>4. S!Token(who, TRUE) # None
  BY <1>3, FilesAssumption DEF S!SignInAssumption, IdTokens
<1>5. /\ \A l \in Logins : content[l] = [f \in S!Files |-> None]
      /\ content[Before]["token"] = S!Token(who, TRUE) /\ content[Before]["refresh"] = who
  BY <1>1, <1>2 DEF S!Files
<1>6. content = [l \in Logins \cup {Before} |-> [f \in S!Files |-> content[l][f]]]
  <2> DEFINE c == [l \in Logins \cup {Before} |-> [f \in S!Files |->
            IF l # Before THEN None ELSE IF f = "token" THEN S!Token(who, TRUE) ELSE who]]
  <2>1. \A l \in Logins \cup {Before} : c[l] = [f \in S!Files |-> c[l][f]]
    OBVIOUS
  <2> QED BY <1>1, <2>1
<1>7. /\ file \in [S!Files -> {Before, None}] /\ temp = [f \in S!Files |-> None]
      /\ signing = [l \in Logins |-> S!Idle] /\ redirect = {} /\ overlapped = FALSE
  BY DEF S!Init
<1>8. S!Idle \in LoginRecord /\ S!Idle.phase = "idle"
  BY DEF S!Idle, LoginRecord
<1>9. SignInTypes
  <2>1. \A l \in Logins \cup {Before} : /\ content[l]["token"] \in IdTokens \cup {None}
                                         /\ content[l]["refresh"] \in People \cup {None}
    BY <1>3, <1>5 DEF S!Files
  <2>2. signing \in [Logins -> LoginRecord]
    BY <1>7, <1>8
  <2>3. /\ file \in [S!Files -> Logins \cup {Before, None}]
        /\ temp \in [S!Files -> Logins \cup {None}]
        /\ overlapped \in BOOLEAN
        /\ redirect \subseteq [of : Logins, to : Logins, who : People \cup {None}]
    BY <1>7
  <2> QED BY <1>6, <2>1, <2>2, <2>3 DEF SignInTypes
<1>10. Granted(S!Idle)
  BY <1>8 DEF Granted, IsSaving
<1>11. \A l \in Logins : StandsIn(l, signing[l], content[l], temp, file, S!Read("token"))
  BY <1>5, <1>7, <1>8 DEF StandsIn, Wrote, Undisturbed, IsSaving, S!Files
<1>12. \A f \in S!Files : file[f] # None => file[f] = Before /\ content[file[f]][f] # None
  BY <1>2, <1>4, <1>5, <1>7 DEF S!Files
<1>13. S!RenewsTheSamePerson
  BY <1>3, <1>5, <1>12 DEF S!RenewsTheSamePerson, S!Read, S!Files
<1> QED BY <1>3, <1>5, <1>7, <1>9, <1>10, <1>11, <1>12, <1>13 DEF SignInInv

\* What is kept is whole, this node's, and one person's.
LEMMA SignInStands == SignInInv => S!OneSignInIsKept
<1> SUFFICES ASSUME SignInInv PROVE S!OneSignInIsKept
  OBVIOUS
<1>1. SignInTypes
  BY DEF SignInInv
<1>2. S!TypeOK
  BY <1>1 DEF SignInTypes, S!TypeOK, LoginRecord
<1>3. ASSUME ~ overlapped PROVE S!RenewsTheSamePerson
  BY <1>3 DEF SignInInv
<1>4. ASSUME ~ overlapped, file["token"] # None
      PROVE  /\ S!Read("token") # Partial /\ S!Read("token").bound
             /\ file["token"] # Before => signing[file["token"]].token = S!Read("token")
  <2>1. content[file["token"]]["token"] # None /\ file["token"] \in Logins \cup {Before}
    BY <1>1, <1>4 DEF SignInInv, SignInTypes, S!Files
  <2>2. S!Read("token") = content[file["token"]]["token"]
    BY <1>4, <2>1 DEF S!Read
  <2>3. content[file["token"]]["token"] \in IdTokens
    BY <1>1, <2>1 DEF SignInTypes
  <2>4. S!Read("token") # Partial
    BY <2>2, <2>3, FilesAssumption DEF S!SignInAssumption, IdTokens
  <2>5. CASE file["token"] = Before
    BY <2>2, <2>4, <2>5 DEF SignInInv
  <2>6. CASE file["token"] # Before
    BY <1>4, <2>1, <2>2, <2>4, <2>6 DEF SignInInv, StandsIn, Wrote
  <2> QED BY <2>5, <2>6
<1>5. S!OnlyOursIsKept
  BY <1>4 DEF S!OnlyOursIsKept
<1>6. S!RenewsTheSamePerson
  BY <1>3 DEF S!RenewsTheSamePerson
<1> QED BY <1>2, <1>5, <1>6 DEF S!OneSignInIsKept

-----------------------------------------------------------------------------
(* An admin's edits (PolicyEdits). *)

\* The functions on some of X, into Y.
Partials(X, Y) == UNION {[D -> Y] : D \in SUBSET X}

\* What a policy says.
Contents ==
  [directories : SUBSET Machines, roles : Partials(RoleNames, SUBSET E!Matchers),
   services : Partials(ServiceNames, E!Services), bans : SUBSET Machines,
   person_bans : SUBSET E!Persons, issuers : SUBSET IdPs, beat : Nat, fresh : Nat]

\* A function is one of them by its domain and its values.
LEMMA PartialsAre ==
  ASSUME NEW X, NEW Y, NEW f
  PROVE  f \in Partials(X, Y) <=> /\ DOMAIN f \in SUBSET X
                                  /\ f = [x \in DOMAIN f |-> f[x]]
                                  /\ \A x \in DOMAIN f : f[x] \in Y
<1>1. ASSUME f \in Partials(X, Y)
      PROVE  DOMAIN f \in SUBSET X /\ f = [x \in DOMAIN f |-> f[x]] /\ \A x \in DOMAIN f : f[x] \in Y
  <2>1. PICK D \in SUBSET X : f \in [D -> Y]
    BY <1>1 DEF Partials
  <2> QED BY <2>1
<1>2. ASSUME DOMAIN f \in SUBSET X, f = [x \in DOMAIN f |-> f[x]], \A x \in DOMAIN f : f[x] \in Y
      PROVE  f \in Partials(X, Y)
  <2>1. f \in [DOMAIN f -> Y]
    BY <1>2
  <2> QED BY <1>2, <2>1 DEF Partials
<1> QED BY <1>1, <1>2

\* Adding to such a function.
LEMMA WithIsPartial ==
  ASSUME NEW X, NEW Y, NEW f \in Partials(X, Y), NEW x \in X, NEW y \in Y
  PROVE  E!With(f, x, y) \in Partials(X, Y)
<1>1. DOMAIN f \in SUBSET X /\ \A z \in DOMAIN f : f[z] \in Y
  BY PartialsAre
<1> DEFINE g == E!With(f, x, y)
<1>2. DOMAIN g = DOMAIN f \cup {x} /\ g = [z \in DOMAIN g |-> g[z]]
  BY DEF E!With
<1>3. \A z \in DOMAIN g : g[z] \in Y
  BY <1>1 DEF E!With
<1> HIDE DEF g
<1>4. g \in Partials(X, Y)
  BY <1>1, <1>2, <1>3, PartialsAre
<1> QED BY <1>4 DEF g

\* Taking from such a function.
LEMMA WithoutIsPartial ==
  ASSUME NEW X, NEW Y, NEW f \in Partials(X, Y), NEW x
  PROVE  E!Without(f, x) \in Partials(X, Y)
<1>1. DOMAIN f \in SUBSET X /\ \A z \in DOMAIN f : f[z] \in Y
  BY PartialsAre
<1> DEFINE g == E!Without(f, x)
<1>2. DOMAIN g = DOMAIN f \ {x} /\ g = [z \in DOMAIN g |-> g[z]]
  BY DEF E!Without
<1>3. \A z \in DOMAIN g : g[z] \in Y
  BY <1>1 DEF E!Without
<1> HIDE DEF g
<1>4. g \in Partials(X, Y)
  BY <1>1, <1>2, <1>3, PartialsAre
<1> QED BY <1>4 DEF g

\* An option that was given is one of its values.
LEMMA GivenIs ==
  ASSUME NEW X, NEW option \in E!Options(X), NEW old \in X
  PROVE  E!Given(option, old) \in X
<1>1. CASE option = {}
  BY <1>1 DEF E!Given
<1>2. CASE option # {}
  <2>1. PICK x \in X : option = {x}
    BY <1>2 DEF E!Options
  <2> QED BY <2>1 DEF E!Given
<1> QED BY <1>1, <1>2

\* What a command says of the services, after it and before.
LEMMA AppliedIsService ==
  ASSUME NEW e \in E!EditLines, e.do \in {"service add", "service set"}, NEW svc \in E!Services
  PROVE  e.name \in ServiceNames /\ E!Apply(e, svc) \in E!Services
<1>1. /\ e.name \in ServiceNames /\ e.allow \in E!Options(SUBSET RoleNames)
      /\ e.hosts \in E!Options(SUBSET Machines)
  BY DEF E!EditLines
<1>2. svc.allow \in SUBSET RoleNames /\ svc.hosts \in SUBSET Machines
  BY DEF E!Services
<1>3. E!Given(e.allow, svc.allow) \in SUBSET RoleNames
  BY <1>1, <1>2, GivenIs
<1>4. E!Given(e.hosts, svc.hosts) \in SUBSET Machines
  BY <1>1, <1>2, GivenIs
<1> QED BY <1>1, <1>3, <1>4 DEF E!Apply, E!Services

\* An edit of the services.
LEMMA ServiceEdits ==
  ASSUME NEW c \in Contents, NEW e \in E!EditLines,
         NEW n, \/ e.do = "service add" /\ n \in E!ServiceAdd(c, e)
                \/ e.do = "service set" /\ n \in E!ServiceSet(c, e)
                \/ e.do = "service rm" /\ n \in E!ServiceRm(c, e)
  PROVE  n \in Contents /\ c.bans = n.bans
<1>1. c.services \in Partials(ServiceNames, E!Services)
  BY DEF Contents
<1>2. PICK f : n = [c EXCEPT !.services = f] /\ f \in Partials(ServiceNames, E!Services)
  <2>1. CASE e.do = "service add"
    <3> DEFINE svc == [allow |-> {}, hosts |-> {}]
    <3>1. svc \in E!Services
      BY DEF E!Services
    <3>2. n = [c EXCEPT !.services = E!With(c.services, e.name, E!Apply(e, svc))]
      BY <2>1 DEF E!ServiceAdd
    <3> HIDE DEF svc
    <3> QED BY <1>1, <2>1, <3>1, <3>2, AppliedIsService, WithIsPartial
  <2>2. CASE e.do = "service set"
    <3> DEFINE svc == c.services[e.name]
    <3>1. /\ e.name \in DOMAIN c.services
          /\ n = [c EXCEPT !.services = E!With(c.services, e.name, E!Apply(e, svc))]
      BY <2>2 DEF E!ServiceSet
    <3>2. svc \in E!Services
      BY <1>1, <3>1, PartialsAre
    <3> HIDE DEF svc
    <3> QED BY <1>1, <2>2, <3>1, <3>2, AppliedIsService, WithIsPartial
  <2>3. CASE e.do = "service rm"
    <3>1. n = [c EXCEPT !.services = E!Without(c.services, e.name)]
      BY <2>3 DEF E!ServiceRm
    <3> QED BY <1>1, <3>1, WithoutIsPartial
  <2> QED BY <2>1, <2>2, <2>3
<1> QED BY <1>2 DEF Contents

\* An edit of the roles.
LEMMA RoleEdits ==
  ASSUME NEW c \in Contents, NEW e \in E!EditLines,
         NEW n, \/ e.do = "role set" /\ n \in E!RoleSet(c, e)
                \/ e.do = "role rm" /\ n \in E!RoleRm(c, e)
  PROVE  n \in Contents /\ c.bans = n.bans
<1>1. c.roles \in Partials(RoleNames, SUBSET E!Matchers)
  BY DEF Contents
<1>2. PICK f : n = [c EXCEPT !.roles = f] /\ f \in Partials(RoleNames, SUBSET E!Matchers)
  <2>1. CASE e.do = "role set"
    <3>1. n = [c EXCEPT !.roles = E!With(c.roles, e.name, e.matchers)]
      BY <2>1 DEF E!RoleSet
    <3>2. e.name \in RoleNames /\ e.matchers \in SUBSET E!Matchers
      BY <2>1 DEF E!EditLines
    <3> QED BY <1>1, <3>1, <3>2, WithIsPartial
  <2>2. CASE e.do = "role rm"
    <3>1. n = [c EXCEPT !.roles = E!Without(c.roles, e.name)]
      BY <2>2 DEF E!RoleRm
    <3> QED BY <1>1, <3>1, WithoutIsPartial
  <2> QED BY <2>1, <2>2
<1> QED BY <1>2 DEF Contents

\* A node is banned: the services are there, without it.
LEMMA BanEdits ==
  ASSUME NEW c \in Contents, NEW e \in E!EditLines, e.do = "ban", NEW n \in E!Ban(c, e)
  PROVE  n \in Contents /\ c.bans \subseteq n.bans
<1> DEFINE f == [s \in DOMAIN c.services |-> [c.services[s] EXCEPT !.hosts = @ \ {e.name}]]
<1>1. /\ c.services \in Partials(ServiceNames, E!Services)
      /\ c.bans \subseteq Machines /\ c.directories \subseteq Machines
  BY DEF Contents
<1>2. e.name \in Machines
  BY DEF E!EditLines
<1>3. n = [c EXCEPT !.bans = c.bans \cup {e.name}, !.directories = c.directories \ {e.name},
                    !.services = f]
  BY DEF E!Ban
<1>4. \A s \in DOMAIN c.services : c.services[s] \in E!Services
  BY <1>1, PartialsAre
<1>5. DOMAIN f = DOMAIN c.services /\ f = [s \in DOMAIN f |-> f[s]]
  OBVIOUS
<1>6. \A s \in DOMAIN f : f[s] \in E!Services
  BY <1>4 DEF E!Services
<1>7. DOMAIN c.services \in SUBSET ServiceNames
  BY <1>1, PartialsAre
<1> HIDE DEF f
<1>8. f \in Partials(ServiceNames, E!Services)
  BY <1>5, <1>6, <1>7, PartialsAre
<1> QED BY <1>1, <1>2, <1>3, <1>8 DEF Contents

\* The options of a setting are natural numbers.
LEMMA SmallNumbers == 0 .. 3 \subseteq Nat
  OBVIOUS

\* An edit of one of the sets, or of the settings.
LEMMA OtherEdits ==
  ASSUME NEW c \in Contents, NEW e \in E!EditLines,
         NEW n, \/ e.do = "issuer set" /\ n \in E!IssuerSet(c, e)
                \/ e.do = "issuer rm" /\ n \in E!IssuerRm(c, e)
                \/ e.do = "directory add" /\ n \in E!DirectoryAdd(c, e)
                \/ e.do = "directory rm" /\ n \in E!DirectoryRm(c, e)
                \/ e.do = "unban" /\ n \in E!Unban(c, e)
                \/ e.do = "ban person" /\ n \in E!BanPerson(c, e)
                \/ e.do = "unban person" /\ n \in E!UnbanPerson(c, e)
                \/ e.do = "settings" /\ n \in E!SettingsEdit(c, e)
  PROVE  /\ n \in Contents
         /\ c.bans = n.bans \/ (n.directories = c.directories /\ n.services = c.services)
<1>1. CASE e.do = "issuer set" \/ e.do = "issuer rm"
  <2>1. e.name \in IdPs
    BY <1>1 DEF E!EditLines
  <2>2. PICK x \in SUBSET IdPs : n = [c EXCEPT !.issuers = x]
    <3>1. c.issuers \in SUBSET IdPs
      BY DEF Contents
    <3>2. CASE e.do = "issuer set"
      BY <2>1, <3>1, <3>2 DEF E!IssuerSet
    <3>3. CASE e.do = "issuer rm"
      BY <3>1, <3>3 DEF E!IssuerRm
    <3> QED BY <1>1, <3>2, <3>3
  <2> QED BY <2>2 DEF Contents
<1>2. CASE e.do \in {"directory add", "directory rm", "unban"}
  <2>1. e.name \in Machines
    BY <1>2 DEF E!EditLines
  <2>2. c.directories \in SUBSET Machines /\ c.bans \in SUBSET Machines
    BY DEF Contents
  <2>3. CASE e.do # "unban"
    <3>1. PICK x \in SUBSET Machines : n = [c EXCEPT !.directories = x]
      BY <1>2, <2>1, <2>2, <2>3 DEF E!DirectoryAdd, E!DirectoryRm
    <3> QED BY <3>1 DEF Contents
  <2>4. CASE e.do = "unban"
    <3>1. PICK x \in SUBSET Machines : n = [c EXCEPT !.bans = x]
      BY <2>2, <2>4 DEF E!Unban
    <3> QED BY <3>1 DEF Contents
  <2> QED BY <2>3, <2>4
<1>3. CASE e.do \in {"ban person", "unban person"}
  <2>1. e.name \in E!Persons
    BY <1>3 DEF E!EditLines
  <2>2. PICK x \in SUBSET E!Persons : n = [c EXCEPT !.person_bans = x]
    <3>1. c.person_bans \in SUBSET E!Persons
      BY DEF Contents
    <3>2. CASE e.do = "ban person"
      BY <2>1, <3>1, <3>2 DEF E!BanPerson
    <3>3. CASE e.do = "unban person"
      BY <3>1, <3>3 DEF E!UnbanPerson
    <3> QED BY <1>3, <3>2, <3>3
  <2> QED BY <2>2 DEF Contents
<1>4. CASE e.do = "settings"
  <2>1. e.beat \in E!Options(0 .. 3) /\ e.fresh \in E!Options(0 .. 3)
    BY <1>4 DEF E!EditLines
  <2>2. e.beat \in E!Options(Nat) /\ e.fresh \in E!Options(Nat)
    <3>1. 0 .. 3 \subseteq Nat
      BY SmallNumbers
    <3>2. \A option \in E!Options(0 .. 3) : option \in E!Options(Nat)
      <4> DEFINE few == 0 .. 3
      <4> HIDE DEF few
      <4>1. ASSUME few \subseteq Nat PROVE \A option \in E!Options(few) : option \in E!Options(Nat)
        BY <4>1 DEF E!Options
      <4> QED BY <3>1, <4>1 DEF few
    <3> QED BY <2>1, <3>2
  <2>3. c.beat \in Nat /\ c.fresh \in Nat
    BY DEF Contents
  <2>4. E!Given(e.beat, c.beat) \in Nat /\ E!Given(e.fresh, c.fresh) \in Nat
    BY <2>2, <2>3, GivenIs
  <2>5. n = [c EXCEPT !.beat = E!Given(e.beat, c.beat), !.fresh = E!Given(e.fresh, c.fresh)]
    BY <1>4 DEF E!SettingsEdit
  <2> QED BY <2>4, <2>5 DEF Contents
<1> QED BY <1>1, <1>2, <1>3, <1>4

\* An edit makes contents of contents, and lifts no ban but by itself.
LEMMA ChangesAreContents ==
  ASSUME NEW c \in Contents, NEW e \in E!EditLines, NEW n \in E!Change(c, e)
  PROVE  /\ n \in Contents
         /\ c.bans \subseteq n.bans \/ (n.directories = c.directories /\ n.services = c.services)
<1>1. e.do \in {"service add", "service set", "service rm", "role set", "role rm", "issuer set",
                "issuer rm", "directory add", "directory rm", "ban", "unban", "ban person",
                "unban person", "settings"}
  BY DEF E!EditLines
<1>2. CASE e.do \in {"service add", "service set", "service rm"}
  BY <1>2, ServiceEdits DEF E!Change
<1>3. CASE e.do \in {"role set", "role rm"}
  BY <1>3, RoleEdits DEF E!Change
<1>4. CASE e.do = "ban"
  BY <1>4, BanEdits DEF E!Change
<1>5. CASE e.do \in {"issuer set", "issuer rm", "directory add", "directory rm", "unban",
                     "ban person", "unban person", "settings"}
  BY <1>5, OtherEdits DEF E!Change
<1> QED BY <1>1, <1>2, <1>3, <1>4, <1>5

\* A policy signed over another: one entry of each service, signed at a version that
\* was reached.
SignedPolicies ==
  [version : Nat, content : Contents, entries : Partials(ServiceNames, Nat)]

Signed(p) ==
  /\ p \in SignedPolicies
  /\ DOMAIN p.entries = DOMAIN p.content.services
  /\ \A s \in DOMAIN p.entries : p.entries[s] \in 1 .. p.version

Sound(p) == Signed(p) /\ p.version # 0 /\ E!Validate(p.content)

\* What is signed over a policy, of valid contents, is sound, and its entries are new or
\* the ones that were there.
LEMMA SignedIsSound ==
  ASSUME NEW b, Signed(b), NEW n \in Contents, E!Validate(n)
  PROVE  LET q == E!SignAfter(n, b.version + 1, b)
         IN  /\ Sound(q) /\ q.version = b.version + 1 /\ q.content = n
             /\ \A x \in E!EntriesOf(q) : x.version = q.version \/ x \in E!EntriesOf(b)
<1> DEFINE v == b.version + 1
           f == [s \in DOMAIN n.services |->
                  IF E!SameEntry(n, b, s, v) THEN b.entries[s] ELSE v]
           q == E!SignAfter(n, v, b)
<1>1. b.version \in Nat /\ b.entries \in Partials(ServiceNames, Nat)
      /\ DOMAIN n.services \in SUBSET ServiceNames
  <2>1. n.services \in Partials(ServiceNames, E!Services)
    BY DEF Contents
  <2> QED BY <2>1, PartialsAre DEF Signed, SignedPolicies
<1>2. q = [version |-> v, content |-> n, entries |-> f]
  BY DEF E!SignAfter
<1>3. DOMAIN f = DOMAIN n.services /\ f = [s \in DOMAIN f |-> f[s]]
  OBVIOUS
<1>4. v \in Nat \ {0}
  BY <1>1
<1>5. \A s \in DOMAIN f : f[s] \in 1 .. v
      /\ (f[s] = v \/ (s \in DOMAIN b.entries /\ f[s] = b.entries[s]
                       /\ b.content.services[s] = n.services[s]))
  <2> TAKE s \in DOMAIN f
  <2>1. CASE E!SameEntry(n, b, s, v)
    <3>1. s \in DOMAIN b.entries /\ b.content.services[s] = n.services[s] /\ f[s] = b.entries[s]
      BY <2>1 DEF E!SameEntry
    <3>2. b.entries[s] \in 1 .. b.version
      BY <3>1 DEF Signed
    <3> HIDE DEF f
    <3> QED BY <1>1, <3>1, <3>2
  <2>2. CASE ~ E!SameEntry(n, b, s, v)
    <3>1. f[s] = v
      BY <2>2
    <3> HIDE DEF f
    <3> QED BY <1>1, <3>1
  <2> QED BY <2>1, <2>2
<1> HIDE DEF f, v
<1>6. \A s \in DOMAIN f : f[s] \in Nat
  BY <1>4, <1>5
<1>7. f \in Partials(ServiceNames, Nat)
  BY <1>1, <1>3, <1>6, PartialsAre
<1>8. q \in SignedPolicies /\ q.version = v /\ q.content = n /\ q.entries = f
  BY <1>2, <1>4, <1>7 DEF SignedPolicies
<1>9. Sound(q)
  BY <1>3, <1>4, <1>5, <1>8 DEF Sound, Signed
<1>10. \A x \in E!EntriesOf(q) : x.version = q.version \/ x \in E!EntriesOf(b)
  BY <1>3, <1>5, <1>8 DEF E!EntriesOf
<1> QED BY <1>8, <1>9, <1>10 DEF v

\* What a command holds, at each step of its own.
IsCommand(r) ==
  \/ r = E!Idle
  \/ r \in [at : {"checked"}, edit : Edits]
  \/ r \in [at : {"listed"}, edit : Edits, listed : BOOLEAN]
  \/ r \in [at : {"signed"}, base : {r.base}, next : {r.next}]

\* A command that has signed did it over a policy that was stored, with what it removed
\* still out.
CommandStands(r) ==
  r.at = "signed" =>
    /\ Sound(r.base) /\ Sound(r.next) /\ r.next.version = r.base.version + 1
    /\ r.base.version <= stored.version
    /\ r.base.version = stored.version => r.base = stored
    /\ \A x \in E!EntriesOf(r.next) : x.version = r.next.version \/ x \in E!EntriesOf(r.base)
    /\ \A n \in r.base.content.bans : ~ E!Serves(r.next.content, n)

EntriesHaveNumbers == \A x \in signed : x.version \in Nat

EditsInv ==
  /\ Sound(stored) /\ stored.version <= MaxVersion
  /\ cmd = [a \in Admins |-> cmd[a]]
  /\ \A a \in Admins : IsCommand(cmd[a]) /\ CommandStands(cmd[a])
  /\ E!EntriesOf(stored) \subseteq signed
  /\ EntriesHaveNumbers /\ \A x \in signed : x.version <= stored.version
  /\ E!EntriesAgree

\* A step of a command that stores nothing.
LEMMA CommandMoves ==
  ASSUME EditsInv, NEW a \in Admins, NEW r, cmd' = [cmd EXCEPT ![a] = r], UNCHANGED <<stored, signed>>,
         IsCommand(r), CommandStands(r)
  PROVE  EditsInv'
<1>1. cmd' = [b \in Admins |-> IF b = a THEN r ELSE cmd[b]]
  BY DEF EditsInv
<1>2. cmd' = [b \in Admins |-> cmd'[b]]
  BY <1>1
<1>3. \A b \in Admins : IsCommand(cmd'[b]) /\ CommandStands(cmd[b])'
  <2> TAKE b \in Admins
  <2>1. CASE b = a
    BY <1>1, <2>1 DEF CommandStands
  <2>2. CASE b # a
    BY <1>1, <2>2 DEF CommandStands, EditsInv
  <2> QED BY <2>1, <2>2
<1> QED BY <1>2, <1>3 DEF EditsInv, E!EntriesAgree, EntriesHaveNumbers

\* A command that starts, reads what is listed, or stops.
LEMMA CommandSteps ==
  ASSUME EditsInv, NEW a \in Admins,
         (\E e \in Edits : E!Start(a, e)) \/ E!ReadListed(a) \/ E!Stop(a)
  PROVE  EditsInv'
<1>1. UNCHANGED <<stored, signed>>
  BY DEF E!Start, E!ReadListed, E!Stop
<1>2. IsCommand(cmd[a])
  BY DEF EditsInv
<1>3. CASE \E e \in Edits : E!Start(a, e)
  <2>1. PICK e \in Edits : cmd' = [cmd EXCEPT ![a] = [at |-> "checked", edit |-> e]]
    BY <1>3 DEF E!Start
  <2> DEFINE r == [at |-> "checked", edit |-> e]
  <2>2. IsCommand(r) /\ r.at = "checked"
    BY DEF IsCommand
  <2> HIDE DEF r
  <2>3. CommandStands(r)
    BY <2>2 DEF CommandStands
  <2> QED BY <1>1, <2>1, <2>2, <2>3, CommandMoves DEF r
<1>4. CASE E!ReadListed(a)
  <2> DEFINE r == [at |-> "listed", edit |-> cmd[a].edit, listed |-> E!Listed]
  <2>1. cmd[a].at = "checked" /\ cmd' = [cmd EXCEPT ![a] = r]
    BY <1>4 DEF E!ReadListed
  <2>2. cmd[a].edit \in Edits
    BY <1>2, <2>1 DEF IsCommand, E!Idle
  <2>3. E!Listed \in BOOLEAN
    BY DEF E!Listed
  <2>4. IsCommand(r) /\ r.at = "listed"
    BY <2>2, <2>3 DEF IsCommand
  <2> HIDE DEF r
  <2>5. CommandStands(r)
    BY <2>4 DEF CommandStands
  <2> QED BY <1>1, <2>1, <2>4, <2>5, CommandMoves
<1>5. CASE E!Stop(a)
  <2>1. cmd' = [cmd EXCEPT ![a] = E!Idle]
    BY <1>5 DEF E!Stop
  <2>2. IsCommand(E!Idle) /\ CommandStands(E!Idle)
    BY DEF IsCommand, CommandStands, E!Idle
  <2> QED BY <1>1, <2>1, <2>2, CommandMoves
<1> QED BY <1>3, <1>4, <1>5

\* Nobody a valid policy has removed serves in it.
LEMMA ValidKeepsOut ==
  ASSUME NEW c, E!Validate(c), NEW n \in c.bans
  PROVE  ~ E!Serves(c, n)
  BY DEF E!Validate, E!Serves, E!IsHost

\* A command signs over what is stored.
LEMMA SignStep ==
  ASSUME EditsInv, NEW a \in Admins, E!Sign(a)
  PROVE  EditsInv'
<1>1. UNCHANGED <<stored, signed>> /\ cmd[a].at = "listed"
  BY DEF E!Sign
<1>2. Sound(stored) /\ cmd[a].edit \in E!EditLines
  BY <1>1, FilesAssumption DEF EditsInv, IsCommand, E!Idle, E!EditsAssumption
<1>3. CASE cmd' = [cmd EXCEPT ![a] = E!Idle]
  <2>1. IsCommand(E!Idle) /\ CommandStands(E!Idle)
    BY DEF IsCommand, CommandStands, E!Idle
  <2> QED BY <1>1, <1>3, <2>1, CommandMoves
<1>4. CASE cmd' # [cmd EXCEPT ![a] = E!Idle]
  <2>1. PICK q \in E!Signs(stored, cmd[a]) :
          cmd' = [cmd EXCEPT ![a] = [at |-> "signed", base |-> stored, next |-> q]]
    BY <1>4 DEF E!Sign
  <2>2. PICK n \in E!Change(stored.content, cmd[a].edit) :
          E!Validate(n) /\ q = E!SignAfter(n, stored.version + 1, stored)
    BY <2>1 DEF E!Signs
  <2>3. stored.content \in Contents /\ Signed(stored)
    BY <1>2 DEF Sound, Signed, SignedPolicies
  <2>4. /\ n \in Contents
        /\ \/ stored.content.bans \subseteq n.bans
           \/ n.directories = stored.content.directories /\ n.services = stored.content.services
    BY <1>2, <2>2, <2>3, ChangesAreContents
  <2>5. /\ Sound(q) /\ q.version = stored.version + 1 /\ q.content = n
        /\ \A x \in E!EntriesOf(q) : x.version = q.version \/ x \in E!EntriesOf(stored)
    BY <2>2, <2>3, <2>4, SignedIsSound
  <2>6. \A m \in stored.content.bans : ~ E!Serves(n, m)
    <3> TAKE m \in stored.content.bans
    <3>1. CASE m \in n.bans
      BY <2>2, <3>1, ValidKeepsOut
    <3>2. CASE m \notin n.bans
      <4>1. n.directories = stored.content.directories /\ n.services = stored.content.services
        BY <2>4, <3>2
      <4>2. E!Validate(stored.content)
        BY <1>2 DEF Sound
      <4> QED BY <4>1, <4>2 DEF E!Validate, E!Serves, E!IsHost
    <3> QED BY <3>1, <3>2
  <2> DEFINE r == [at |-> "signed", base |-> stored, next |-> q]
  <2>7. IsCommand(r) /\ r.at = "signed" /\ r.base = stored /\ r.next = q
    BY DEF IsCommand
  <2> HIDE DEF r
  <2>8. stored.version <= stored.version
    BY <2>3 DEF Signed, SignedPolicies
  <2>9. CommandStands(r)
    BY <1>2, <2>5, <2>6, <2>7, <2>8 DEF CommandStands
  <2> QED BY <1>1, <2>1, <2>7, <2>9, CommandMoves DEF r
<1> QED BY <1>3, <1>4

\* A command stores what it signed over the policy that is stored, or nothing.
LEMMA StoreStep ==
  ASSUME EditsInv, NEW a \in Admins, E!Write(a)
  PROVE  /\ EditsInv'
         /\ stored' # stored => /\ cmd[a].at = "signed" /\ cmd[a].base = stored
                                /\ stored' = cmd[a].next
<1> DEFINE q == cmd[a].next
<1>1. /\ cmd[a].at = "signed" /\ stored.version < MaxVersion
      /\ cmd' = [cmd EXCEPT ![a] = E!Idle]
  BY DEF E!Write
<1>2. CommandStands(cmd[a]) /\ IsCommand(E!Idle) /\ CommandStands(E!Idle)
  BY DEF EditsInv, IsCommand, CommandStands, E!Idle
<1>3. CASE ~ E!IsNewer(q, stored)
  <2>1. UNCHANGED <<stored, signed>>
    BY <1>3 DEF E!Write
  <2> QED BY <1>1, <1>2, <2>1, CommandMoves
<1>4. CASE E!IsNewer(q, stored)
  <2>1. stored' = q /\ signed' = signed \cup E!EntriesOf(q)
    BY <1>4 DEF E!Write
  <2>2. /\ Sound(q) /\ q.version = cmd[a].base.version + 1 /\ q.version > stored.version
        /\ cmd[a].base.version <= stored.version /\ Sound(cmd[a].base) /\ Sound(stored)
    BY <1>1, <1>2, <1>4 DEF CommandStands, E!IsNewer, EditsInv
  <2>3. stored.version \in Nat /\ cmd[a].base.version \in Nat /\ MaxVersion \in Nat
    BY <2>2, FilesAssumption DEF Sound, Signed, SignedPolicies, E!EditsAssumption
  <2>4. cmd[a].base.version = stored.version
    BY <2>2, <2>3
  <2>5. cmd[a].base = stored /\ q.version = stored.version + 1
    BY <1>1, <1>2, <2>2, <2>4 DEF CommandStands
  <2>6. \A x \in E!EntriesOf(q) : x.version = q.version \/ x \in signed
    BY <1>1, <1>2, <2>5 DEF CommandStands, EditsInv
  <2>7. \A x \in signed : x.version <= stored.version
    BY DEF EditsInv
  <2>8. \A x \in E!EntriesOf(q) : x.version \in Nat /\ x.version <= q.version
    BY <2>2, <2>3, <2>5 DEF E!EntriesOf, Sound, Signed
  <2>9. \A x, y \in E!EntriesOf(q) : x.name = y.name => x = y
    BY DEF E!EntriesOf
  <2> HIDE DEF q
  <2>10. \A x \in signed' : x.version <= stored'.version
    <3>1. \A x \in signed : x.version <= q.version
      <4>1. EntriesHaveNumbers
        BY DEF EditsInv
      <4> QED BY <2>3, <2>5, <2>7, <4>1 DEF EntriesHaveNumbers
    <3> QED BY <2>1, <2>8, <3>1
  <2>11. E!EntriesAgree'
    <3>1. EntriesHaveNumbers
      BY DEF EditsInv
    <3>2. ASSUME NEW x \in signed, NEW y \in E!EntriesOf(q), x.name = y.name, x.version = y.version
          PROVE  x.body = y.body
      <4>1. y.version # q.version
        BY <2>3, <2>5, <2>7, <3>1, <3>2 DEF EntriesHaveNumbers
      <4> QED BY <2>6, <3>2, <4>1 DEF EditsInv, E!EntriesAgree
    <3>3. \A x, y \in signed : x.name = y.name /\ x.version = y.version => x.body = y.body
      BY DEF EditsInv, E!EntriesAgree
    <3> QED BY <2>1, <2>9, <3>2, <3>3 DEF E!EntriesAgree
  <2>12. cmd' = [b \in Admins |-> cmd'[b]]
         /\ \A b \in Admins : cmd'[b] = IF b = a THEN E!Idle ELSE cmd[b]
    BY <1>1 DEF EditsInv
  <2>13. \A b \in Admins : IsCommand(cmd'[b]) /\ CommandStands(cmd[b])'
    <3> TAKE b \in Admins
    <3>1. CASE b = a
      BY <1>2, <2>12, <3>1 DEF CommandStands, E!Idle
    <3>2. CASE b # a
      <4>1. cmd'[b] = cmd[b] /\ IsCommand(cmd[b]) /\ CommandStands(cmd[b])
        BY <2>12, <3>2 DEF EditsInv
      <4>2. cmd[b].at = "signed" => cmd[b].base.version \in Nat
        BY <4>1 DEF CommandStands, Sound, Signed, SignedPolicies
      <4>3. cmd[b].at = "signed" => cmd[b].base.version < stored'.version
        BY <2>1, <2>3, <2>5, <4>1, <4>2 DEF CommandStands
      <4>4. stored'.version \in Nat
        BY <2>1, <2>3, <2>5
      <4>5. cmd[b].at = "signed" => /\ cmd[b].base.version <= stored'.version
                                    /\ cmd[b].base.version # stored'.version
        BY <4>2, <4>3, <4>4
      <4> QED BY <4>1, <4>5 DEF CommandStands
    <3> QED BY <3>1, <3>2
  <2>14. Sound(stored') /\ stored'.version <= MaxVersion
    BY <1>1, <2>1, <2>2, <2>3, <2>5
  <2>15. E!EntriesOf(stored') \subseteq signed' /\ EntriesHaveNumbers'
    BY <2>1, <2>8 DEF EditsInv, EntriesHaveNumbers
  <2> QED BY <1>1, <2>1, <2>5, <2>10, <2>11, <2>12, <2>13, <2>14, <2>15 DEF EditsInv, q
<1> QED BY <1>3, <1>4

\* Every step of a command; what it stores, if it does, it signed over what was there.
LEMMA EditsStep ==
  ASSUME EditsInv, [E!Next]_(E!vars)
  PROVE  /\ EditsInv'
         /\ stored' # stored => \E a \in Admins : /\ cmd[a].at = "signed" /\ cmd[a].base = stored
                                                  /\ stored' = cmd[a].next
<1>1. CASE UNCHANGED E!vars
  BY <1>1 DEF E!vars, EditsInv, CommandStands, EntriesHaveNumbers, E!EntriesAgree
<1>2. ASSUME NEW a \in Admins,
             (\E e \in Edits : E!Start(a, e)) \/ E!ReadListed(a) \/ E!Stop(a) \/ E!Sign(a)
      PROVE  EditsInv' /\ stored' = stored
  <2>1. stored' = stored
    BY <1>2 DEF E!Start, E!ReadListed, E!Stop, E!Sign
  <2> QED BY <1>2, <2>1, CommandSteps, SignStep
<1>3. CASE E!Next
  BY <1>2, <1>3, StoreStep DEF E!Next
<1> QED BY <1>1, <1>3

\* The first policy is valid.
LEMMA InitEdits == E!Init => EditsInv
<1> SUFFICES ASSUME E!Init PROVE EditsInv
  OBVIOUS
<1>1. PICK i \in IdPs :
        stored = E!SignAfter([E!EmptyPolicy EXCEPT !.issuers = {i}], 1, E!EmptySigned)
  BY DEF E!Init
<1>2. \A X, Y : <<>> \in Partials(X, Y)
  <2>1. DOMAIN <<>> = {} /\ <<>> = [x \in DOMAIN <<>> |-> <<>>[x]]
    OBVIOUS
  <2> QED BY <2>1, PartialsAre
<1> DEFINE n == [E!EmptyPolicy EXCEPT !.issuers = {i}]
<1>3. E!EmptyPolicy \in Contents /\ n \in Contents
  BY <1>2 DEF E!EmptyPolicy, Contents
<1>4. E!Validate(n)
  BY DEF E!Validate, E!EmptyPolicy
<1>5. Signed(E!EmptySigned) /\ E!EmptySigned.version = 0
  <2>1. E!EmptySigned \in SignedPolicies
    BY <1>2, <1>3 DEF E!EmptySigned, SignedPolicies
  <2>2. DOMAIN E!EmptySigned.entries = {} /\ DOMAIN E!EmptySigned.content.services = {}
        /\ E!EmptySigned.version = 0
    BY DEF E!EmptySigned, E!EmptyPolicy
  <2> QED BY <2>1, <2>2 DEF Signed
<1> HIDE DEF n
<1>6. /\ Sound(stored) /\ stored.version = 1 /\ stored.content = n
  <2>1. stored = E!SignAfter(n, E!EmptySigned.version + 1, E!EmptySigned)
    BY <1>1, <1>5 DEF n
  <2> QED BY <1>3, <1>4, <1>5, <2>1, SignedIsSound
<1>7. E!EntriesOf(stored) = {}
  <2>1. DOMAIN stored.entries = {}
    BY <1>6 DEF Sound, Signed, n, E!EmptyPolicy
  <2> QED BY <2>1 DEF E!EntriesOf
<1>8. cmd = [a \in Admins |-> E!Idle] /\ signed = {} /\ 1 <= MaxVersion
  BY FilesAssumption DEF E!Init, E!EditsAssumption
<1>9. IsCommand(E!Idle) /\ CommandStands(E!Idle)
  BY DEF IsCommand, CommandStands, E!Idle
<1> QED BY <1>6, <1>7, <1>8, <1>9 DEF EditsInv, EntriesHaveNumbers, E!EntriesAgree

\* The items of a policy, one kind at a time.
LEMMA ItemsOfAKind ==
  ASSUME NEW p
  PROVE  LET c == p.content
         IN  /\ E!OfKind("role", E!Items(p)) = {<<"role", r, c.roles[r]>> : r \in DOMAIN c.roles}
             /\ E!OfKind("service", E!Items(p)) =
                  {<<"service", s, [entry |-> c.services[s], version |-> p.entries[s]]>> :
                      s \in DOMAIN c.services}
             /\ E!OfKind("ban", E!Items(p)) = {<<"ban", n>> : n \in c.bans}
             /\ E!OfKind("person ban", E!Items(p)) = {<<"person ban", n>> : n \in c.person_bans}
             /\ E!OfKind("issuer", E!Items(p)) = {<<"issuer", n>> : n \in c.issuers}
             /\ E!OfKind("settings", E!Items(p)) = {<<"settings", <<c.beat, c.fresh>>>>}
<1> DEFINE c == p.content
           roles == {<<"role", r, c.roles[r]>> : r \in DOMAIN c.roles}
           services == {<<"service", s, [entry |-> c.services[s], version |-> p.entries[s]]>> :
                           s \in DOMAIN c.services}
           bans == {<<"ban", n>> : n \in c.bans}
           persons == {<<"person ban", n>> : n \in c.person_bans}
           issuers == {<<"issuer", n>> : n \in c.issuers}
           settings == {<<"settings", <<c.beat, c.fresh>>>>}
<1>1. E!Items(p) = roles \cup services \cup bans \cup persons \cup issuers \cup settings
  BY DEF E!Items
<1>2. /\ \A x \in roles : x[1] = "role"
      /\ \A x \in services : x[1] = "service"
      /\ \A x \in bans : x[1] = "ban"
      /\ \A x \in persons : x[1] = "person ban"
      /\ \A x \in issuers : x[1] = "issuer"
      /\ \A x \in settings : x[1] = "settings"
  <2>1. \A x \in roles : x[1] = "role"
    OBVIOUS
  <2>2. \A x \in services : x[1] = "service"
    OBVIOUS
  <2>3. \A x \in bans : x[1] = "ban"
    OBVIOUS
  <2>4. \A x \in persons : x[1] = "person ban"
    <3> TAKE x \in persons
    <3>1. PICK n \in c.person_bans : x = <<"person ban", n>>
      OBVIOUS
    <3> QED BY <3>1
  <2>5. \A x \in issuers : x[1] = "issuer"
    OBVIOUS
  <2>6. \A x \in settings : x[1] = "settings"
    OBVIOUS
  <2> QED BY <2>1, <2>2, <2>3, <2>4, <2>5, <2>6
<1> HIDE DEF roles, services, bans, persons, issuers, settings
<1>3. /\ E!OfKind("role", E!Items(p)) = roles
      /\ E!OfKind("service", E!Items(p)) = services
      /\ E!OfKind("ban", E!Items(p)) = bans
      /\ E!OfKind("person ban", E!Items(p)) = persons
      /\ E!OfKind("issuer", E!Items(p)) = issuers
      /\ E!OfKind("settings", E!Items(p)) = settings
  BY <1>1, <1>2 DEF E!OfKind
<1> QED BY <1>3 DEF roles, services, bans, persons, issuers, settings

\* The parts of an item.
LEMMA PairParts == ASSUME NEW x, NEW a, NEW b, x = <<a, b>> PROVE x[2] = b
  OBVIOUS

\* The same of an item with a body.
LEMMA TripleParts ==
  ASSUME NEW x, NEW a, NEW b, NEW c, x = <<a, b, c>> PROVE x[2] = b /\ x[3] = c
  OBVIOUS

\* The keys of a kind whose items are a key each.
LEMMA KeysOfPairs ==
  ASSUME NEW kind, NEW its, NEW D, \A x \in E!OfKind(kind, its) : \E d \in D : x = <<kind, d>>,
         \A d \in D : <<kind, d>> \in E!OfKind(kind, its)
  PROVE  E!Keys(kind, its) = D
<1> DEFINE T == E!OfKind(kind, its)
<1>1. ASSUME NEW x \in T PROVE x[2] \in D
  <2>1. PICK d \in D : x = <<kind, d>>
    OBVIOUS
  <2> QED BY <2>1, PairParts
<1>2. ASSUME NEW d \in D PROVE \E x \in T : x[2] = d
  <2>1. PICK x \in T : x = <<kind, d>>
    OBVIOUS
  <2> QED BY <2>1, PairParts
<1>3. E!Keys(kind, its) = {x[2] : x \in T}
  BY DEF E!Keys
<1> HIDE DEF T
<1> QED BY <1>1, <1>2, <1>3

\* The keys of a kind whose items are a key and a body each, and the bodies.
LEMMA KeysOfTriples ==
  ASSUME NEW kind, NEW its, NEW D, NEW f,
         \A x \in E!OfKind(kind, its) : \E d \in D : x = <<kind, d, f[d]>>,
         \A d \in D : <<kind, d, f[d]>> \in E!OfKind(kind, its)
  PROVE  E!Keys(kind, its) = D /\ \A d \in D : E!BodyOf(kind, d, its) = f[d]
<1> DEFINE T == E!OfKind(kind, its)
<1>1. ASSUME NEW x \in T PROVE x[2] \in D /\ x[3] = f[x[2]]
  <2>1. PICK d \in D : x = <<kind, d, f[d]>>
    OBVIOUS
  <2>2. x[2] = d /\ x[3] = f[d]
    BY <2>1, TripleParts
  <2> QED BY <2>2
<1>2. ASSUME NEW d \in D PROVE \E x \in T : x[2] = d
  <2>1. PICK x \in T : x = <<kind, d, f[d]>>
    OBVIOUS
  <2> QED BY <2>1, TripleParts
<1>3. E!Keys(kind, its) = {x[2] : x \in T}
      /\ \A d \in D : E!BodyOf(kind, d, its) = (CHOOSE x \in T : x[2] = d)[3]
  BY DEF E!Keys, E!BodyOf
<1> HIDE DEF T
<1> QED BY <1>1, <1>2, <1>3

\* The items of a policy make its contents again.
LEMMA ItemsMakeContents ==
  ASSUME NEW p, Signed(p)
  PROVE  E!FromItems(E!HeadOf(p), E!Items(p)) = p.content
<1> DEFINE c == p.content
           its == E!Items(p)
<1>1. c \in Contents
  BY DEF Signed, SignedPolicies
<1>2. c.roles = [r \in DOMAIN c.roles |-> c.roles[r]]
      /\ c.services = [s \in DOMAIN c.services |-> c.services[s]]
  <2>1. c.roles \in Partials(RoleNames, SUBSET E!Matchers)
        /\ c.services \in Partials(ServiceNames, E!Services)
    BY <1>1 DEF Contents
  <2> HIDE DEF c
  <2> QED BY <2>1, PartialsAre
<1> DEFINE roles == E!OfKind("role", its)
           services == E!OfKind("service", its)
           bans == E!OfKind("ban", its)
           persons == E!OfKind("person ban", its)
           issuers == E!OfKind("issuer", its)
           settings == E!OfKind("settings", its)
<1>3. /\ roles = {<<"role", r, c.roles[r]>> : r \in DOMAIN c.roles}
      /\ services = {<<"service", s, [entry |-> c.services[s], version |-> p.entries[s]]>> :
                        s \in DOMAIN c.services}
      /\ bans = {<<"ban", n>> : n \in c.bans}
      /\ persons = {<<"person ban", n>> : n \in c.person_bans}
      /\ issuers = {<<"issuer", n>> : n \in c.issuers}
      /\ settings = {<<"settings", <<c.beat, c.fresh>>>>}
  BY ItemsOfAKind
<1> HIDE DEF its, roles, services, bans, persons, issuers, settings, c
<1>4. E!Keys("role", its) = DOMAIN c.roles
      /\ \A r \in DOMAIN c.roles : E!BodyOf("role", r, its) = c.roles[r]
  <2>1. \A x \in roles : \E r \in DOMAIN c.roles : x = <<"role", r, c.roles[r]>>
    BY <1>3
  <2>2. \A r \in DOMAIN c.roles : <<"role", r, c.roles[r]>> \in roles
    BY <1>3
  <2> QED BY <2>1, <2>2, KeysOfTriples DEF roles
<1>5. E!Keys("service", its) = DOMAIN c.services
      /\ \A s \in DOMAIN c.services : E!BodyOf("service", s, its).entry = c.services[s]
  <2> DEFINE f == [s \in DOMAIN c.services |-> [entry |-> c.services[s], version |-> p.entries[s]]]
  <2>1. \A x \in services : \E s \in DOMAIN c.services : x = <<"service", s, f[s]>>
    BY <1>3
  <2>2. \A s \in DOMAIN c.services : <<"service", s, f[s]>> \in services
    BY <1>3
  <2>3. \A s \in DOMAIN c.services : f[s].entry = c.services[s]
    OBVIOUS
  <2> HIDE DEF f
  <2>4. E!Keys("service", its) = DOMAIN c.services
        /\ \A s \in DOMAIN c.services : E!BodyOf("service", s, its) = f[s]
    BY <2>1, <2>2, KeysOfTriples DEF services
  <2> QED BY <2>3, <2>4
<1>6. /\ E!Keys("ban", its) = c.bans
      /\ E!Keys("person ban", its) = c.person_bans
      /\ E!Keys("issuer", its) = c.issuers
  <2>1. E!Keys("ban", its) = c.bans
    <3>1. \A x \in bans : \E n \in c.bans : x = <<"ban", n>>
      BY <1>3
    <3>2. \A n \in c.bans : <<"ban", n>> \in bans
      BY <1>3
    <3> QED BY <3>1, <3>2, KeysOfPairs DEF bans
  <2>2. E!Keys("person ban", its) = c.person_bans
    <3>1. \A x \in persons : \E n \in c.person_bans : x = <<"person ban", n>>
      BY <1>3
    <3>2. \A n \in c.person_bans : <<"person ban", n>> \in persons
      BY <1>3
    <3> QED BY <3>1, <3>2, KeysOfPairs DEF persons
  <2>3. E!Keys("issuer", its) = c.issuers
    <3>1. \A x \in issuers : \E n \in c.issuers : x = <<"issuer", n>>
      BY <1>3
    <3>2. \A n \in c.issuers : <<"issuer", n>> \in issuers
      BY <1>3
    <3> QED BY <3>1, <3>2, KeysOfPairs DEF issuers
  <2> QED BY <2>1, <2>2, <2>3
<1>7. (CHOOSE x \in settings : TRUE)[2] = <<c.beat, c.fresh>>
  <2> DEFINE it == <<"settings", <<c.beat, c.fresh>>>>
  <2>1. it[2] = <<c.beat, c.fresh>>
    OBVIOUS
  <2>2. settings = {it}
    BY <1>3
  <2> HIDE DEF it
  <2>3. (CHOOSE x \in settings : TRUE) = it
    BY <2>2
  <2> QED BY <2>1, <2>3
<1>8. E!HeadOf(p).directories = c.directories
  BY DEF E!HeadOf, c
<1> DEFINE back == E!FromItems(E!HeadOf(p), its)
<1>9. back = [directories |-> c.directories, roles |-> [r \in DOMAIN c.roles |-> c.roles[r]],
              services |-> [s \in DOMAIN c.services |-> c.services[s]],
              bans |-> c.bans, person_bans |-> c.person_bans, issuers |-> c.issuers,
              beat |-> c.beat, fresh |-> c.fresh]
  <2>1. [r \in E!Keys("role", its) |-> E!BodyOf("role", r, its)] = [r \in DOMAIN c.roles |-> c.roles[r]]
    BY <1>4
  <2>2. [s \in E!Keys("service", its) |-> E!BodyOf("service", s, its).entry]
          = [s \in DOMAIN c.services |-> c.services[s]]
    BY <1>5
  <2>3. back = [directories |-> E!HeadOf(p).directories,
                roles |-> [r \in E!Keys("role", its) |-> E!BodyOf("role", r, its)],
                services |-> [s \in E!Keys("service", its) |-> E!BodyOf("service", s, its).entry],
                bans |-> E!Keys("ban", its), person_bans |-> E!Keys("person ban", its),
                issuers |-> E!Keys("issuer", its),
                beat |-> ((CHOOSE x \in settings : TRUE)[2])[1],
                fresh |-> ((CHOOSE x \in settings : TRUE)[2])[2]]
    BY DEF E!FromItems, settings
  <2>4. ((CHOOSE x \in settings : TRUE)[2])[1] = c.beat
        /\ ((CHOOSE x \in settings : TRUE)[2])[2] = c.fresh
    BY <1>7
  <2> HIDE DEF back
  <2> QED BY <1>6, <1>8, <2>1, <2>2, <2>3, <2>4
<1> HIDE DEF back
<1>10. back = c
  BY <1>1, <1>2, <1>9 DEF Contents
<1> QED BY <1>10 DEF back, its, c

\* What is stored is read back, by whoever reads it, and so is the view cut of it.
LEMMA SoundIsReadBack ==
  ASSUME NEW p, Sound(p)
  PROVE  /\ E!CheckItems(E!HeadOf(p), E!Items(p))
         /\ E!FromItems(E!HeadOf(p), E!Items(p)) = p.content
         /\ \A es \in SUBSET E!OfKind("service", E!Items(p)) : E!ViewVerifies(E!HeadOf(p), es)
<1>1. E!FromItems(E!HeadOf(p), E!Items(p)) = p.content
  BY ItemsMakeContents DEF Sound
<1>2. E!HeadOf(p).version = p.version /\ E!HeadOf(p).fresh_secs = p.content.fresh
      /\ E!HeadOf(p).items_hash = E!Items(p)
  BY DEF E!HeadOf
<1>3. \A x \in E!OfKind("service", E!Items(p)) : x[3].version <= p.version
  <2>1. E!OfKind("service", E!Items(p)) =
          {<<"service", s, [entry |-> p.content.services[s], version |-> p.entries[s]]>> :
              s \in DOMAIN p.content.services}
    BY ItemsOfAKind
  <2>2. \A s \in DOMAIN p.content.services : p.entries[s] <= p.version
    BY DEF Sound, Signed, SignedPolicies
  <2> QED BY <2>1, <2>2
<1>4. \A es \in SUBSET E!OfKind("service", E!Items(p)) : E!EntriesInOrder(E!HeadOf(p), es)
  BY <1>2, <1>3 DEF E!EntriesInOrder
<1>5. E!CheckItems(E!HeadOf(p), E!Items(p))
  BY <1>1, <1>2, <1>4 DEF E!CheckItems, Sound
<1> QED BY <1>1, <1>4, <1>5 DEF E!ViewVerifies

\* A directory shows what a host would let through, of any contents.
LEMMA ViewsTellTheTruth ==
  ASSUME NEW c \in Contents, NEW n \in Machines, NEW p \in E!Principals
  PROVE  /\ E!ViewFor(c, n, {p}, ServiceNames) = {s \in ServiceNames : E!Authorize(c, n, {p}, s)}
         /\ \A s \in ServiceNames : E!Authorize(c, n, {p}, s) => E!CheckAdmitted(c, n, p)
<1>1. DOMAIN c.services \in SUBSET ServiceNames
      /\ \A s \in DOMAIN c.services : c.services[s] \in E!Services
  <2>1. c.services \in Partials(ServiceNames, E!Services)
    BY DEF Contents
  <2> QED BY <2>1, PartialsAre
<1>2. E!ViewFor(c, n, {p}, ServiceNames) = {s \in ServiceNames : E!Authorize(c, n, {p}, s)}
  BY <1>1 DEF E!ViewFor, E!Authorize
<1>3. ASSUME NEW s \in ServiceNames, E!Authorize(c, n, {p}, s)
      PROVE  E!CheckAdmitted(c, n, p)
  <2>1. PICK role : E!RoleAdmits(c, role, {p})
    BY <1>3 DEF E!Authorize
  <2>2. role \in DOMAIN c.roles /\ E!Admits(c.roles[role], p)
    BY <2>1 DEF E!RoleAdmits
  <2>3. p.email # {} /\ E!AnyRoleAdmits(c, p)
    BY <2>1, <2>2 DEF E!Admits, E!AnyRoleAdmits
  <2> QED BY <1>3, <2>3 DEF E!Authorize, E!CheckAdmitted
<1> QED BY <1>2, <1>3

\* What is stored is of its type, and nothing in it dangles.
LEMMA EditsTyped == EditsInv => E!TypeOK
<1> SUFFICES ASSUME EditsInv PROVE E!TypeOK
  OBVIOUS
<1> DEFINE c == stored.content
<1>1. /\ Sound(stored) /\ c \in Contents /\ E!Validate(c)
      /\ stored.version \in Nat /\ stored.version # 0 /\ stored.version <= MaxVersion
  BY DEF EditsInv, Sound, Signed, SignedPolicies
<1>2. stored.version \in 1 .. MaxVersion
  BY <1>1, FilesAssumption DEF E!EditsAssumption
<1>3. /\ DOMAIN c.roles \in SUBSET RoleNames /\ \A r \in DOMAIN c.roles : c.roles[r] \subseteq E!Matchers
      /\ DOMAIN c.services \in SUBSET ServiceNames
      /\ \A s \in DOMAIN c.services : c.services[s] \in E!Services
  <2>1. c.roles \in Partials(RoleNames, SUBSET E!Matchers)
        /\ c.services \in Partials(ServiceNames, E!Services)
    BY <1>1 DEF Contents
  <2> HIDE DEF c
  <2> QED BY <2>1, PartialsAre
<1>4. /\ c.directories \subseteq Machines /\ c.bans \subseteq Machines
      /\ c.person_bans \subseteq E!Persons /\ c.issuers \subseteq IdPs
      /\ c.beat \in Nat /\ c.fresh \in Nat
  BY <1>1 DEF Contents
<1>5. E!IsContent(c)
  BY <1>3, <1>4 DEF E!IsContent
<1>6. \A a \in Admins : cmd[a] # E!Idle => cmd[a].at = "signed" \/ cmd[a].edit \in Edits
  BY DEF EditsInv, IsCommand
<1>7. /\ \A s \in DOMAIN c.services : c.services[s].allow \subseteq DOMAIN c.roles
      /\ \A r \in DOMAIN c.roles : \A m \in c.roles[r] : m.issuer \in c.issuers
      /\ \A n \in c.bans : n \notin c.directories
      /\ c.fresh >= c.beat /\ c.beat # 0
  BY <1>1, <1>4 DEF E!Validate
<1>8. /\ DOMAIN stored.entries = DOMAIN c.services
      /\ \A s \in DOMAIN stored.entries : stored.entries[s] \in 1 .. stored.version
  BY <1>1 DEF Sound, Signed
<1> QED BY <1>2, <1>5, <1>6, <1>7, <1>8 DEF E!TypeOK

\* The invariant says what a policy must be.
LEMMA EditsStand == EditsInv => E!PolicyIsTrue
<1> SUFFICES ASSUME EditsInv PROVE E!PolicyIsTrue
  OBVIOUS
<1>1. Sound(stored) /\ stored.content \in Contents
  BY DEF EditsInv, Sound, Signed, SignedPolicies
<1>2. E!StoredIsReadBack
  <2>1. \A p \in E!Principals :
          {e \in E!OfKind("service", E!Items(stored)) :
             e[2] \in E!ViewFor(stored.content, OwnNode, {p}, ServiceNames)}
          \in SUBSET E!OfKind("service", E!Items(stored))
    OBVIOUS
  <2> QED BY <1>1, <2>1, SoundIsReadBack DEF E!StoredIsReadBack
<1>3. E!ViewTellsTheTruth
  BY <1>1, ViewsTellTheTruth DEF E!ViewTellsTheTruth
<1>4. E!EntriesAgree
  BY DEF EditsInv
<1> QED BY <1>2, <1>3, <1>4, EditsTyped DEF E!PolicyIsTrue

\* A node that was removed serves neither before nor after a step.
LEMMA RemovedStayOut ==
  ASSUME EditsInv, [E!Next]_(E!vars), NEW n \in stored.content.bans
  PROVE  ~ E!Serves(stored.content, n) /\ ~ E!Serves(stored'.content, n)
<1>1. ~ E!Serves(stored.content, n)
  BY ValidKeepsOut DEF EditsInv, Sound
<1>2. CASE stored' = stored
  BY <1>1, <1>2
<1>3. CASE stored' # stored
  <2>1. PICK a \in Admins : cmd[a].at = "signed" /\ cmd[a].base = stored /\ stored' = cmd[a].next
    BY <1>3, EditsStep
  <2>2. CommandStands(cmd[a])
    BY DEF EditsInv
  <2> QED BY <1>1, <2>1, <2>2 DEF CommandStands
<1> QED BY <1>2, <1>3

-----------------------------------------------------------------------------
(* The parts of MCFiles. *)

\* A step of MCFiles is one of its parts, and leaves the others as they were.
LEMMA PartsStep ==
  ASSUME [MCNext]_<<vars, edited, keystore, signedIn, part>>
  PROVE  /\ [K!Next]_(K!vars)
         /\ [E!Next]_(E!vars)
         /\ [S!Next]_(S!vars)
         /\ UNCHANGED part
<1>1. CASE UNCHANGED <<vars, edited, keystore, signedIn, part>>
  BY <1>1 DEF keystore, edited, signedIn, K!vars, E!vars, S!vars
<1>2. CASE MCNext
  BY <1>2 DEF MCNext, keystore, edited, signedIn, K!vars, E!vars, S!vars
<1> QED BY <1>1, <1>2

\* The files of a keystore go on agreeing, for any processes and commands, wherever one
\* is killed (save_node: "an existing key is never overwritten"; join_in; Network::new):
\* no step replaces a key, leaves a network without one, or makes a string that does
\* not decode.
THEOREM KeystoreGoesOnHolding == MCSpec => KeystoreHolds
<1>1. MCInit => KeystoreInv
  BY InitKeystore DEF MCInit
<1>2. KeystoreInv /\ [MCNext]_<<vars, edited, keystore, signedIn, part>> => KeystoreInv'
  BY PartsStep, KeystoreStep
<1>3. KeystoreInv /\ [MCNext]_<<vars, edited, keystore, signedIn, part>>
      => [K!KeysStay /\ K!KeyBeforeNetwork' /\ K!StringsDecode']_(K!vars)
  <2>1. KeystoreInv' => K!KeyBeforeNetwork' /\ K!StringsDecode'
    BY KeystoreStands, PTL
  <2> QED BY <2>1, PartsStep, KeystoreStep
<1> QED
  BY <1>1, <1>2, <1>3, PTL DEF MCSpec, KeystoreHolds, K!KeystoreHolds
\* What is kept of the sign-ins run on one keystore is one person's, for any logins,
\* people and modes, wherever one is killed (finish, refresh, save_secret): unless logins
\* overlapped while one saved, the ID token is whole, bound to this node and the one its
\* login verified, and the refresh token renews whom it names.
THEOREM OneSignInStays == MCSpec => []OneSignInIsKept
<1>1. MCInit => SignInInv
  BY InitSignIn DEF MCInit
<1>2. SignInInv /\ [MCNext]_<<vars, edited, keystore, signedIn, part>> => SignInInv'
  BY PartsStep, SignInStep
<1>3. SignInInv => OneSignInIsKept
  BY SignInStands DEF OneSignInIsKept
<1> QED
  BY <1>1, <1>2, <1>3, PTL DEF MCSpec

\* The policy that admins edit stays one policy, for any edits, admins and versions
\* (Policy::validate, sign_after, verify, view_for): nothing in it dangles, an entry's
\* version says which entry it is, and what is stored is read back whole and shows each
\* caller what a host would let it call.
THEOREM PolicyStaysTrue == MCSpec => []PolicyIsTrue
<1>1. MCInit => EditsInv
  BY InitEdits DEF MCInit
<1>2. EditsInv /\ [MCNext]_<<vars, edited, keystore, signedIn, part>> => EditsInv'
  BY PartsStep, EditsStep
<1>3. EditsInv => PolicyIsTrue
  BY EditsStand DEF PolicyIsTrue
<1> QED
  BY <1>1, <1>2, <1>3, PTL DEF MCSpec

\* No admin's edit is undone by another's at once (sign_next: "another admin command
\* changed the policy meanwhile"), and nobody removed is let back in by an edit that
\* does not restore them, nor serves by one that does.
THEOREM EditsGoOnStaying == MCSpec => EditsStay
<1>1. MCInit => EditsInv
  BY InitEdits DEF MCInit
<1>2. EditsInv /\ [MCNext]_<<vars, edited, keystore, signedIn, part>> => EditsInv'
  BY PartsStep, EditsStep
<1> DEFINE Kept == stored' # stored => \E a \in Admins : /\ cmd[a].at = "signed"
                                                         /\ cmd[a].base = stored
                                                         /\ stored' = cmd[a].next
           Out == \A n \in stored.content.bans : /\ ~ E!Serves(stored.content, n)
                                                 /\ ~ E!Serves(stored'.content, n)
<1>3. EditsInv /\ [MCNext]_<<vars, edited, keystore, signedIn, part>> => Kept /\ Out
  BY PartsStep, EditsStep, RemovedStayOut
<1> QED
  BY <1>1, <1>2, <1>3, PTL DEF MCSpec, EditsStay, E!EditsStay, E!EditsNotLost, E!RemovedStaysOut
=============================================================================
