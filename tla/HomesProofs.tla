---------------------------- MODULE HomesProofs ----------------------------
(***************************************************************************)
(* Theorems about the files of a home that its processes share and cannot  *)
(* lock: view.json (ViewFile), policy.json and reached.json while an edit  *)
(* is published (Publishing), and the control socket (Serving), in the     *)
(* composition MCHomes, whose three parts share no state.                  *)
(***************************************************************************)
EXTENDS MCHomes, FiniteSetTheorems, TLAPS

homes == <<vars, published, served, part>>

-----------------------------------------------------------------------------
(* view.json. *)

\* What a process that nobody raced has read of view.json, or got since, is no older
\* than what view.json holds.
Current(p) ==
  p \notin raced =>
    /\ pc[p] \in {"asking", "resolved", "noting"} => file.version <= held[p].version
    /\ pc[p] = "answered" => file.version <= got[p]

\* What it cut from policy.json is no newer than policy.json, and only a sign-in
\* forgets the view held.
Unread(p) ==
  /\ pc[p] = "cut" => whole # 0 /\ got[p] <= whole
  /\ pc[p] \in {"forgot", "anew"} => p \in SignIns

ViewInv == TypeOK /\ \A p \in Processes : Current(p) /\ Unread(p)

\* So one that writes an older view was raced, or compared it with none.
GoesBackKnown ==
  file'.version < file.version =>
    \E p \in Processes :
      /\ pc'[p] # pc[p]
      /\ \/ p \in raced /\ pc[p] \in {"answered", "resolved", "noting"}
         \/ pc[p] = "cut" /\ whole # 0 /\ file'.version <= whole
         \/ pc[p] = "anew" /\ p \in SignIns

\* The step of p on the file: it leaves it alone, or replaces it.
FileMoves(p) ==
  \/ file' = file /\ raced \ {p} \subseteq raced'
  \/ raced' = Processes \ {p}

\* A step of one process leaves what is so of the others.
LEMMA OthersCurrent ==
  ASSUME ViewInv, NEW p \in Processes, NEW q \in Processes \ {p},
         pc'[q] = pc[q], held'[q] = held[q], got'[q] = got[q], whole' = whole, FileMoves(p)
  PROVE  Current(q)' /\ Unread(q)'
<1>1. CASE file' = file /\ raced \ {p} \subseteq raced'
  BY <1>1 DEF ViewInv, Current, Unread
<1>2. CASE raced' = Processes \ {p}
  BY <1>2 DEF ViewInv, Current, Unread
<1> QED BY <1>1, <1>2 DEF FileMoves

\* What a process puts in its memory is a view.
LEMMA ViewIs ==
  ASSUME NEW view \in Views
  PROVE  view.version \in Versions /\ view.version \in Nat /\ view.seen \in Versions
BY ViewFileAssumption DEF Views, Versions

LEMMA FetchedIs ==
  ASSUME NEW v \in Versions
  PROVE  Fetched(v) \in Views /\ Fetched(v).version = v
BY ViewFileAssumption DEF Fetched, Views, Versions

LEMMA SeenIs ==
  ASSUME NEW view \in Views, NEW v \in Versions
  PROVE  /\ [view EXCEPT !.seen = v] \in Views
         /\ [view EXCEPT !.seen = v].version = view.version
BY DEF Views

LEMMA RefusedIs ==
  ASSUME NEW view \in Views
  PROVE  /\ [view EXCEPT !.refused = TRUE] \in Views
         /\ [view EXCEPT !.refused = TRUE].version = view.version
BY DEF Views

\* A step of p that gives it place, view and answer, and file, keeps the invariant
\* if these are current; and it goes back only if p was raced.
LEMMA ProcessMoves ==
  ASSUME ViewInv, NEW p \in Processes, NEW view \in Views, NEW answer \in Versions,
         NEW place \in Places, holds' = holds, whole' = whole, file' \in Views, raced' \subseteq Processes,
         pc' = [pc EXCEPT ![p] = place], held' = [held EXCEPT ![p] = view],
         got' = [got EXCEPT ![p] = answer], FileMoves(p),
         p \notin raced' =>
           /\ place \in {"asking", "resolved", "noting"} => file'.version <= view.version
           /\ place = "answered" => file'.version <= answer,
         place = "cut" => whole # 0 /\ answer <= whole,
         place \in {"forgot", "anew"} => p \in SignIns
  PROVE  ViewInv'
<1>1. TypeOK'
  BY DEF ViewInv, TypeOK
<1>2. pc'[p] = place /\ held'[p] = view /\ got'[p] = answer
  BY DEF ViewInv, TypeOK
<1>3. Current(p)' /\ Unread(p)'
  BY <1>2 DEF Current, Unread
<1>4. ASSUME NEW q \in Processes \ {p} PROVE Current(q)' /\ Unread(q)'
  <2>1. pc'[q] = pc[q] /\ held'[q] = held[q] /\ got'[q] = got[q]
    BY DEF ViewInv, TypeOK
  <2> QED BY <2>1, OthersCurrent
<1> QED BY <1>1, <1>3, <1>4 DEF ViewInv

\* What the invariant says of the process that an action moves.
LEMMA ProcessIs ==
  ASSUME ViewInv, NEW p \in Processes
  PROVE  /\ held[p] \in Views /\ held[p].version \in Nat /\ held[p].seen \in Versions
         /\ got[p] \in Versions /\ got[p] \in Nat
         /\ file \in Views /\ file.version \in Nat /\ raced \subseteq Processes
         /\ held = [held EXCEPT ![p] = held[p]] /\ got = [got EXCEPT ![p] = got[p]]
         /\ \A d \in Directories : holds[d] \in Versions /\ holds[d] \in Nat
         /\ Current(p) /\ Unread(p) /\ whole \in Nat
BY ViewFileAssumption, ViewIs DEF ViewInv, TypeOK, Versions

\* A step that leaves the file and what is in memory alone.
LEMMA OnlyGoes ==
  ASSUME ViewInv, NEW p \in Processes, NEW place \in {"stopped", "using", "refreshing"},
         Goto(p, place), UNCHANGED <<holds, whole, file, held, got, raced>>
  PROVE  ViewInv' /\ GoesBackKnown
<1>1. FileMoves(p)
  BY DEF FileMoves
<1>2. ViewInv'
  BY <1>1, ProcessIs, ProcessMoves DEF Goto, Places
<1> QED BY <1>2, ProcessIs DEF GoesBackKnown

\* A step that reads the file.
LEMMA ReadsKeep ==
  ASSUME ViewInv, NEW p \in Processes, NEW answer \in Versions,
         NEW place \in {"stopped", "refreshing", "asking", "using", "resolved", "noting"},
         Reads(p), Goto(p, place), got' = [got EXCEPT ![p] = answer],
         UNCHANGED <<holds, whole, file>>
  PROVE  ViewInv' /\ GoesBackKnown
<1>1. FileMoves(p)
  BY DEF FileMoves, Reads
<1>2. /\ file \in Views /\ file' \in Views /\ file.version \in Nat /\ file'.version <= file.version
      /\ raced' \subseteq Processes /\ held' = [held EXCEPT ![p] = file]
      /\ pc' = [pc EXCEPT ![p] = place] /\ place \in Places
      /\ place \notin {"answered", "cut", "forgot", "anew"}
  BY ProcessIs DEF Reads, Goto, Places
<1>3. ViewInv'
  BY <1>1, <1>2, ProcessMoves
<1> QED BY <1>2, <1>3 DEF GoesBackKnown

LEMMA AskKeeps ==
  ASSUME ViewInv, NEW p \in Processes, NEW d \in Directories, Ask(p, d)
  PROVE  ViewInv' /\ GoesBackKnown
<1>1. PICK place \in {"answered", "anew"} :
        /\ pc[p] \in {"asking", "forgot"} /\ holds[d] >= held[p].version
        /\ place = IF pc[p] = "asking" THEN "answered" ELSE "anew"
        /\ got' = [got EXCEPT ![p] = holds[d]] /\ pc' = [pc EXCEPT ![p] = place]
        /\ UNCHANGED <<holds, whole, file, held, raced>>
  BY DEF Ask, Answered, Goto
<1>2. FileMoves(p)
  BY <1>1 DEF FileMoves
<1>3. p \notin raced' => (place = "answered" => file'.version <= holds[d])
  <2>1. p \notin raced /\ pc[p] = "asking" => file.version <= held[p].version
    BY ProcessIs DEF Current
  <2> QED BY <1>1, <2>1, ProcessIs
<1>4. place \in Places /\ place # "cut" /\ (place = "anew" => p \in SignIns)
  BY <1>1, ProcessIs DEF Unread, Places
<1>5. ViewInv'
  BY <1>1, <1>2, <1>3, <1>4, ProcessIs, ProcessMoves
<1> QED BY <1>1, <1>5, ProcessIs DEF GoesBackKnown

\* A step that gets what policy.json has, or forgets the view held.
LEMMA CutViewKeeps ==
  ASSUME ViewInv, NEW p \in Processes, CutView(p)
  PROVE  ViewInv' /\ GoesBackKnown
<1>1. /\ whole # 0 /\ got' = [got EXCEPT ![p] = whole] /\ pc' = [pc EXCEPT ![p] = "cut"]
      /\ UNCHANGED <<holds, whole, file, held, raced>>
  BY DEF CutView, Goto
<1>2. FileMoves(p)
  BY <1>1 DEF FileMoves
<1>3. whole \in Versions /\ "cut" \in Places /\ whole <= whole
  BY ViewFileAssumption, ProcessIs DEF ViewInv, TypeOK, Versions, Places
<1>4. ViewInv'
  BY <1>1, <1>2, <1>3, ProcessIs, ProcessMoves
<1> QED BY <1>1, <1>4, ProcessIs DEF GoesBackKnown

LEMMA SignedInKeeps ==
  ASSUME ViewInv, NEW p \in Processes, SignedIn(p)
  PROVE  ViewInv' /\ GoesBackKnown
<1>1. /\ p \in SignIns /\ held' = [held EXCEPT ![p] = NoView]
      /\ pc' = [pc EXCEPT ![p] = "forgot"] /\ UNCHANGED <<holds, whole, file, got, raced>>
  BY DEF SignedIn, Goto
<1>2. FileMoves(p)
  BY <1>1 DEF FileMoves
<1>3. NoView \in Views /\ "forgot" \in Places
  BY ViewFileAssumption DEF NoView, Views, Versions, Places
<1>4. ViewInv'
  BY <1>1, <1>2, <1>3, ProcessIs, ProcessMoves
<1> QED BY <1>1, <1>4, ProcessIs DEF GoesBackKnown

\* What p writes, of what it got or read, goes back only if p was raced, or it was
\* compared with no view.
LEMMA WritesKeep ==
  ASSUME ViewInv, NEW p \in Processes, NEW written \in Views, NEW view \in Views,
         NEW place \in {"stopped", "asking", "using"},
         Writes(p, written), Goto(p, place), held' = [held EXCEPT ![p] = view],
         UNCHANGED <<holds, whole, got>>,
         place = "asking" => view.version = written.version,
         pc[p] \in {"answered", "anew", "cut", "resolved", "noting"},
         written.version = IF pc[p] \in {"answered", "anew", "cut"} THEN got[p] ELSE held[p].version
  PROVE  ViewInv' /\ GoesBackKnown
<1>1. file' = written /\ raced' = Processes \ {p}
  BY DEF Writes
<1>2. FileMoves(p)
  BY <1>1 DEF FileMoves
<1>3. written.version \in Nat /\ (place = "asking" => file'.version <= view.version)
  BY <1>1, ProcessIs
<1>4. place \in Places /\ place \notin {"answered", "cut", "forgot", "anew"}
  BY DEF Places
<1>5. ViewInv'
  BY <1>1, <1>2, <1>3, <1>4, ProcessIs, ProcessMoves DEF Goto
<1>6. pc' = [pc EXCEPT ![p] = place] /\ pc'[p] # pc[p]
  BY DEF Goto, ViewInv, TypeOK
<1>7. CASE pc[p] \in {"answered", "resolved", "noting"}
  <2>1. p \notin raced => file.version <= written.version
    BY <1>7, ProcessIs DEF Current
  <2>2. file'.version < file.version => p \in raced
    BY <1>1, <1>3, <2>1, ProcessIs
  <2> QED BY <1>5, <1>6, <1>7, <2>2 DEF GoesBackKnown
<1>8. CASE pc[p] \in {"cut", "anew"}
  <2>1. /\ pc[p] = "cut" => whole # 0 /\ file'.version <= whole
        /\ pc[p] = "anew" => p \in SignIns
    BY <1>1, <1>8, ProcessIs DEF Unread
  <2> QED BY <1>5, <1>6, <1>8, <2>1 DEF GoesBackKnown
<1> QED BY <1>7, <1>8

LEMMA PollAnsweredKeeps ==
  ASSUME ViewInv, NEW p \in Processes, PollAnswered(p)
  PROVE  ViewInv' /\ GoesBackKnown
<1> DEFINE view == [Fetched(got[p]) EXCEPT !.seen = held[p].seen]
<1>1. view \in Views /\ view.version = got[p]
  BY ProcessIs, FetchedIs, SeenIs
<1>2. held' = [held EXCEPT ![p] = view] /\ held'[p] = view
  BY DEF PollAnswered, ViewInv, TypeOK
<1>3. /\ pc[p] = "answered" /\ Writes(p, view) /\ Goto(p, "asking") /\ UNCHANGED <<holds, whole, got>>
  BY <1>2 DEF PollAnswered, Writes
<1> HIDE DEF view
<1> QED BY <1>1, <1>2, <1>3, WritesKeep

LEMMA RefreshedKeeps ==
  ASSUME ViewInv, NEW p \in Processes, Refreshed(p)
  PROVE  ViewInv' /\ GoesBackKnown
<1> DEFINE view == Fetched(got[p])
<1>1. view \in Views /\ view.version = got[p]
  BY ProcessIs, FetchedIs
<1>2. held' = [held EXCEPT ![p] = view] /\ held'[p] = view
  BY DEF Refreshed, ViewInv, TypeOK
<1>3. /\ pc[p] \in {"answered", "anew", "cut"} /\ Writes(p, view) /\ Goto(p, "using")
      /\ UNCHANGED <<holds, whole, got>>
  BY <1>2 DEF Refreshed, Writes
<1> HIDE DEF view
<1> QED BY <1>1, <1>2, <1>3, WritesKeep

LEMMA NoteResolvedKeeps ==
  ASSUME ViewInv, NEW p \in Processes, NoteResolved(p)
  PROVE  ViewInv' /\ GoesBackKnown
<1>1. PICK place \in {"stopped", "using"}, view \in {held[p], Fetched(got[p])} :
        Goto(p, place) /\ held' = [held EXCEPT ![p] = view]
  BY ProcessIs DEF NoteResolved
<1>2. view \in Views
  BY ProcessIs, FetchedIs
<1>3. pc[p] = "resolved" /\ UNCHANGED <<holds, whole, got>>
  BY DEF NoteResolved
<1>4. CASE Writes(p, [held[p] EXCEPT !.seen = got[p]])
  <2> DEFINE written == [held[p] EXCEPT !.seen = got[p]]
  <2>1. written \in Views /\ written.version = held[p].version
    BY ProcessIs, SeenIs
  <2> HIDE DEF written
  <2>2. Writes(p, written)
    BY <1>4 DEF written
  <2> QED BY <1>1, <1>2, <1>3, <2>1, <2>2, WritesKeep
<1>5. CASE UNCHANGED <<file, raced>>
  <2>1. FileMoves(p)
    BY <1>5 DEF FileMoves
  <2>2. ViewInv'
    BY <1>1, <1>2, <1>3, <1>5, <2>1, ProcessIs, ProcessMoves DEF Goto, Places
  <2> QED BY <1>5, <2>2, ProcessIs DEF GoesBackKnown
<1> QED BY <1>4, <1>5 DEF NoteResolved

LEMMA WriteNoteKeeps ==
  ASSUME ViewInv, NEW p \in Processes, WriteNote(p)
  PROVE  ViewInv' /\ GoesBackKnown
<1>1. PICK written \in Noted(held[p]) : Writes(p, written)
  BY DEF WriteNote
<1>2. written \in Views /\ written.version = held[p].version
  <2>1. held[p] \in Views
    BY ProcessIs
  <2>2. \/ written = held[p] \/ written = [held[p] EXCEPT !.refused = TRUE]
        \/ \E v \in Versions : written = [held[p] EXCEPT !.seen = v]
    BY DEF Noted
  <2> QED BY <2>1, <2>2, SeenIs, RefusedIs
<1>3. pc[p] = "noting" /\ Goto(p, "stopped") /\ UNCHANGED <<holds, whole, got>> /\ held' = [held EXCEPT ![p] = held[p]]
  BY ProcessIs DEF WriteNote
<1> QED BY <1>2, <1>1, <1>3, ProcessIs, WritesKeep

LEMMA StepKeeps ==
  ASSUME ViewInv, NEW p \in Processes, Step(p)
  PROVE  ViewInv' /\ GoesBackKnown
<1>1. CASE StartPolling(p) \/ Begin(p) \/ AskFromHeld(p) \/ ReadToNote(p)
  <2>1. PICK place \in {"stopped", "refreshing", "asking", "using", "noting"} :
          Reads(p) /\ Goto(p, place) /\ UNCHANGED <<holds, whole, file, got>>
    BY <1>1 DEF StartPolling, Begin, AskFromHeld, ReadToNote
  <2> QED BY <2>1, ProcessIs, ReadsKeep
<1>2. CASE \E d \in Directories : Resolve(p, d)
  <2>1. PICK d \in Directories : Resolve(p, d)
    BY <1>2
  <2> QED BY <2>1, ProcessIs, ReadsKeep DEF Resolve
<1>3. CASE RefreshAgain(p) \/ NotRefreshed(p) \/ NotAdmitted(p) \/ Lists(p)
  <2>1. PICK place \in {"stopped", "using", "refreshing"} :
          Goto(p, place) /\ UNCHANGED <<holds, whole, file, held, got, raced>>
    BY <1>3 DEF RefreshAgain, NotRefreshed, NotAdmitted, Lists
  <2> QED BY <2>1, OnlyGoes
<1> QED
  BY <1>1, <1>2, <1>3, AskKeeps, CutViewKeeps, SignedInKeeps, PollAnsweredKeeps, RefreshedKeeps, NoteResolvedKeeps, WriteNoteKeeps
  DEF Step

LEMMA ViewStep ==
  ASSUME ViewInv, [Next]_vars
  PROVE  ViewInv' /\ GoesBackKnown
<1>1. ASSUME NEW d \in Directories, Publish(d) PROVE ViewInv' /\ GoesBackKnown
  <2>1. holds' \in [Directories -> Versions] /\ UNCHANGED <<whole, file, pc, held, got, raced>>
    BY <1>1 DEF Publish, ViewInv, TypeOK
  <2>2. TypeOK' /\ \A p \in Processes : Current(p)' /\ Unread(p)'
    BY <2>1 DEF ViewInv, TypeOK, Current, Unread
  <2>3. file.version \in Nat
    BY ViewIs DEF ViewInv, TypeOK
  <2> QED BY <2>1, <2>2, <2>3 DEF ViewInv, GoesBackKnown
<1>2. ASSUME UNCHANGED vars PROVE ViewInv' /\ GoesBackKnown
  <2>1. file.version \in Nat
    BY ViewIs DEF ViewInv, TypeOK
  <2> QED BY <1>2, <2>1 DEF ViewInv, TypeOK, Current, Unread, vars, GoesBackKnown
<1>3. ASSUME TakePolicy PROVE ViewInv' /\ GoesBackKnown
  <2>1. whole' \in Wholes /\ whole' > whole /\ UNCHANGED <<holds, file, pc, held, got, raced>>
    BY <1>3 DEF TakePolicy
  <2>2. whole' \in Nat /\ whole \in Nat /\ whole' # 0 /\ TypeOK'
    BY <2>1, ViewFileAssumption DEF ViewInv, TypeOK
  <2>3. ASSUME NEW p \in Processes PROVE Current(p)' /\ Unread(p)'
    BY <2>1, <2>2, ProcessIs DEF Current, Unread
  <2>4. file.version \in Nat
    BY ViewIs DEF ViewInv, TypeOK
  <2> QED BY <2>1, <2>2, <2>3, <2>4 DEF ViewInv, GoesBackKnown
<1> QED BY <1>1, <1>2, <1>3, StepKeeps DEF Next

LEMMA InitView == Init => ViewInv
BY ViewFileAssumption DEF Init, ViewInv, TypeOK, Current, Unread, NoView, Views, Versions, Places

\* Whatever the processes of one user do with view.json at once, one that leaves an
\* older view there read it before another wrote it (view.rs: read, refresh, poll,
\* note_seen), or cut the view from a policy.json no older than it (refresh), or is
\* wires login, whichever part of MCHomes moves.
THEOREM OnlyKnownWaysBack == MCSpec => KnownWaysBack
<1>1. MCInit => ViewInv
  BY InitView DEF MCInit
<1>2. [MCNext]_homes => [Next]_vars
  BY DEF MCNext, homes
<1>3. ViewInv /\ [Next]_vars => ViewInv'
  BY ViewStep
<1>4. ViewInv /\ [Next]_vars => [GoesBackKnown]_vars
  BY ViewStep
<1> QED BY <1>1, <1>2, <1>3, <1>4, PTL DEF MCSpec, KnownWaysBack, GoesBackKnown, homes

-----------------------------------------------------------------------------
(* The control socket, and the wait for a policy. *)

ProcRecord ==
  [phase : S!Up \cup {"builder", "built", "preflight", "fetch", "endpoint",
                      "stopping", "gone", "killed"},
   found : Procs \cup {None, Corpse}, child : BOOLEAN, stop : BOOLEAN, unseen : BOOLEAN,
   sends : BOOLEAN, took : Versions01]

ServingTypes ==
  /\ policy \in Versions01
  /\ path \in Procs \cup {None, Corpse} /\ listening \subseteq Procs
  /\ kills \in 0 .. MaxKills
  /\ proc \in [Procs -> ProcRecord]

\* The file at the path is that of the one that listens, unless one was removed that
\* nobody had probed.
SocketStands ==
  /\ path \in Procs => path \in listening
  /\ ~ unprobed => \A p \in listening : path = p

\* What is so of a process r while its home holds the policy v: it removes the file of
\* nobody that listened, and what it took is stored before it is told.
ProcStands(r, v) ==
  /\ r.phase = "unlink" => r.found \notin Procs
  /\ r.took <= v
  /\ r.phase \in {"refused", "await"} /\ v \in Assigning /\ r.took = v => r.unseen \/ r.sends

ServingInv ==
  ServingTypes /\ SocketStands /\ \A p \in Procs : ProcStands(proc[p], policy)

LEMMA ProcIs ==
  ASSUME ServingInv, NEW p \in Procs
  PROVE  /\ proc[p] \in ProcRecord /\ ProcStands(proc[p], policy)
         /\ proc[p].took \in Nat /\ policy \in Nat /\ 0 \in Versions01
BY HomesAssumption DEF ServingInv, ServingTypes, ProcRecord, S!ServingAssumption

\* A step that gives p the record r, and the socket's files theirs.
LEMMA ProcMoves ==
  ASSUME ServingInv, NEW p \in Procs, NEW r \in ProcRecord, proc' = [proc EXCEPT ![p] = r],
         kills' \in 0 .. MaxKills, policy' = policy, ProcStands(r, policy),
         path' \in Procs \cup {None, Corpse}, listening' \subseteq Procs, SocketStands'
  PROVE  ServingInv'
<1>1. ServingTypes'
  BY DEF ServingInv, ServingTypes
<1>2. ASSUME NEW q \in Procs PROVE ProcStands(proc[q], policy)'
  <2>1. proc'[q] = r \/ proc'[q] = proc[q]
    BY DEF ServingInv, ServingTypes
  <2> QED BY <2>1 DEF ServingInv, ProcStands
<1> QED BY <1>1, <1>2 DEF ServingInv

\* A step that does nothing to the files.
LEMMA ProcAlone ==
  ASSUME ServingInv, NEW p \in Procs, NEW r \in ProcRecord, proc' = [proc EXCEPT ![p] = r],
         UNCHANGED <<S!home, kills>>, ProcStands(r, policy)
  PROVE  ServingInv'
<1>1. UNCHANGED <<policy, path, listening, unprobed, kills>>
  BY DEF S!home
<1>2. SocketStands' /\ kills' \in 0 .. MaxKills
  BY <1>1 DEF ServingInv, SocketStands, ServingTypes
<1> QED BY <1>1, <1>2, ProcMoves DEF ServingInv, ServingTypes

\* A record that goes on to another place.
LEMMA PlaceIs ==
  ASSUME NEW r \in ProcRecord,
         NEW place \in S!Up \cup {"builder", "built", "preflight", "fetch", "endpoint",
                                  "stopping", "gone", "killed"}
  PROVE  /\ [r EXCEPT !.phase = place] \in ProcRecord
         /\ [r EXCEPT !.phase = place].phase = place
         /\ [r EXCEPT !.phase = place].found = r.found
         /\ [r EXCEPT !.phase = place].unseen = r.unseen
         /\ [r EXCEPT !.phase = place].sends = r.sends
         /\ [r EXCEPT !.phase = place].took = r.took
BY DEF ProcRecord

LEMMA GoesIs ==
  ASSUME ServingInv, NEW p \in Procs,
         NEW place \in S!Up \cup {"builder", "built", "preflight", "fetch", "endpoint",
                                  "stopping", "gone", "killed"},
         S!Goes(p, place)
  PROVE  \E r \in ProcRecord :
           /\ proc' = [proc EXCEPT ![p] = r]
           /\ r.phase = place /\ r.found = proc[p].found /\ r.unseen = proc[p].unseen
           /\ r.sends = proc[p].sends /\ r.took = proc[p].took
<1> DEFINE r == [proc[p] EXCEPT !.phase = place]
<1>1. proc' = [proc EXCEPT ![p] = r]
  BY DEF S!Goes
<1>2. proc[p] \in ProcRecord
  BY ProcIs
<1>3. /\ r \in ProcRecord
      /\ r.phase = place /\ r.found = proc[p].found /\ r.unseen = proc[p].unseen
      /\ r.sends = proc[p].sends /\ r.took = proc[p].took
  BY <1>2, PlaceIs
<1> HIDE DEF r
<1> QED BY <1>1, <1>3

\* A step that only goes on, to a place where nothing is required of it.
LEMMA GoesFreely ==
  ASSUME ServingInv, NEW p \in Procs,
         NEW place \in (S!Up \ {"unlink", "refused", "await"})
                       \cup {"builder", "built", "preflight", "fetch", "endpoint",
                             "stopping", "gone", "killed"},
         S!Goes(p, place), UNCHANGED <<S!home, kills>>
  PROVE  ServingInv'
<1>1. PICK r \in ProcRecord :
        /\ proc' = [proc EXCEPT ![p] = r] /\ r.phase = place /\ r.took = proc[p].took
  BY GoesIs
<1>2. ProcStands(r, policy)
  BY <1>1, ProcIs DEF ProcStands
<1> QED BY <1>1, <1>2, ProcAlone

LEMMA FreeStep ==
  ASSUME ServingInv, NEW p \in Procs,
         \/ S!Build(p) \/ S!Serve(p) \/ S!Preflight(p) \/ S!Endpoint(p) \/ S!Look(p) \/ S!Ends(p)
  PROVE  ServingInv'
<1>1. PICK place \in {"built", "gone", "endpoint", "preflight", "fetch", "look", "subscribe",
                      "serving", "listen", "probe", "stopping"} :
        S!Goes(p, place) /\ UNCHANGED <<S!home, kills>>
  BY DEF S!Build, S!Serve, S!Preflight, S!Endpoint, S!Look, S!Ends
<1> QED BY <1>1, GoesFreely DEF S!Up

LEMMA StopStep ==
  ASSUME ServingInv, NEW p \in Procs, S!Stop(p)
  PROVE  ServingInv'
<1> DEFINE r == [proc[p] EXCEPT !.stop = TRUE]
<1>1. proc' = [proc EXCEPT ![p] = r] /\ UNCHANGED <<S!home, kills>>
  BY DEF S!Stop
<1>2. /\ r \in ProcRecord /\ r.phase = proc[p].phase /\ r.found = proc[p].found
      /\ r.took = proc[p].took /\ r.unseen = proc[p].unseen /\ r.sends = proc[p].sends
  BY ProcIs DEF ProcRecord
<1> HIDE DEF r
<1>3. ProcStands(r, policy)
  BY <1>2, ProcIs DEF ProcStands
<1> QED BY <1>1, <1>2, <1>3, ProcAlone

\* Nobody that listens is removed: somebody answered, or it is not a process's file.
LEMMA ProbeStep ==
  ASSUME ServingInv, NEW p \in Procs, S!Probe(p)
  PROVE  ServingInv'
<1> DEFINE place == IF S!Live(path) THEN "stopping" ELSE "unlink"
           r == [proc[p] EXCEPT !.phase = place, !.found = path]
<1>1. proc' = [proc EXCEPT ![p] = r] /\ UNCHANGED <<S!home, kills>>
  BY DEF S!Probe
<1>2. place \in S!Up \cup {"stopping"} /\ path \in Procs \cup {None, Corpse}
  BY DEF S!Up, ServingInv, ServingTypes
<1>3. place = "unlink" => path \notin Procs
  BY DEF S!Live, ServingInv, SocketStands
<1>4. place \in {"stopping", "unlink"}
  OBVIOUS
<1> HIDE DEF place
<1>5. r \in ProcRecord /\ r.phase = place /\ r.found = path /\ r.took = proc[p].took
  BY <1>2, ProcIs DEF ProcRecord
<1> HIDE DEF r
<1>6. ProcStands(r, policy)
  BY <1>3, <1>4, <1>5, ProcIs DEF ProcStands
<1> QED BY <1>1, <1>5, <1>6, ProcAlone

\* Removing the file that was probed leaves nobody listening unreachable.
LEMMA UnlinkStep ==
  ASSUME ServingInv, NEW p \in Procs, S!Unlink(p)
  PROVE  ServingInv'
<1>1. /\ proc[p].phase = "unlink" /\ path' = None
      /\ unprobed' = (unprobed \/ path \notin {None, proc[p].found})
      /\ UNCHANGED <<policy, listening, kills>>
  BY DEF S!Unlink, S!In
<1>2. PICK place \in {"stopping", "listen"} : S!Goes(p, place)
  BY DEF S!Unlink
<1>3. PICK r \in ProcRecord :
        /\ proc' = [proc EXCEPT ![p] = r] /\ r.phase = place /\ r.took = proc[p].took
  BY <1>2, GoesIs DEF S!Up
<1>4. ProcStands(r, policy)
  BY <1>3, ProcIs DEF ProcStands
<1>5. SocketStands'
  <2>1. None \notin Procs /\ proc[p].found \notin Procs
    BY <1>1, HomesAssumption, ProcIs DEF ProcStands, S!ServingAssumption
  <2>2. ~ unprobed' => listening = {}
    BY <1>1, <2>1 DEF ServingInv, SocketStands, ServingTypes
  <2> QED BY <1>1, <2>1, <2>2 DEF SocketStands
<1> QED BY <1>1, <1>3, <1>4, <1>5, ProcMoves DEF ServingInv, ServingTypes

\* Who binds the path finds no file there, so nobody listens that was not unlinked.
LEMMA ListenStep ==
  ASSUME ServingInv, NEW p \in Procs, S!Listen(p)
  PROVE  ServingInv'
<1>1. PICK place \in {"child", "stopping"} : S!Goes(p, place)
  BY DEF S!Listen
<1>2. PICK r \in ProcRecord :
        /\ proc' = [proc EXCEPT ![p] = r] /\ r.phase = place /\ r.took = proc[p].took
  BY <1>1, GoesIs DEF S!Up
<1>3. ProcStands(r, policy)
  BY <1>2, ProcIs DEF ProcStands
<1>4. UNCHANGED <<policy, unprobed, kills>>
  BY DEF S!Listen
<1>5. CASE path = None
  <2>1. path' = p /\ listening' = listening \cup {p}
    BY <1>5 DEF S!Listen
  <2>2. ~ unprobed => listening = {}
    BY <1>5, HomesAssumption DEF ServingInv, SocketStands, ServingTypes, S!ServingAssumption
  <2>3. SocketStands'
    BY <1>4, <2>1, <2>2 DEF SocketStands
  <2> QED BY <1>2, <1>3, <1>4, <2>1, <2>3, ProcMoves DEF ServingInv, ServingTypes
<1>6. CASE path # None
  <2>1. UNCHANGED <<path, listening>>
    BY <1>6 DEF S!Listen
  <2> QED BY <1>2, <1>3, <1>4, <2>1, ProcAlone DEF S!home
<1> QED BY <1>5, <1>6

LEMMA ChildSocketStep ==
  ASSUME ServingInv, NEW p \in Procs, S!ChildSocket(p)
  PROVE  ServingInv'
<1>1. UNCHANGED <<S!home, kills>>
  BY DEF S!ChildSocket
<1>2. CASE S!Goes(p, "stopping")
  BY <1>1, <1>2, GoesFreely DEF S!Up
<1>3. CASE proc' = [proc EXCEPT ![p].phase = IF listed THEN "subscribe" ELSE "serving",
                                ![p].child = TRUE]
  <2> DEFINE place == IF listed THEN "subscribe" ELSE "serving"
             r == [proc[p] EXCEPT !.phase = place, !.child = TRUE]
  <2>1. proc' = [proc EXCEPT ![p] = r]
    BY <1>3
  <2>2. place \in {"subscribe", "serving"} /\ place \in S!Up
    BY DEF S!Up
  <2> HIDE DEF place
  <2>3. r \in ProcRecord /\ r.phase = place /\ r.took = proc[p].took
    BY <2>2, ProcIs DEF ProcRecord
  <2> HIDE DEF r
  <2>4. ProcStands(r, policy)
    BY <2>2, <2>3, ProcIs DEF ProcStands
  <2> QED BY <1>1, <2>1, <2>3, <2>4, ProcAlone
<1> QED BY <1>2, <1>3 DEF S!ChildSocket

\* It subscribes, or takes a change, and looks at the policy after that.
LEMMA LooksStep ==
  ASSUME ServingInv, NEW p \in Procs, S!Subscribe(p) \/ S!Changed(p)
  PROVE  ServingInv'
<1> DEFINE r == [proc[p] EXCEPT !.phase = "check", !.unseen = FALSE]
<1>1. proc' = [proc EXCEPT ![p] = r] /\ UNCHANGED <<S!home, kills>>
  BY DEF S!Subscribe, S!Changed
<1>2. r \in ProcRecord /\ r.phase = "check" /\ r.took = proc[p].took
  BY ProcIs DEF ProcRecord, S!Up
<1> HIDE DEF r
<1>3. ProcStands(r, policy)
  BY <1>2, ProcIs DEF ProcStands
<1> QED BY <1>1, <1>2, <1>3, ProcAlone

\* It waits only on a policy that does not assign its services, ...
LEMMA CheckStep ==
  ASSUME ServingInv, NEW p \in Procs, S!Check(p)
  PROVE  ServingInv'
<1>1. UNCHANGED <<S!home, kills>>
  BY DEF S!Check
<1>2. CASE S!Assigned
  BY <1>1, <1>2, GoesFreely DEF S!Check, S!Up
<1>3. CASE ~ S!Assigned
  <2>1. PICK r \in ProcRecord :
          /\ proc' = [proc EXCEPT ![p] = r] /\ r.phase = "refused" /\ r.took = proc[p].took
    BY <1>3, GoesIs DEF S!Check, S!Up
  <2>2. ProcStands(r, policy)
    BY <1>3, <2>1, ProcIs DEF ProcStands, S!Assigned
  <2> QED BY <1>1, <2>1, <2>2, ProcAlone
<1> QED BY <1>2, <1>3

\* ... and goes to sleep knowing of what came since.
LEMMA SleepStep ==
  ASSUME ServingInv, NEW p \in Procs, S!Sleep(p)
  PROVE  ServingInv'
<1>1. proc[p].phase = "refused" /\ S!Goes(p, "await") /\ UNCHANGED <<S!home, kills>>
  BY DEF S!Sleep, S!In
<1>2. PICK r \in ProcRecord :
        /\ proc' = [proc EXCEPT ![p] = r] /\ r.phase = "await" /\ r.took = proc[p].took
        /\ r.unseen = proc[p].unseen /\ r.sends = proc[p].sends
  BY <1>1, GoesIs DEF S!Up
<1>3. ProcStands(r, policy)
  BY <1>1, <1>2, ProcIs DEF ProcStands
<1> QED BY <1>1, <1>2, <1>3, ProcAlone

LEMMA SendsStep ==
  ASSUME ServingInv, NEW p \in Procs, S!Sends(p)
  PROVE  ServingInv'
<1> DEFINE r == [proc[p] EXCEPT !.sends = FALSE, !.unseen = TRUE]
<1>1. proc' = [proc EXCEPT ![p] = r] /\ UNCHANGED <<S!home, kills>>
  BY DEF S!Sends
<1>2. /\ r \in ProcRecord /\ r.phase = proc[p].phase /\ r.found = proc[p].found
      /\ r.took = proc[p].took /\ r.unseen
  BY ProcIs DEF ProcRecord
<1> HIDE DEF r
<1>3. ProcStands(r, policy)
  BY <1>2, ProcIs DEF ProcStands
<1> QED BY <1>1, <1>2, <1>3, ProcAlone

LEMMA ReturnStep ==
  ASSUME ServingInv, NEW p \in Procs, S!Return(p)
  PROVE  ServingInv'
<1> DEFINE r == [proc[p] EXCEPT !.phase = "gone", !.sends = FALSE]
<1>1. proc' = [proc EXCEPT ![p] = r] /\ UNCHANGED <<S!home, kills>>
  BY DEF S!Return
<1>2. r \in ProcRecord /\ r.phase = "gone" /\ r.took = proc[p].took
  BY ProcIs DEF ProcRecord
<1> HIDE DEF r
<1>3. ProcStands(r, policy)
  BY <1>2, ProcIs DEF ProcStands
<1> QED BY <1>1, <1>2, <1>3, ProcAlone

\* Dropping a socket removes whatever file is at the path: it was another's, or the
\* only one that listened is gone.
LEMMA DropStep ==
  ASSUME ServingInv, NEW p \in Procs, S!Drop(p)
  PROVE  ServingInv'
<1>1. /\ p \in listening /\ listening' = listening \ {p} /\ path' = None
      /\ unprobed' = (unprobed \/ path \notin {None, p})
      /\ UNCHANGED <<policy, proc, kills>>
  BY DEF S!Drop
<1>2. None \notin Procs
  BY HomesAssumption DEF S!ServingAssumption
<1>3. ~ unprobed' => listening \subseteq {p}
  BY <1>1 DEF ServingInv, SocketStands
<1>4. SocketStands'
  BY <1>1, <1>2, <1>3 DEF SocketStands
<1>5. proc' = [proc EXCEPT ![p] = proc[p]]
  BY <1>1 DEF ServingInv, ServingTypes
<1> QED BY <1>1, <1>4, <1>5, ProcIs, ProcMoves DEF ServingInv, ServingTypes

\* A killed process leaves its file, a corpse.
LEMMA KillStep ==
  ASSUME ServingInv, NEW p \in Procs, S!Kill(p)
  PROVE  ServingInv'
<1>1. /\ kills < MaxKills /\ kills' = kills + 1 /\ listening' = listening \ {p}
      /\ path' = (IF path = p THEN Corpse ELSE path)
      /\ S!Goes(p, "killed") /\ UNCHANGED <<policy, unprobed>>
  BY DEF S!Kill
<1>2. PICK r \in ProcRecord :
        /\ proc' = [proc EXCEPT ![p] = r] /\ r.phase = "killed" /\ r.took = proc[p].took
  BY <1>1, GoesIs
<1>3. ProcStands(r, policy)
  BY <1>2, ProcIs DEF ProcStands
<1>4. kills' \in 0 .. MaxKills
  BY <1>1, HomesAssumption DEF ServingInv, ServingTypes, S!ServingAssumption
<1>5. SocketStands'
  BY <1>1, HomesAssumption DEF ServingInv, SocketStands, S!ServingAssumption
<1> QED BY <1>1, <1>2, <1>3, <1>4, <1>5, ProcMoves DEF ServingInv, ServingTypes

\* A policy that is newer is none that a process took before.
LEMMA PolicyMoves ==
  ASSUME ServingInv, NEW p \in Procs, NEW r \in ProcRecord, proc' = [proc EXCEPT ![p] = r],
         NEW v \in Versions01, v >= policy, policy' = v, ProcStands(r, v),
         UNCHANGED <<path, listening, unprobed, kills>>
  PROVE  ServingInv'
<1>1. ServingTypes' /\ SocketStands'
  BY DEF ServingInv, ServingTypes, SocketStands
<1>2. ASSUME NEW q \in Procs PROVE ProcStands(proc[q], policy)'
  <2>1. CASE q = p
    BY <2>1 DEF ServingInv, ServingTypes, ProcStands
  <2>2. CASE q # p
    <3>1. proc'[q] = proc[q]
      BY <2>2 DEF ServingInv, ServingTypes
    <3>2. v \in Nat /\ policy \in Nat /\ proc[q].took \in Nat /\ ProcStands(proc[q], policy)
      BY HomesAssumption, ProcIs DEF S!ServingAssumption
    <3>3. proc[q].took <= v /\ (v # policy => proc[q].took # v)
      BY <3>2 DEF ProcStands
    <3> QED BY <3>1, <3>2, <3>3 DEF ProcStands
  <2> QED BY <2>1, <2>2
<1> QED BY <1>1, <1>2 DEF ServingInv

LEMMA FetchStep ==
  ASSUME ServingInv, NEW p \in Procs, NEW v \in Versions01, S!Fetch(p, v)
  PROVE  ServingInv'
<1>1. v >= policy /\ policy' = v /\ UNCHANGED <<path, listening, unprobed, kills>>
  BY DEF S!Fetch
<1>2. PICK place \in {"endpoint", "gone"} : S!Goes(p, place)
  BY DEF S!Fetch
<1>3. PICK r \in ProcRecord :
        /\ proc' = [proc EXCEPT ![p] = r] /\ r.phase = place /\ r.took = proc[p].took
  BY <1>2, GoesIs
<1>4. v \in Nat /\ policy \in Nat /\ proc[p].took \in Nat /\ proc[p].took <= policy
  BY HomesAssumption, ProcIs DEF S!ServingAssumption, ProcStands
<1>5. ProcStands(r, v)
  BY <1>1, <1>3, <1>4 DEF ProcStands
<1> QED BY <1>1, <1>3, <1>5, PolicyMoves

LEMMA TakesStep ==
  ASSUME ServingInv, NEW p \in Procs, NEW v \in Versions01, S!Takes(p, v)
  PROVE  ServingInv'
<1> DEFINE r == [proc[p] EXCEPT !.sends = TRUE, !.took = v]
<1>1. /\ proc' = [proc EXCEPT ![p] = r] /\ v > policy /\ policy' = v
      /\ UNCHANGED <<path, listening, unprobed, kills>>
  BY DEF S!Takes
<1>2. /\ r \in ProcRecord /\ r.phase = proc[p].phase /\ r.found = proc[p].found
      /\ r.took = v /\ r.sends
  BY ProcIs DEF ProcRecord
<1> HIDE DEF r
<1>3. v \in Nat /\ policy \in Nat /\ v >= policy
  BY <1>1, HomesAssumption, ProcIs DEF S!ServingAssumption
<1>4. ProcStands(r, v)
  BY <1>2, <1>3, ProcIs DEF ProcStands
<1> QED BY <1>1, <1>2, <1>3, <1>4, PolicyMoves

LEMMA ServingStep ==
  ASSUME ServingInv, [S!Next]_(S!vars)
  PROVE  ServingInv'
<1>1. CASE UNCHANGED S!vars
  BY <1>1 DEF S!vars, ServingInv, ServingTypes, SocketStands, ProcStands
<1>2. CASE S!Next
  <2>1. PICK p \in Procs :
          \/ S!Build(p) \/ S!Serve(p) \/ S!Stop(p) \/ S!Progress(p)
          \/ S!Sends(p) \/ S!Drop(p) \/ S!Kill(p)
          \/ \E v \in Versions01 : S!Takes(p, v)
    BY <1>2 DEF S!Next
  <2>2. CASE S!Progress(p)
    BY <2>2, FreeStep, ProbeStep, UnlinkStep, ListenStep, ChildSocketStep, LooksStep, CheckStep,
       SleepStep, ReturnStep, FetchStep DEF S!Progress
  <2> QED BY <2>1, <2>2, FreeStep, StopStep, SendsStep, DropStep, KillStep, TakesStep
<1> QED BY <1>1, <1>2

LEMMA InitServing == S!Init => ServingInv
<1> SUFFICES ASSUME S!Init PROVE ServingInv
  OBVIOUS
<1>1. S!New \in ProcRecord /\ S!New.phase = "builder" /\ S!New.took = 0
  BY HomesAssumption DEF S!New, ProcRecord, S!ServingAssumption
<1>2. policy \in Nat
  BY HomesAssumption DEF S!Init, S!ServingAssumption
<1>3. ProcStands(S!New, policy)
  BY <1>1, <1>2 DEF ProcStands
<1>4. ServingTypes
  BY <1>1, HomesAssumption DEF S!Init, ServingTypes, S!ServingAssumption
<1>5. SocketStands
  BY HomesAssumption DEF S!Init, SocketStands, S!ServingAssumption
<1>6. \A p \in Procs : proc[p] = S!New
  BY DEF S!Init
<1> QED BY <1>3, <1>4, <1>5, <1>6 DEF ServingInv

LEMMA SameSize == \A s : S!Cardinality(s) = Cardinality(s)
BY DEF S!Cardinality, Cardinality

LEMMA ServingInvServes == ServingInv => ServesItsHome
<1> SUFFICES ASSUME ServingInv PROVE ServesItsHome
  OBVIOUS
<1>1. S!TypeOK
  BY DEF ServingInv, ServingTypes, ProcRecord, S!TypeOK
<1>2. S!OneServeAHome
  <2>1. CASE unprobed
    BY <2>1 DEF S!OneServeAHome
  <2>2. CASE listening = {}
    <3>1. Cardinality(listening) = 0
      BY <2>2, FS_EmptySet
    <3> QED BY <3>1, SameSize DEF S!OneServeAHome
  <2>3. CASE ~ unprobed /\ listening # {}
    <3>1. listening = {path}
      BY <2>3 DEF ServingInv, SocketStands
    <3>2. Cardinality(listening) = 1
      BY <3>1, FS_Singleton
    <3> QED BY <3>2, SameSize DEF S!OneServeAHome
  <2> QED BY <2>1, <2>2, <2>3
<1>3. S!NeverSleepsOnAPolicy
  BY DEF ServingInv, ProcStands, S!NeverSleepsOnAPolicy, S!In, S!Assigned
<1> QED BY <1>1, <1>2, <1>3 DEF ServesItsHome, S!ServesItsHome

\* However many hosts are built on one home, stopped and killed: two answer at its
\* control socket only once one removed a file it had not probed, and none sleeps on a
\* policy that its own directory took and that would let it serve (serve.rs, control.rs).
THEOREM HomesAreServed == MCSpec => []ServesItsHome
<1>1. MCInit => ServingInv
  BY InitServing DEF MCInit
<1>2. ServingInv /\ [MCNext]_homes => ServingInv'
  <2>1. [MCNext]_homes => [S!Next]_(S!vars)
    BY DEF MCNext, homes, served, S!vars
  <2> QED BY <2>1, ServingStep
<1> QED BY <1>1, <1>2, ServingInvServes, PTL DEF MCSpec, homes

-----------------------------------------------------------------------------
(* What a publish reports. *)

Signed == [version : Nat, dirs : SUBSET Dirs, by : Admins \cup {"nobody", "init"}]

EditRecord == [at : {"edit", "read"}, retry : {"reached", "every"}, earlier : SUBSET Dirs]

PublishRecord ==
  [at : {"publish"}, held : Signed, patient : SUBSET Dirs, listed : SUBSET Dirs,
   asking : SUBSET Dirs, delivered : SUBSET Dirs, missed : SUBSET Dirs,
   refused : SUBSET Dirs, newer : SUBSET Dirs]

NoteRecord ==
  [at : {"note"}, held : Signed, listed : SUBSET Dirs, delivered : SUBSET Dirs,
   outcome : {"stale", "missed", "ok"}]

WriteRecord == [at : {"write"}, delivered : SUBSET Dirs, all : SUBSET Dirs]

CommandRecord == [at : {"idle"}] \cup EditRecord \cup PublishRecord \cup NoteRecord \cup WriteRecord

FilesTyped ==
  /\ stored \in Signed /\ taken \in [Dirs -> Signed]
  /\ reached \subseteq Dirs /\ noted \subseteq Dirs

\* q, or a newer one.
Holds(p, q) == p = q \/ P!IsNewer(p, q)

\* Another policy than q, and not an older one.
Overtakes(p, q) == p # q /\ ~ P!IsNewer(q, p)

\* What is so of a command k that publishes, when the directories hold h: whom it says
\* it reached holds what it published, who had something newer still has, and each
\* directory listed is in one of its lists.
ReportStands(k, h) ==
  k.at = "publish" =>
    /\ \A d \in k.delivered : Holds(h[d], k.held)
    /\ \A d \in k.newer : Overtakes(h[d], k.held)
    /\ k.listed \subseteq k.asking \cup k.delivered \cup k.missed \cup k.newer

PublishInv ==
  /\ FilesTyped
  /\ cmd \in [Admins -> CommandRecord]
  /\ \A c \in Admins : ReportStands(cmd[c], taken)

\* Directories only go forward.
Forward == \A d \in Dirs : Holds(taken'[d], taken[d])

LEMMA HoldsCarries ==
  ASSUME NEW p \in Signed, NEW q \in Signed, NEW r \in Signed, Holds(p, q)
  PROVE  /\ Holds(q, r) => Holds(p, r)
         /\ Overtakes(q, r) => Overtakes(p, r)
BY DEF Holds, Overtakes, P!IsNewer, Signed

\* Going forward, the directories keep a report true.
LEMMA ReportCarries ==
  ASSUME FilesTyped, FilesTyped', Forward, NEW k \in CommandRecord, ReportStands(k, taken)
  PROVE  ReportStands(k, taken')
<1> SUFFICES ASSUME k.at = "publish" PROVE ReportStands(k, taken')
  BY DEF ReportStands
<1>1. k \in PublishRecord
  BY DEF CommandRecord, EditRecord, NoteRecord, WriteRecord
<1>2. k.held \in Signed /\ k.delivered \subseteq Dirs /\ k.newer \subseteq Dirs
  BY <1>1 DEF PublishRecord
<1>3. \A d \in Dirs : taken[d] \in Signed /\ taken'[d] \in Signed
  BY DEF FilesTyped
<1>4. \A d \in k.delivered : Holds(taken'[d], k.held)
  BY <1>2, <1>3, HoldsCarries DEF ReportStands, Forward
<1>5. \A d \in k.newer : Overtakes(taken'[d], k.held)
  BY <1>2, <1>3, HoldsCarries DEF ReportStands, Forward
<1> QED BY <1>4, <1>5 DEF ReportStands

\* A step that gives a command the record r, and the files and the directories theirs.
LEMMA CommandMoves ==
  ASSUME PublishInv, NEW c \in Admins, NEW r \in CommandRecord, cmd' = [cmd EXCEPT ![c] = r],
         FilesTyped', Forward, ReportStands(r, taken')
  PROVE  PublishInv'
<1>1. cmd' \in [Admins -> CommandRecord]
  BY DEF PublishInv
<1>2. ASSUME NEW e \in Admins PROVE ReportStands(cmd[e], taken)'
  <2>1. CASE e = c
    BY <2>1 DEF PublishInv, ReportStands
  <2>2. CASE e # c
    <3>1. cmd'[e] = cmd[e] /\ cmd[e] \in CommandRecord
      BY <2>2 DEF PublishInv
    <3>2. ReportStands(cmd[e], taken')
      BY <3>1, ReportCarries DEF PublishInv
    <3> QED BY <3>1, <3>2 DEF ReportStands
  <2> QED BY <2>1, <2>2
<1> QED BY <1>1, <1>2 DEF PublishInv

\* Most steps are the command's alone.
LEMMA CommandAlone ==
  ASSUME PublishInv, NEW c \in Admins, NEW r \in CommandRecord, cmd' = [cmd EXCEPT ![c] = r],
         FilesTyped', taken' = taken, r.at # "publish"
  PROVE  PublishInv'
<1>1. Forward
  BY DEF Forward, Holds
<1> QED BY <1>1, CommandMoves DEF ReportStands

LEMMA CommandIs ==
  ASSUME PublishInv, NEW c \in Admins
  PROVE  /\ cmd[c] \in CommandRecord /\ ReportStands(cmd[c], taken) /\ FilesTyped
         /\ cmd[c].at \in {"edit", "read"} => cmd[c] \in EditRecord
         /\ cmd[c].at = "publish" => cmd[c] \in PublishRecord
         /\ cmd[c].at = "note" => cmd[c] \in NoteRecord
         /\ cmd[c].at = "write" => cmd[c] \in WriteRecord
<1>1. cmd[c] \in CommandRecord
  BY DEF PublishInv
<1> QED BY <1>1 DEF PublishInv, CommandRecord, EditRecord, PublishRecord, NoteRecord, WriteRecord

LEMMA BeginKeeps ==
  ASSUME PublishInv, NEW c \in Admins, P!Begin(c)
  PROVE  PublishInv'
<1>1. PICK retry \in {"reached", "every"} :
        cmd' = [cmd EXCEPT ![c] = [at |-> "edit", retry |-> retry, earlier |-> stored.dirs]]
  BY DEF P!Begin
<1> DEFINE r == [at |-> "edit", retry |-> retry, earlier |-> stored.dirs]
<1>2. stored \in Signed /\ UNCHANGED <<stored, reached, noted, taken>>
  BY CommandIs DEF P!Begin, FilesTyped
<1>3. r \in EditRecord /\ r.at # "publish"
  BY <1>2 DEF EditRecord, Signed
<1>4. FilesTyped'
  BY <1>2, CommandIs DEF FilesTyped
<1> HIDE DEF r
<1>5. cmd' = [cmd EXCEPT ![c] = r] /\ r \in CommandRecord
  BY <1>1, <1>3 DEF r, CommandRecord
<1> QED BY <1>2, <1>3, <1>4, <1>5, CommandAlone

LEMMA EditKeeps ==
  ASSUME PublishInv, NEW c \in Admins, P!Edit(c)
  PROVE  PublishInv'
<1> DEFINE r == [cmd[c] EXCEPT !.at = "read"]
<1>1. cmd[c].at = "edit" /\ cmd' = [cmd EXCEPT ![c] = r] /\ UNCHANGED <<reached, noted, taken>>
  BY DEF P!Edit
<1>2. r \in EditRecord /\ r.at # "publish"
  BY <1>1, CommandIs DEF EditRecord
<1>3. stored' \in Signed
  <2>1. stored \in Signed /\ stored.version \in Nat
    BY CommandIs DEF FilesTyped, Signed
  <2>2. CASE stored' = stored
    BY <2>1, <2>2
  <2>3. CASE \E dirs \in SUBSET Dirs : stored' = [version |-> stored.version + 1, dirs |-> dirs, by |-> c]
    <3>1. stored.version + 1 \in Nat
      BY <2>1
    <3> QED BY <2>3, <3>1 DEF Signed
  <2> QED BY <2>2, <2>3 DEF P!Edit
<1>4. FilesTyped'
  BY <1>1, <1>3, CommandIs DEF FilesTyped
<1> HIDE DEF r
<1>5. r \in CommandRecord
  BY <1>2 DEF CommandRecord
<1> QED BY <1>1, <1>2, <1>4, <1>5, CommandAlone

\* A command that ends without a word, or is killed.
LEMMA IdleKeeps ==
  ASSUME PublishInv, NEW c \in Admins, P!EditFails(c) \/ P!Kill(c)
  PROVE  PublishInv'
<1> DEFINE r == [at |-> "idle"]
<1>1. cmd' = [cmd EXCEPT ![c] = r] /\ UNCHANGED <<stored, reached, noted, taken>>
  BY DEF P!EditFails, P!Kill
<1>2. r \in CommandRecord /\ r.at # "publish"
  BY DEF CommandRecord
<1>3. FilesTyped'
  BY <1>1, CommandIs DEF FilesTyped
<1> QED BY <1>1, <1>2, <1>3, CommandAlone

\* Whom it publishes to includes every directory it lists.
LEMMA ReadStoredKeeps ==
  ASSUME PublishInv, NEW c \in Admins, P!ReadStored(c)
  PROVE  PublishInv'
<1> DEFINE r == [at |-> "publish", held |-> stored,
                 patient |-> P!Patient(stored, cmd[c].retry), listed |-> stored.dirs,
                 asking |-> P!Targets(stored, cmd[c].earlier),
                 delivered |-> {}, missed |-> {}, refused |-> {}, newer |-> {}]
<1>1. cmd[c].at = "read" /\ cmd' = [cmd EXCEPT ![c] = r] /\ UNCHANGED <<stored, reached, noted, taken>>
  BY DEF P!ReadStored
<1>2. stored \in Signed /\ stored.dirs \subseteq Dirs /\ cmd[c].earlier \subseteq Dirs
  BY <1>1, CommandIs DEF FilesTyped, Signed, EditRecord
<1>3. /\ P!Patient(stored, cmd[c].retry) \subseteq Dirs
      /\ P!Targets(stored, cmd[c].earlier) \subseteq Dirs
      /\ stored.dirs \subseteq P!Targets(stored, cmd[c].earlier)
  BY <1>2 DEF P!Patient, P!Targets
<1>4. r \in PublishRecord
  BY <1>2, <1>3 DEF PublishRecord
<1>5. r.delivered = {} /\ r.newer = {} /\ r.listed \subseteq r.asking
  BY <1>3
<1> HIDE DEF r
<1>6. r \in CommandRecord /\ ReportStands(r, taken')
  BY <1>4, <1>5 DEF CommandRecord, ReportStands
<1>7. FilesTyped' /\ Forward
  BY <1>1, CommandIs DEF FilesTyped, Forward, Holds
<1> QED BY <1>1, <1>6, <1>7, CommandMoves

\* A directory that answered moves to the lists its answer says, and one at least.
LEMMA PutIs ==
  ASSUME NEW k \in PublishRecord, NEW d \in k.asking,
         NEW lists \in SUBSET {"delivered", "missed", "refused", "newer"}
  PROVE  /\ P!Put(k, d, lists) \in PublishRecord
         /\ P!Put(k, d, lists).held = k.held
         /\ P!Put(k, d, lists).listed = k.listed
         /\ P!Put(k, d, lists).asking = k.asking \ {d}
         /\ P!Put(k, d, lists).delivered = k.delivered \cup (IF "delivered" \in lists THEN {d} ELSE {})
         /\ P!Put(k, d, lists).missed = k.missed \cup (IF "missed" \in lists THEN {d} ELSE {})
         /\ P!Put(k, d, lists).newer = k.newer \cup (IF "newer" \in lists THEN {d} ELSE {})
<1> DEFINE ask == k.asking \ {d}
           del == IF "delivered" \in lists THEN k.delivered \cup {d} ELSE k.delivered
           mis == IF "missed" \in lists THEN k.missed \cup {d} ELSE k.missed
           ref == IF "refused" \in lists THEN k.refused \cup {d} ELSE k.refused
           new == IF "newer" \in lists THEN k.newer \cup {d} ELSE k.newer
           r == [k EXCEPT !.asking = ask, !.delivered = del, !.missed = mis,
                          !.refused = ref, !.newer = new]
<1>1. P!Put(k, d, lists) = r
  BY DEF P!Put
<1>2. /\ ask \subseteq Dirs /\ del \subseteq Dirs /\ mis \subseteq Dirs
      /\ ref \subseteq Dirs /\ new \subseteq Dirs
  BY DEF PublishRecord
<1>3. /\ del = k.delivered \cup (IF "delivered" \in lists THEN {d} ELSE {})
      /\ mis = k.missed \cup (IF "missed" \in lists THEN {d} ELSE {})
      /\ new = k.newer \cup (IF "newer" \in lists THEN {d} ELSE {})
  OBVIOUS
<1> HIDE DEF ask, del, mis, ref, new
<1>4. r.held = k.held /\ r.listed = k.listed
  BY DEF PublishRecord
<1>5. r.asking = ask /\ r.delivered = del /\ r.missed = mis /\ r.newer = new
  BY DEF PublishRecord
<1>6. r \in PublishRecord
  BY <1>2 DEF PublishRecord
<1> HIDE DEF r
<1>7. r.asking = k.asking \ {d}
  BY <1>5 DEF ask
<1> QED BY <1>1, <1>3, <1>4, <1>5, <1>6, <1>7

LEMMA PutStands ==
  ASSUME NEW k \in PublishRecord, NEW d \in k.asking, NEW h, ReportStands(k, h),
         NEW lists \in SUBSET {"delivered", "missed", "refused", "newer"},
         \E list \in {"delivered", "missed", "newer"} : list \in lists,
         "delivered" \in lists => Holds(h[d], k.held),
         "newer" \in lists => Overtakes(h[d], k.held)
  PROVE  ReportStands(P!Put(k, d, lists), h)
<1>1. PICK r \in PublishRecord :
        /\ r = P!Put(k, d, lists) /\ r.held = k.held /\ r.listed = k.listed
        /\ r.asking = k.asking \ {d}
        /\ r.delivered = k.delivered \cup (IF "delivered" \in lists THEN {d} ELSE {})
        /\ r.missed = k.missed \cup (IF "missed" \in lists THEN {d} ELSE {})
        /\ r.newer = k.newer \cup (IF "newer" \in lists THEN {d} ELSE {})
  BY PutIs
<1>2. k.at = "publish"
  BY DEF PublishRecord
<1>3. \A e \in r.delivered : Holds(h[e], r.held)
  BY <1>1, <1>2 DEF ReportStands
<1>4. \A e \in r.newer : Overtakes(h[e], r.held)
  BY <1>1, <1>2 DEF ReportStands
<1>5. r.listed \subseteq r.asking \cup r.delivered \cup r.missed \cup r.newer
  BY <1>1, <1>2 DEF ReportStands
<1> QED BY <1>1, <1>3, <1>4, <1>5 DEF ReportStands

LEMMA AdoptedIs ==
  ASSUME NEW p \in Signed, NEW q \in Signed
  PROVE  /\ P!Adopted(p, q) \in Signed /\ Holds(P!Adopted(p, q), q)
         /\ P!IsStale(P!Adopted(p, q), p) => Overtakes(P!Adopted(p, q), p)
         /\ P!SameHead(P!Adopted(p, q), p) => Holds(P!Adopted(p, q), p)
BY DEF P!Adopted, Holds, Overtakes, P!IsNewer, P!IsStale, P!SameHead, Signed

\* One directory's copy becomes what it adopts.
LEMMA TakesIs ==
  ASSUME FilesTyped, NEW d \in Dirs, NEW p \in Signed,
         taken' = [taken EXCEPT ![d] = P!Adopted(p, taken[d])], UNCHANGED <<stored, reached, noted>>
  PROVE  FilesTyped' /\ Forward /\ taken'[d] = P!Adopted(p, taken[d])
<1>1. taken[d] \in Signed
  BY DEF FilesTyped
<1> DEFINE a == P!Adopted(p, taken[d])
<1>2. a \in Signed /\ Holds(a, taken[d])
  BY <1>1, AdoptedIs
<1>3. taken' = [taken EXCEPT ![d] = a]
  OBVIOUS
<1> HIDE DEF a
<1>4. FilesTyped' /\ taken'[d] = a
  BY <1>2, <1>3 DEF FilesTyped
<1>5. Forward
  BY <1>2, <1>3, <1>4 DEF Forward, FilesTyped, Holds
<1> QED BY <1>4, <1>5 DEF a

LEMMA ExchangeKeeps ==
  ASSUME PublishInv, NEW c \in Admins, NEW d \in Dirs, P!Exchange(c, d)
  PROVE  PublishInv'
<1> DEFINE k == cmd[c]
           answer == P!Adopted(k.held, taken[d])
           lists == IF P!IsStale(answer, k.held) THEN {"newer"}
                    ELSE IF P!SameHead(answer, k.held) THEN {"delivered"}
                    ELSE {"missed", "refused"}
           r == P!Put(k, d, lists)
<1>1. /\ k.at = "publish" /\ d \in k.asking
      /\ taken' = [taken EXCEPT ![d] = answer] /\ cmd' = [cmd EXCEPT ![c] = r]
      /\ UNCHANGED <<stored, reached, noted>>
  BY DEF P!Exchange
<1>2. k \in PublishRecord /\ k.held \in Signed /\ ReportStands(k, taken) /\ taken[d] \in Signed
  BY <1>1, CommandIs DEF PublishRecord, FilesTyped
<1>3. FilesTyped' /\ Forward /\ taken'[d] = answer
  BY <1>1, <1>2, CommandIs, TakesIs
<1>4. lists \in SUBSET {"delivered", "missed", "refused", "newer"}
  OBVIOUS
<1>5. \E list \in {"delivered", "missed", "newer"} : list \in lists
  OBVIOUS
<1>6. /\ "delivered" \in lists => P!SameHead(answer, k.held)
      /\ "newer" \in lists => P!IsStale(answer, k.held)
  OBVIOUS
<1>7. /\ "delivered" \in lists => Holds(taken'[d], k.held)
      /\ "newer" \in lists => Overtakes(taken'[d], k.held)
  BY <1>2, <1>3, <1>6, AdoptedIs
<1> HIDE DEF k, answer, lists
<1>8. k \in CommandRecord /\ FilesTyped
  BY CommandIs DEF k
<1>9. ReportStands(k, taken')
  BY <1>2, <1>3, <1>8, ReportCarries
<1>10. r \in PublishRecord /\ ReportStands(r, taken')
  BY <1>1, <1>2, <1>4, <1>5, <1>7, <1>9, PutIs, PutStands
<1> HIDE DEF r
<1> QED BY <1>1, <1>3, <1>10, CommandMoves DEF CommandRecord

LEMMA MissKeeps ==
  ASSUME PublishInv, NEW c \in Admins, NEW d \in Dirs, P!Miss(c, d) \/ P!Refuse(c, d)
  PROVE  PublishInv'
<1> DEFINE k == cmd[c]
<1>1. PICK lists \in {{"missed"}, {"missed", "refused"}} : cmd' = [cmd EXCEPT ![c] = P!Put(k, d, lists)]
  BY DEF P!Miss, P!Refuse
<1> DEFINE r == P!Put(k, d, lists)
<1>2. /\ k.at = "publish" /\ d \in k.asking /\ UNCHANGED <<stored, reached, noted>>
      /\ taken' = taken \/ taken' = [taken EXCEPT ![d] = P!Adopted(k.held, taken[d])]
  BY DEF P!Miss, P!Refuse
<1>3. k \in PublishRecord /\ k.held \in Signed /\ ReportStands(k, taken) /\ k \in CommandRecord /\ FilesTyped
  BY <1>2, CommandIs DEF PublishRecord
<1>4. FilesTyped' /\ Forward
  <2>1. CASE taken' = taken
    BY <1>2, <1>3, <2>1 DEF FilesTyped, Forward, Holds
  <2>2. CASE taken' = [taken EXCEPT ![d] = P!Adopted(k.held, taken[d])]
    BY <1>2, <1>3, <2>2, TakesIs
  <2> QED BY <1>2, <2>1, <2>2
<1> HIDE DEF k
<1>5. ReportStands(k, taken')
  BY <1>3, <1>4, ReportCarries
<1>6. /\ lists \in SUBSET {"delivered", "missed", "refused", "newer"} /\ "missed" \in lists
      /\ "delivered" \notin lists /\ "newer" \notin lists
  BY <1>1
<1>7. r \in PublishRecord /\ ReportStands(r, taken')
  BY <1>2, <1>3, <1>5, <1>6, PutIs, PutStands
<1>8. cmd' = [cmd EXCEPT ![c] = r]
  BY <1>1 DEF k
<1> HIDE DEF r
<1> QED BY <1>4, <1>7, <1>8, CommandMoves DEF CommandRecord

\* Those asked again are in no list meanwhile.
LEMMA NextRoundKeeps ==
  ASSUME PublishInv, NEW c \in Admins, P!NextRound(c)
  PROVE  PublishInv'
<1> DEFINE k == cmd[c]
           again == P!Again(k)
           left == k.missed \ again
           r == [k EXCEPT !.asking = again, !.missed = left]
<1>1. /\ k.at = "publish" /\ k.asking = {} /\ cmd' = [cmd EXCEPT ![c] = r]
      /\ UNCHANGED <<stored, reached, noted, taken>>
  BY DEF P!NextRound
<1>2. k \in PublishRecord /\ ReportStands(k, taken)
  BY <1>1, CommandIs
<1>3. again \subseteq Dirs /\ left \subseteq Dirs /\ again \subseteq k.missed
  BY <1>2 DEF P!Again, PublishRecord
<1>4. k.missed \subseteq again \cup left
  OBVIOUS
<1> HIDE DEF k, again, left
<1>5. /\ r \in PublishRecord /\ r.held = k.held /\ r.listed = k.listed /\ r.asking = again
      /\ r.missed = left /\ r.delivered = k.delivered /\ r.newer = k.newer
  BY <1>2, <1>3 DEF PublishRecord
<1> HIDE DEF r
<1>6. ReportStands(r, taken')
  BY <1>1, <1>2, <1>4, <1>5 DEF ReportStands
<1>7. FilesTyped' /\ Forward
  BY <1>1, CommandIs DEF FilesTyped, Forward, Holds
<1> QED BY <1>1, <1>5, <1>6, <1>7, CommandMoves DEF CommandRecord

LEMMA SettleIs ==
  ASSUME PublishInv, NEW c \in Admins, P!Settle(c)
  PROVE  \E r \in NoteRecord :
           /\ cmd' = [cmd EXCEPT ![c] = r] /\ r.outcome = P!Outcome(cmd[c])
           /\ UNCHANGED <<stored, reached, noted, taken>>
<1> DEFINE k == cmd[c]
           r == [at |-> "note", held |-> k.held, listed |-> k.listed,
                 delivered |-> k.delivered, outcome |-> P!Outcome(k)]
<1>1. /\ k.at = "publish" /\ cmd' = [cmd EXCEPT ![c] = r]
      /\ UNCHANGED <<stored, reached, noted, taken>>
  BY DEF P!Settle
<1>2. k \in PublishRecord
  BY <1>1, CommandIs
<1>3. P!Outcome(k) \in {"stale", "missed", "ok"}
  BY DEF P!Outcome
<1>4. r \in NoteRecord /\ r.outcome = P!Outcome(k)
  BY <1>2, <1>3 DEF NoteRecord, PublishRecord
<1> HIDE DEF r
<1> QED BY <1>1, <1>4

LEMMA SettleKeeps ==
  ASSUME PublishInv, NEW c \in Admins, P!Settle(c)
  PROVE  PublishInv'
<1>1. PICK r \in NoteRecord : cmd' = [cmd EXCEPT ![c] = r] /\ UNCHANGED <<stored, reached, noted, taken>>
  BY SettleIs
<1>2. r \in CommandRecord /\ r.at # "publish"
  BY DEF CommandRecord, NoteRecord
<1>3. FilesTyped'
  BY <1>1, CommandIs DEF FilesTyped
<1> QED BY <1>1, <1>2, <1>3, CommandAlone

LEMMA ReadReachedKeeps ==
  ASSUME PublishInv, NEW c \in Admins, P!ReadReached(c)
  PROVE  PublishInv'
<1> DEFINE r == [at |-> "write", delivered |-> cmd[c].delivered, all |-> reached]
<1>1. /\ cmd[c].at = "note" /\ cmd' = [cmd EXCEPT ![c] = r]
      /\ UNCHANGED <<stored, reached, noted, taken>>
  BY DEF P!ReadReached
<1>2. r \in WriteRecord /\ r.at # "publish"
  BY <1>1, CommandIs DEF WriteRecord, NoteRecord, FilesTyped
<1> HIDE DEF r
<1>3. FilesTyped' /\ r \in CommandRecord
  BY <1>1, <1>2, CommandIs DEF FilesTyped, CommandRecord
<1> QED BY <1>1, <1>2, <1>3, CommandAlone

LEMMA WriteReachedKeeps ==
  ASSUME PublishInv, NEW c \in Admins, P!WriteReached(c)
  PROVE  PublishInv'
<1> DEFINE r == [at |-> "idle"]
<1>1. /\ cmd[c].at = "write" /\ cmd' = [cmd EXCEPT ![c] = r] /\ UNCHANGED <<stored, taken>>
      /\ reached' \in {reached, cmd[c].all \cup cmd[c].delivered}
      /\ noted' = noted \cup cmd[c].delivered
  BY DEF P!WriteReached, P!WithDelivered
<1>2. cmd[c].all \subseteq Dirs /\ cmd[c].delivered \subseteq Dirs
  BY <1>1, CommandIs DEF WriteRecord
<1>3. FilesTyped' /\ r \in CommandRecord
  BY <1>1, <1>2, CommandIs DEF FilesTyped, CommandRecord
<1> QED BY <1>1, <1>3, CommandAlone

LEMMA CommandStepKeeps ==
  ASSUME PublishInv, NEW c \in Admins, P!CommandStep(c)
  PROVE  PublishInv'
BY BeginKeeps, EditKeeps, IdleKeeps, ReadStoredKeeps, ExchangeKeeps, MissKeeps, NextRoundKeeps,
   SettleKeeps, ReadReachedKeeps, WriteReachedKeeps DEF P!CommandStep

\* The directories' own steps, the hosts' and the operator's leave the commands alone.
LEMMA OthersKeep ==
  ASSUME PublishInv, UNCHANGED <<cmd, taken, reached, noted>>, stored' \in Signed
  PROVE  PublishInv'
BY DEF PublishInv, FilesTyped, ReportStands

LEMMA RestoreIs ==
  ASSUME PublishInv, P!Restore
  PROVE  /\ stored' \in Signed /\ UNCHANGED <<cmd, taken, reached, noted>>
         /\ \A c \in Admins : cmd[c].at = "idle"
BY DEF P!Restore, P!Busy, PublishInv, FilesTyped

LEMMA RunsIs ==
  ASSUME \/ \E f \in Fetchers : P!HostStep(f)
         \/ UNCHANGED P!vars
  PROVE  UNCHANGED <<stored, cmd, taken, reached, noted>>
BY DEF P!HostStep, P!StartFetch, P!EndFetch, P!Ask, P!vars

LEMMA PublishStep ==
  ASSUME PublishInv, [P!Next]_(P!vars)
  PROVE  PublishInv'
<1>1. CASE P!Restore
  BY <1>1, RestoreIs, OthersKeep
<1>2. CASE \E c \in Admins : P!CommandStep(c)
  BY <1>2, CommandStepKeeps
<1>3. CASE \/ \E f \in Fetchers : P!HostStep(f)
           \/ UNCHANGED P!vars
  <2>1. UNCHANGED <<stored, cmd, taken, reached, noted>> /\ stored \in Signed
    BY <1>3, RunsIs DEF PublishInv, FilesTyped
  <2> QED BY <2>1, OthersKeep
<1> QED BY <1>1, <1>2, <1>3 DEF P!Next

LEMMA InitPublishing == P!Init => PublishInv
<1> SUFFICES ASSUME P!Init PROVE PublishInv
  OBVIOUS
<1>1. P!NoPolicy \in Signed /\ P!FirstPolicy \in Signed
  BY HomesAssumption DEF P!NoPolicy, P!FirstPolicy, Signed, P!PublishingAssumption
<1>2. FilesTyped
  BY <1>1 DEF P!Init, FilesTyped
<1>3. cmd \in [Admins -> CommandRecord] /\ \A c \in Admins : cmd[c].at = "idle"
  BY DEF P!Init, CommandRecord
<1> QED BY <1>2, <1>3 DEF PublishInv, ReportStands

LEMMA InvDelivers == PublishInv => P!DeliveredHolds
BY DEF PublishInv, ReportStands, P!DeliveredHolds, Holds

\* Whatever commands run at once, are killed, or find a restored policy.json: a
\* directory that one reports as delivered holds the very policy it published, or a
\* newer one (propagate.rs: publish_all), whichever part of MCHomes moves.
THEOREM DeliveredIsHeld == MCSpec => []P!DeliveredHolds
<1>1. MCInit => PublishInv
  BY InitPublishing DEF MCInit
<1>2. PublishInv /\ [MCNext]_homes => PublishInv'
  <2>1. [MCNext]_homes => [P!Next]_(P!vars)
    BY DEF MCNext, homes, published, P!vars
  <2> QED BY <2>1, PublishStep
<1> QED BY <1>1, <1>2, InvDelivers, PTL DEF MCSpec, homes

-----------------------------------------------------------------------------
(* One command at a time: nothing changes policy.json or reached.json under it. *)

OneCommand == \A c, e \in Admins : c = e

\* What a command k works from is what the files hold.
FromTheFiles(k) ==
  /\ k.at = "publish" => k.held = stored
  /\ k.at = "write" => k.all = reached

AloneInv == PublishInv /\ noted \subseteq reached /\ \A c \in Admins : FromTheFiles(cmd[c])

\* Which command goes on to what.
LEMMA CommandGoes ==
  ASSUME PublishInv, NEW c \in Admins, P!CommandStep(c)
  PROVE  \/ cmd'[c].at \in {"idle", "edit", "read"} /\ UNCHANGED <<reached, noted>>
         \/ P!WriteReached(c) /\ cmd'[c].at = "idle"
         \/ /\ cmd'[c].at = "publish" /\ cmd'[c].held = stored
            /\ cmd[c].at = "read" /\ UNCHANGED <<stored, reached, noted>>
         \/ /\ cmd'[c].at = "publish" /\ cmd'[c].held = cmd[c].held
            /\ cmd[c].at = "publish" /\ UNCHANGED <<stored, reached, noted>>
         \/ P!Settle(c) /\ cmd'[c].at = "note" /\ UNCHANGED <<stored, reached, noted>>
         \/ /\ cmd'[c].at = "write" /\ cmd'[c].all = reached
            /\ cmd[c].at = "note" /\ UNCHANGED <<stored, reached, noted>>
<1>0. cmd \in [Admins -> CommandRecord]
  BY DEF PublishInv
<1>1. CASE P!Begin(c) \/ P!EditFails(c) \/ P!Kill(c)
  BY <1>0, <1>1 DEF P!Begin, P!EditFails, P!Kill
<1>2. CASE P!Edit(c)
  <2>1. cmd'[c] = [cmd[c] EXCEPT !.at = "read"] /\ cmd[c] \in EditRecord /\ UNCHANGED <<reached, noted>>
    BY <1>0, <1>2, CommandIs DEF P!Edit
  <2> QED BY <2>1 DEF EditRecord
<1>3. CASE P!WriteReached(c)
  BY <1>0, <1>3 DEF P!WriteReached
<1>4. CASE P!ReadStored(c)
  BY <1>0, <1>4 DEF P!ReadStored
<1>5. CASE P!NextRound(c)
  <2> DEFINE again == P!Again(cmd[c])
             left == cmd[c].missed \ again
  <2>1. /\ cmd[c].at = "publish" /\ cmd'[c] = [cmd[c] EXCEPT !.asking = again, !.missed = left]
        /\ UNCHANGED <<stored, reached, noted>>
    BY <1>0, <1>5 DEF P!NextRound
  <2>2. cmd[c] \in PublishRecord
    BY <2>1, CommandIs
  <2> HIDE DEF again, left
  <2> QED BY <2>1, <2>2 DEF PublishRecord
<1>6. CASE P!Settle(c)
  <2>1. PICK r \in NoteRecord : cmd' = [cmd EXCEPT ![c] = r] /\ UNCHANGED <<stored, reached, noted, taken>>
    BY <1>6, SettleIs
  <2> QED BY <1>0, <1>6, <2>1 DEF NoteRecord
<1>7. CASE P!ReadReached(c)
  BY <1>0, <1>7 DEF P!ReadReached
<1>8. ASSUME NEW d \in Dirs, P!Exchange(c, d) \/ P!Miss(c, d) \/ P!Refuse(c, d)
      PROVE  /\ cmd'[c].at = "publish" /\ cmd'[c].held = cmd[c].held
             /\ cmd[c].at = "publish" /\ UNCHANGED <<stored, reached, noted>>
  <2>1. /\ cmd[c].at = "publish" /\ d \in cmd[c].asking /\ UNCHANGED <<stored, reached, noted>>
        /\ \E lists \in SUBSET {"delivered", "missed", "refused", "newer"} :
             cmd' = [cmd EXCEPT ![c] = P!Put(cmd[c], d, lists)]
    BY <1>8 DEF P!Exchange, P!Miss, P!Refuse
  <2>2. PICK lists \in SUBSET {"delivered", "missed", "refused", "newer"} :
          cmd'[c] = P!Put(cmd[c], d, lists)
    BY <1>0, <2>1
  <2>3. cmd[c] \in PublishRecord
    BY <2>1, CommandIs
  <2>4. P!Put(cmd[c], d, lists) \in PublishRecord /\ P!Put(cmd[c], d, lists).held = cmd[c].held
    BY <2>1, <2>3, PutIs
  <2> QED BY <2>1, <2>2, <2>4 DEF PublishRecord
<1> QED BY <1>1, <1>2, <1>3, <1>4, <1>5, <1>6, <1>7, <1>8 DEF P!CommandStep

LEMMA AloneCommandStep ==
  ASSUME OneCommand, AloneInv, NEW c \in Admins, P!CommandStep(c)
  PROVE  AloneInv'
<1>1. PublishInv'
  BY CommandStepKeeps DEF AloneInv
<1>2. \A e \in Admins : e = c
  BY DEF OneCommand
<1>3. FromTheFiles(cmd[c])
  BY DEF AloneInv
<1>4. CASE P!WriteReached(c) /\ cmd'[c].at = "idle"
  <2>1. /\ noted' = noted \cup cmd[c].delivered /\ cmd[c].all = reached
        /\ reached' = IF cmd[c].delivered \subseteq cmd[c].all THEN reached
                      ELSE P!WithDelivered(cmd[c].all, cmd[c].delivered)
    BY <1>3, <1>4 DEF P!WriteReached, FromTheFiles
  <2>2. noted' \subseteq reached'
    BY <2>1 DEF AloneInv, P!WithDelivered
  <2> QED BY <1>1, <1>2, <1>4, <2>2 DEF AloneInv, FromTheFiles
<1>5. CASE cmd'[c].at \in {"idle", "edit", "read"} /\ UNCHANGED <<reached, noted>>
  BY <1>1, <1>2, <1>5 DEF AloneInv, FromTheFiles
<1>6. CASE /\ cmd'[c].at = "publish" /\ cmd'[c].held = stored
           /\ UNCHANGED <<stored, reached, noted>>
  BY <1>1, <1>2, <1>6 DEF AloneInv, FromTheFiles
<1>7. CASE /\ cmd'[c].at = "publish" /\ cmd'[c].held = cmd[c].held
           /\ cmd[c].at = "publish" /\ UNCHANGED <<stored, reached, noted>>
  BY <1>1, <1>2, <1>3, <1>7 DEF AloneInv, FromTheFiles
<1>8. CASE cmd'[c].at = "note" /\ UNCHANGED <<stored, reached, noted>>
  BY <1>1, <1>2, <1>8 DEF AloneInv, FromTheFiles
<1>9. CASE /\ cmd'[c].at = "write" /\ cmd'[c].all = reached
           /\ UNCHANGED <<stored, reached, noted>>
  BY <1>1, <1>2, <1>9 DEF AloneInv, FromTheFiles
<1> QED BY <1>4, <1>5, <1>6, <1>7, <1>8, <1>9, CommandGoes DEF AloneInv

LEMMA AloneStep ==
  ASSUME OneCommand, AloneInv, [P!Next]_(P!vars)
  PROVE  AloneInv'
<1>1. CASE \E c \in Admins : P!CommandStep(c)
  BY <1>1, AloneCommandStep
<1>2. CASE P!Restore
  <2>1. UNCHANGED <<cmd, reached, noted>> /\ \A c \in Admins : cmd[c].at = "idle"
    BY <1>2, RestoreIs DEF AloneInv
  <2>2. PublishInv'
    BY <1>2, PublishStep DEF AloneInv
  <2> QED BY <2>1, <2>2 DEF AloneInv, FromTheFiles
<1>3. CASE \/ \E f \in Fetchers : P!HostStep(f)
           \/ UNCHANGED P!vars
  <2>1. UNCHANGED <<stored, cmd, reached, noted>>
    BY <1>3, RunsIs
  <2>2. PublishInv'
    BY PublishStep DEF AloneInv
  <2> QED BY <2>1, <2>2 DEF AloneInv, FromTheFiles
<1> QED BY <1>1, <1>2, <1>3 DEF P!Next

\* A command that goes from publishing to noting settles.
LEMMA OnlySettles ==
  ASSUME PublishInv, [P!Next]_(P!vars), NEW c \in Admins,
         cmd[c].at = "publish", cmd'[c].at = "note"
  PROVE  P!Settle(c)
<1>1. CASE \E e \in Admins : P!CommandStep(e)
  <2>1. PICK e \in Admins : P!CommandStep(e)
    BY <1>1
  <2>2. CASE e = c
    BY <2>1, <2>2, CommandGoes
  <2>3. CASE e # c
    <3>1. cmd'[c] = cmd[c]
      BY <2>1, <2>3 DEF PublishInv, P!CommandStep, P!Begin, P!Edit, P!EditFails, P!ReadStored,
         P!NextRound, P!Settle, P!ReadReached, P!WriteReached, P!Kill, P!Exchange, P!Miss, P!Refuse
    <3> QED BY <3>1
  <2> QED BY <2>2, <2>3
<1>2. CASE P!Restore
  BY <1>2, RestoreIs
<1>3. CASE \/ \E f \in Fetchers : P!HostStep(f)
           \/ UNCHANGED P!vars
  BY <1>3, RunsIs
<1> QED BY <1>1, <1>2, <1>3 DEF P!Next

\* What it says then of the directories it knows, ...
NoneMissed ==
  \A c \in Admins :
    cmd[c].at = "publish" /\ cmd'[c].at = "note" /\ cmd'[c].outcome = "ok" =>
      \A d \in cmd[c].listed \cap noted :
        taken[d] = cmd[c].held \/ P!IsNewer(taken[d], cmd[c].held)

\* ... and of its own policy.
StaleIsBehind ==
  \A c \in Admins :
    cmd[c].at = "publish" /\ cmd'[c].at = "note" /\ cmd'[c].outcome = "stale" => P!Behind

LEMMA SettlesTruly ==
  ASSUME AloneInv, [P!Next]_(P!vars)
  PROVE  NoneMissed /\ StaleIsBehind
<1> SUFFICES ASSUME NEW c \in Admins, cmd[c].at = "publish", cmd'[c].at = "note"
             PROVE  /\ cmd'[c].outcome = "ok" =>
                         \A d \in cmd[c].listed \cap noted :
                           taken[d] = cmd[c].held \/ P!IsNewer(taken[d], cmd[c].held)
                    /\ cmd'[c].outcome = "stale" => P!Behind
  BY DEF NoneMissed, StaleIsBehind
<1>1. P!Settle(c) /\ PublishInv
  BY OnlySettles DEF AloneInv
<1>2. cmd[c].asking = {} /\ cmd'[c].outcome = P!Outcome(cmd[c])
  <2>1. PICK r \in NoteRecord : cmd' = [cmd EXCEPT ![c] = r] /\ r.outcome = P!Outcome(cmd[c])
    BY <1>1, SettleIs
  <2>2. cmd'[c] = r
    BY <1>1, <2>1 DEF PublishInv
  <2> QED BY <1>1, <2>1, <2>2 DEF P!Settle
<1>3. cmd[c] \in PublishRecord /\ ReportStands(cmd[c], taken) /\ cmd[c].held = stored
  BY <1>1, CommandIs DEF AloneInv, FromTheFiles
<1>4. ASSUME cmd'[c].outcome = "ok", NEW d \in cmd[c].listed \cap noted
      PROVE  taken[d] = cmd[c].held \/ P!IsNewer(taken[d], cmd[c].held)
  <2>1. cmd[c].newer = {} /\ P!MissedRunning(cmd[c]) = {}
    BY <1>2, <1>4 DEF P!Outcome
  <2>2. d \notin cmd[c].missed
    BY <1>4, <2>1 DEF P!MissedRunning, AloneInv
  <2>3. d \in cmd[c].delivered
    BY <1>2, <1>3, <1>4, <2>1, <2>2 DEF ReportStands
  <2> QED BY <1>3, <2>3 DEF ReportStands, Holds
<1>5. ASSUME cmd'[c].outcome = "stale" PROVE P!Behind
  <2>1. PICK d \in cmd[c].newer : TRUE
    BY <1>2, <1>5 DEF P!Outcome
  <2>2. d \in Dirs /\ Overtakes(taken[d], stored)
    BY <1>3, <2>1 DEF ReportStands, PublishRecord
  <2> QED BY <2>2 DEF P!Behind, Overtakes
<1> QED BY <1>4, <1>5

\* With one command at a time (two may overtake one another, and do), a command that
\* succeeds left no directory behind that its policy lists and that took a publish from
\* this admin before, and one that ends as stale works on a policy.json that is behind
\* (propagate.rs: settle, note_reached), whichever part of MCHomes moves.
THEOREM ReportsHold ==
  ASSUME OneCommand
  PROVE  MCSpec => ReportsAreTrue
<1>1. MCInit => AloneInv
  BY InitPublishing DEF MCInit, P!Init, AloneInv, FromTheFiles
<1>2. [MCNext]_homes => [P!Next]_(P!vars)
  BY DEF MCNext, homes, published, P!vars
<1>3. AloneInv /\ [P!Next]_(P!vars) => AloneInv'
  BY AloneStep
<1>4. AloneInv /\ [P!Next]_(P!vars) => [NoneMissed]_(P!vars) /\ [StaleIsBehind]_(P!vars)
  BY SettlesTruly
<1>5. AloneInv => P!DeliveredHolds
  BY InvDelivers DEF AloneInv
<1>6. MCSpec => []AloneInv /\ [][P!Next]_(P!vars)
  BY <1>1, <1>2, <1>3, PTL DEF MCSpec, homes
<1>7. MCSpec => [][NoneMissed]_(P!vars) /\ [][StaleIsBehind]_(P!vars)
  BY <1>4, <1>6, PTL
<1> QED
  BY <1>5, <1>6, <1>7, PTL
  DEF ReportsAreTrue, P!ReportsAreTrue, P!NoSilentMiss, P!StaleOnlyWhenBehind, NoneMissed, StaleIsBehind
=============================================================================
