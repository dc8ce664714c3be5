------------------------------ MODULE ViewFile ------------------------------
(***************************************************************************)
(* view.json, which every wires process of one user shares                 *)
(* (wires/caller/view.rs).  A command (wires call, services, inbox) reads  *)
(* it, refreshes it from a directory when it is stale, and after a call    *)
(* notes on it what the host showed; wires mcp and wires inbox --wait poll *)
(* a directory and write what they get.  Each is a read, an await, and a   *)
(* write: no lock is held between them.  A home that also holds the whole  *)
(* policy (policy.json: the admin's, a host's, a directory's) is refreshed *)
(* from that, and wires login asks as one that held no view.               *)
(*                                                                         *)
(* A view is its head's version.  That its entries and words are its       *)
(* head's, and the proofs of the directories asked, are in Calling.        *)
(***************************************************************************)
EXTENDS Naturals, FiniteSets

CONSTANTS
  Pollers,      \* processes that poll
  Commands,     \* processes that run one command after another
  SignIns,      \* those of Commands that may be wires login
  Directories,
  Wholes,       \* the versions policy.json may come to hold on this home
  MaxVersion    \* bound: the last version of the policy

ASSUME ViewFileAssumption ==
  /\ Pollers \cap Commands = {} /\ SignIns \subseteq Commands
  /\ Wholes \subseteq 1 .. MaxVersion
  /\ MaxVersion \in Nat \ {0}

VARIABLES
  holds,  \* the version each directory answers with
  whole,  \* policy.json's version, 0 if this home holds none
  file,   \* view.json
  pc,     \* where each process is
  held,   \* the view each process has in memory
  got,    \* the answer each process got, not yet written
  raced   \* the processes whose file another wrote since they read or wrote it

vars == <<holds, whole, file, pc, held, got, raced>>

Processes == Pollers \cup Commands
Versions  == 0 .. MaxVersion

\* HeldView: version 0 is no view; seen, the newest version a host reported;
\* refused, that a host refused a call (checked = 0).
Views  == [version : Versions, seen : Versions, refused : BOOLEAN]
NoView == [version |-> 0, seen |-> 0, refused |-> FALSE]

\* Where a process is.  What it got was asked for from the view it held
\* ("asking", "answered"), from none ("forgot", "anew"), or is cut from
\* policy.json ("cut").
Places == {"stopped", "refreshing", "asking", "answered", "forgot", "anew", "cut",
           "using", "resolved", "noting"}

TypeOK ==
  /\ holds \in [Directories -> Versions]
  /\ file \in Views
  /\ whole \in {0} \cup Wholes
  /\ pc \in [Processes -> Places]
  /\ held \in [Processes -> Views]
  /\ got \in [Processes -> Versions]
  /\ raced \subseteq Processes

Init ==
  /\ holds = [d \in Directories |-> 1]
  /\ whole = 0
  /\ file = NoView
  /\ pc = [p \in Processes |-> "stopped"]
  /\ held = [p \in Processes |-> NoView]
  /\ got = [p \in Processes |-> 0]
  /\ raced = {}

-----------------------------------------------------------------------------
\* HeldView::is_stale (or no view), but for its age.
Stale(view) == view.version = 0 \/ view.refused \/ view.seen > view.version

Goto(p, where) == pc' = [pc EXCEPT ![p] = where]

\* read: p has view.json as it is.
Reads(p) ==
  /\ held' = [held EXCEPT ![p] = file]
  /\ raced' = raced \ {p}

\* write: p replaces it with view, whatever it is by now.
Writes(p, view) ==
  /\ file' = view
  /\ raced' = Processes \ {p}

\* HeldView::fetched
Fetched(version) == [version |-> version, seen |-> 0, refused |-> FALSE]

\* A directory takes a newer policy.
Publish(d) ==
  /\ \E v \in Versions : v > holds[d] /\ holds' = [holds EXCEPT ![d] = v]
  /\ UNCHANGED <<whole, file, pc, held, got, raced>>

\* The admin's commands, a host or a directory on this home take a newer one.
TakePolicy ==
  /\ \E v \in Wholes : v > whole /\ whole' = v
  /\ UNCHANGED <<holds, file, pc, held, got, raced>>

\* What d answers p with.
Answered(p, d) ==
  /\ pc[p] \in {"asking", "forgot"}
  /\ got' = [got EXCEPT ![p] = holds[d]]
  /\ Goto(p, IF pc[p] = "asking" THEN "answered" ELSE "anew")
  /\ UNCHANGED <<holds, whole, file, held, raced>>

\* Mutant of Ask: a directory behind the held view is asked too.
AskAnyAge(p, d) == Answered(p, d)

\* fetch: d, whose proof shows a head no older than the held view's, answers.
Ask(p, d) == holds[d] >= held[p].version /\ Answered(p, d)

\* poll: started with the view read then.
StartPolling(p) ==
  /\ p \in Pollers
  /\ pc[p] = "stopped"
  /\ Reads(p)
  /\ Goto(p, "asking")
  /\ UNCHANGED <<holds, whole, file, got>>

\* Mutant of PollAnswered: kept in memory only.
PollUnwritten(p) ==
  /\ p \in Pollers
  /\ pc[p] = "answered"
  /\ held' = [held EXCEPT ![p] = Fetched(got[p])]
  /\ Goto(p, "asking")
  /\ UNCHANGED <<holds, whole, file, got, raced>>

\* poll: the answer is written, and asked for again from it.
PollAnswered(p) ==
  /\ p \in Pollers
  /\ pc[p] = "answered"
  /\ held' = [held EXCEPT ![p] = [Fetched(got[p]) EXCEPT !.seen = held[p].seen]]
  /\ Writes(p, held'[p])
  /\ Goto(p, "asking")
  /\ UNCHANGED <<holds, whole, got>>

\* usable_with: a command reads the view, and refreshes it first if stale.
Begin(p) ==
  /\ p \in Commands
  /\ pc[p] = "stopped"
  /\ Reads(p)
  /\ Goto(p, IF Stale(file) THEN "refreshing" ELSE "using")
  /\ UNCHANGED <<holds, whole, file, got>>

\* A call refreshes it meanwhile: no host's word was current, or the host
\* reported a newer policy.
RefreshAgain(p) ==
  /\ pc[p] = "using"
  /\ Goto(p, "refreshing")
  /\ UNCHANGED <<holds, whole, file, held, got, raced>>

\* wires login, signed in: the view held was for someone else.
SignedIn(p) ==
  /\ p \in SignIns
  /\ pc[p] = "stopped"
  /\ whole = 0
  /\ held' = [held EXCEPT ![p] = NoView]
  /\ Goto(p, "forgot")
  /\ UNCHANGED <<holds, whole, file, got, raced>>

\* refresh: a home that holds the policy cuts its view from that, ...
CutView(p) ==
  /\ \/ pc[p] = "refreshing"
     \/ pc[p] = "stopped" /\ p \in SignIns
  /\ whole # 0
  /\ got' = [got EXCEPT ![p] = whole]
  /\ Goto(p, "cut")
  /\ UNCHANGED <<holds, whole, file, held, raced>>

\* ... and any other asks, from the view it holds.
AskFromHeld(p) ==
  /\ pc[p] = "refreshing"
  /\ whole = 0
  /\ Reads(p)
  /\ Goto(p, "asking")
  /\ UNCHANGED <<holds, whole, file, got>>

\* refresh: what it fetched or cut is stored, whatever view.json holds, and used.
Refreshed(p) ==
  /\ p \in Commands
  /\ pc[p] \in {"answered", "anew", "cut"}
  /\ held' = [held EXCEPT ![p] = Fetched(got[p])]
  /\ Writes(p, held'[p])
  /\ Goto(p, "using")
  /\ UNCHANGED <<holds, whole, got>>

\* usable_with: no directory answered in time; a view held is used as it is,
\* if one was held when the command began.
NotRefreshed(p) ==
  /\ p \in Commands
  /\ pc[p] \in {"asking", "forgot"}
  /\ \/ Goto(p, "stopped")
     \/ held[p].version # 0 /\ Goto(p, "using")
  /\ UNCHANGED <<holds, whole, file, held, got, raced>>

\* A directory says this node is not admitted: an error, whatever view is held.
NotAdmitted(p) ==
  /\ p \in Commands
  /\ pc[p] \in {"asking", "forgot"}
  /\ Goto(p, "stopped")
  /\ UNCHANGED <<holds, whole, file, held, got, raced>>

\* wires services lists the view, which is all it does with it.
Lists(p) ==
  /\ pc[p] = "using"
  /\ Goto(p, "stopped")
  /\ UNCHANGED <<holds, whole, file, held, got, raced>>

\* resolve: a service the view lacks is asked for alone.  Its view of one entry is
\* used and not stored; what is noted is its version, ...
Resolve(p, d) ==
  /\ pc[p] = "using"
  /\ holds[d] >= held[p].version
  /\ got' = [got EXCEPT ![p] = holds[d]]
  /\ Reads(p)
  /\ Goto(p, "resolved")
  /\ UNCHANGED <<holds, whole, file>>

\* ... which may be no news, or there is no view.  Then the call, unless there is
\* no such service.
NoteResolved(p) ==
  /\ pc[p] = "resolved"
  /\ IF held[p].version # 0 /\ got[p] > held[p].version /\ got[p] > held[p].seen
     THEN Writes(p, [held[p] EXCEPT !.seen = got[p]])
     ELSE UNCHANGED <<file, raced>>
  /\ \/ Goto(p, "stopped") /\ held' = held
     \/ Goto(p, "using") /\ held' = [held EXCEPT ![p] = Fetched(got[p])]
  /\ UNCHANGED <<holds, whole, got>>

\* note_seen, note_refused, note_fresh: after the call, view.json is read, ...
ReadToNote(p) ==
  /\ pc[p] = "using"
  /\ Reads(p)
  /\ Goto(p, IF file.version = 0 THEN "stopped" ELSE "noting")
  /\ UNCHANGED <<holds, whole, file, got>>

\* ... and written with a newer version a host reported, with the refusal, or
\* with a host's word (its version unchanged).
Noted(view) ==
  {[view EXCEPT !.seen = v] : v \in {v \in Versions : v > view.seen /\ v > view.version}}
  \cup {view, [view EXCEPT !.refused = TRUE]}

WriteNote(p) ==
  /\ pc[p] = "noting"
  /\ \E view \in Noted(held[p]) : Writes(p, view)
  /\ Goto(p, "stopped")
  /\ UNCHANGED <<holds, whole, held, got>>

Step(p) ==
  \/ \E d \in Directories : Ask(p, d)
  \/ StartPolling(p) \/ PollAnswered(p)
  \/ Begin(p) \/ RefreshAgain(p) \/ SignedIn(p) \/ CutView(p) \/ AskFromHeld(p)
  \/ Refreshed(p) \/ NotRefreshed(p)
  \/ NotAdmitted(p) \/ Lists(p)
  \/ (\E d \in Directories : Resolve(p, d)) \/ NoteResolved(p)
  \/ ReadToNote(p) \/ WriteNote(p)

Next == (\E d \in Directories : Publish(d)) \/ TakePolicy \/ \E p \in Processes : Step(p)

Spec == Init /\ [][Next]_vars

\* A poller goes on polling while it runs: its timer is the runtime's, and a
\* directory no older than its view answers.
LiveSpec ==
  /\ Spec
  /\ \A p \in Pollers :
       WF_vars(PollAnswered(p)) /\ WF_vars(\E d \in Directories : Ask(p, d))

-----------------------------------------------------------------------------
(* Properties. *)

\* docs/protocol.md:1046, of a caller: "a view is never replaced by an older
\* one".  But refresh, poll and the notes write whatever they got, over
\* whatever another process stored since they read.
NeverReplacedByOlder == [][file'.version >= file.version]_vars

\* There are three ways back, and no other.  A race: a process that read
\* view.json (or wrote it last) with no other writing since leaves a view at
\* least as new (fetch's check of the directory against the held view).  A
\* refresh on a home that holds policy.json: the view cut from it replaces a
\* newer one fetched before, but is no older than that policy was.  And wires
\* login, which asks as one that holds no view.
KnownWaysBack ==
  [][file'.version < file.version =>
       \E p \in Processes :
         /\ pc'[p] # pc[p]
         /\ \/ p \in raced /\ pc[p] \in {"answered", "resolved", "noting"}
            \/ pc[p] = "cut" /\ whole # 0 /\ file'.version <= whole
            \/ pc[p] = "anew" /\ p \in SignIns]_vars

\* Once every directory holds one last policy, and this home none newer, a
\* poller brings view.json to it again and again, whatever notes, or a view cut
\* from policy.json, put an older one back.
PollerCatchesUp ==
  \A p \in Pollers, v \in Versions :
    <>[](pc[p] # "stopped" /\ whole <= v /\ \A d \in Directories : holds[d] = v)
      => []<>(file.version = v)
=============================================================================
