------------------------------ MODULE Calling ------------------------------
(***************************************************************************)
(* A caller: how it keeps its view current with the directories, and how   *)
(* it decides whom to tell anything (wires/caller/vouch.rs, view.rs and    *)
(* call.rs, the dialing half of wires/host/transport.rs, and               *)
(* library/calls/proof.rs).                                                *)
(*                                                                         *)
(* There is one caller and one service it may use, so a head's hosts are   *)
(* the service's.  A host it dials may be arbitrarily behind: it shows any *)
(* head the root ever signed, with any announced words for it.  A          *)
(* directory proves and answers under what it holds then.  Proofs asked of *)
(* several directories at once pool their words: any announced ones.       *)
(***************************************************************************)
EXTENDS Witnesses

CONSTANTS
  Known,          \* the directories the caller's network string names
  CallerAhead,    \* how far the caller's clock is ahead of the admin's
  RefreshBudget   \* REFRESH_BUDGET: how long a refresh in a call may take

ASSUME CallingAssumption ==
  /\ Known \subseteq Nodes
  /\ CallerAhead \in Nat
  /\ RefreshBudget \in Nat

VARIABLES
  view,     \* the head of the caller's view (NoHead: it holds none)
  kept,     \* HeldView.fresh: the words it keeps, all for that head
  ask,      \* the directory asked for the view now, at most one: see Asks
  call,     \* the call under way, at most one: see Calls
  told,     \* what the last step sent a node, at most one thing: see Tellings
  listedAt  \* for each node, the last time a directory that could vouch for
            \* it held a head that lists it

caller == <<view, kept, ask, call, told>>
allVars == <<vars, caller, listedAt>>

Everyone == Nodes \cup Hosts

\* A directory proved head with words, and was sent the token; whether its
\* answer is on its way.
Asks == [to : Nodes, head : Heads, words : SUBSET Words, answered : BOOLEAN]

\* phase "opened": Open sent, no proof read.  "refreshing": the host showed
\* the newer head with words, found current at checked; the view is being
\* refreshed.  "refreshed": that brought a view.  "spoken": Hello and Invoke
\* sent at once, no proof read.  "waiting": Hello and Invoke sent and the
\* proof checked; the HelloAck is to come.
Calls == [phase : {"opened", "refreshing", "refreshed", "spoken", "waiting"},
          host : Everyone, head : Heads \cup {NoHead}, words : SUBSET Words,
          checked : Nat]

\* What was sent (the caller's token, with the call if to a host; or the
\* call's stdin), to whom, under which head, on which words, and when.
Tellings == [what : {"token", "stdin"}, to : Everyone, head : Heads,
             words : SUBSET Words, at : Nat]

CallerTypeOK ==
  /\ TypeOK
  /\ view \in Heads \cup {NoHead}
  /\ kept \subseteq Words
  /\ ask \subseteq Asks
  /\ call \subseteq Calls
  /\ told \subseteq Tellings
  /\ listedAt \in [Everyone -> Nat]

CallerClock == now + CallerAhead

\* The refresh of a call that began it at c.checked is within its time limit
\* (a lone refresh has none to speak of).
InBudget(c) == now + CallerAhead <= c.checked + RefreshBudget

-----------------------------------------------------------------------------
(* The checks. *)

\* HostProof::check, of a proof of h with the words ws shown by a node to a
\* caller whose view is under v.
ProofChecks(h, ws, v, node, t) ==
  /\ Unexpired(h, t)
  /\ Covers(h, v)
  /\ \E w \in ws : Vouches(w, h, node, t)

\* Vouching::takes: a node's own word counts only while no other directory is
\* known.
Takes(w, node) == w.directory = node => Known \subseteq {node}

\* The words of ws on which the caller may tell the node anything.
Vouching(h, ws, node, t) == {w \in ws : Vouches(w, h, node, t) /\ Takes(w, node)}

\* Vouching::ready: the caller may speak to the host at once.
Ready(n) == n \in view.hosts /\ Vouching(view, kept, n, CallerClock) # {}

\* The words a node, behind or not, may show for h.
Shown(h) == SUBSET {w \in words : w.head = h}

\* A step of the caller alone.
Apart == UNCHANGED <<vars, listedAt>>

Told(what, to, h, ws) ==
  told' = {[what |-> what, to |-> to, head |-> h, words |-> ws, at |-> now]}

-----------------------------------------------------------------------------
(* The view: view::refresh, before a command or a poll (no call under way)   *)
(* or when a host showed a newer head.                                       *)

\* ask_proven: directory d proves h with the words ws (the pool's among them,
\* directory_vouched), and is sent the token.  The proof may have been shown
\* a while ago.
AskDirectory(d, h, ws) ==
  /\ \A c \in call : c.phase = "refreshing" /\ InBudget(c)
  /\ ask = {}
  /\ d \in (view.directories \cup Known) \cap h.directories
  /\ Covers(holds[d], h)
  /\ LET pool == ws \cup {w \in kept : w.head = h} IN
       /\ ProofChecks(h, pool, view, d, CallerClock)
       /\ Vouching(h, pool, d, CallerClock) # {}
       /\ ask' = {[to |-> d, head |-> h, words |-> pool, answered |-> FALSE]}
       /\ Told("token", d, h, Vouching(h, pool, d, CallerClock))
  /\ UNCHANGED <<view, kept, call>> /\ Apart

\* The directory still holds the head it proved: it answers with a view under
\* it, and its own word (forgotten here once lapsed).
Answers(a, own) ==
  /\ ~a.answered
  /\ holds[a.to] = a.head
  /\ \A w \in own : w.directory = a.to /\ w.head = a.head
  /\ ask' = {[a EXCEPT !.answered = TRUE, !.words = @ \cup own]}
  /\ told' = {}
  /\ UNCHANGED <<view, kept, call>> /\ Apart

\* The caller takes the answer (HeldView::fetched, keeping, learn_all).
Answered(a) ==
  /\ a.answered
  /\ \A c \in call : InBudget(c)
  /\ view' = a.head
  /\ kept' = {w \in kept \cup a.words : w.head = a.head}
  /\ ask' = {}
  /\ call' = {[c EXCEPT !.phase = "refreshed"] : c \in call}
  /\ told' = {} /\ Apart

\* No answer that can be taken: Busy, Denied, another head than it proved, or
\* the connection lost.  Another directory may be asked.
Unanswered(a) ==
  /\ ask' = {}
  /\ told' = {}
  /\ UNCHANGED <<view, kept, call>> /\ Apart

-----------------------------------------------------------------------------
(* A call: call_service_on, speak, converse. *)

Dial(n) ==
  /\ call = {}
  /\ ask = {}
  /\ Unexpired(view, CallerClock)
  /\ n \in view.hosts

\* With a current word for it already: Hello and Invoke at once.
SpeakAtOnce(n) ==
  /\ Dial(n)
  /\ Ready(n)
  /\ call' = {[phase |-> "spoken", host |-> n, head |-> view, words |-> {},
               checked |-> CallerClock]}
  /\ Told("token", n, view, Vouching(view, kept, n, CallerClock))
  /\ UNCHANGED <<view, kept, ask>> /\ Apart

\* Without: Open, and nothing else.
Open(n) ==
  /\ Dial(n)
  /\ ~Ready(n)
  /\ call' = {[phase |-> "opened", host |-> n, head |-> NoHead, words |-> {},
               checked |-> CallerClock]}
  /\ told' = {}
  /\ UNCHANGED <<view, kept, ask>> /\ Apart

\* Spoken to, its proof checked: only its ack is still to come.
AwaitsAck(c) ==
  call' = {[c EXCEPT !.phase = "waiting", !.head = view, !.words = {}]}

\* Vouching::check before speaking: the host holds the view's head, so the
\* caller speaks; it keeps the first word that vouches (learn).
ProofSame(c, ws) ==
  /\ c.phase = "opened"
  /\ ProofChecks(view, ws, view, c.host, CallerClock)
  /\ c.host \in view.hosts
  /\ \E w \in Vouching(view, ws, c.host, CallerClock) :
       /\ kept' = kept \cup {w}
       /\ Told("token", c.host, view, {w})
  /\ AwaitsAck(c)
  /\ UNCHANGED <<view, ask>> /\ Apart

\* It holds a newer head, vouched for: the view is refreshed first.
ProofNewer(c, h, ws) ==
  /\ c.phase = "opened"
  /\ IsNewer(h, view)
  /\ ProofChecks(h, ws, view, c.host, CallerClock)
  /\ call' = {[c EXCEPT !.phase = "refreshing", !.head = h, !.words = ws,
                        !.checked = CallerClock]}
  /\ told' = {}
  /\ UNCHANGED <<view, kept, ask>> /\ Apart

\* The refresh, just done, reached the host's head: the proof is checked again,
\* at the time it was first, and the caller speaks.
Recheck(c) ==
  /\ c.phase = "refreshed"
  /\ InBudget(c)
  /\ view = c.head
  /\ ProofChecks(c.head, c.words, view, c.host, c.checked)
  /\ c.host \in view.hosts
  /\ \E w \in Vouching(c.head, c.words, c.host, c.checked) :
       /\ kept' = kept \cup {w}
       /\ Told("token", c.host, c.head, {w})
  /\ AwaitsAck(c)
  /\ UNCHANGED <<view, ask>> /\ Apart

\* Vouching::check after speaking at once.  A newer head is the ack's to
\* check; the view's own needs a word, the host's or the caller's.
ProofAfter(c, h, ws) ==
  /\ c.phase = "spoken"
  /\ \/ IsNewer(h, view) /\ kept' = kept
     \/ /\ h = view
        /\ ProofChecks(h, ws \cup kept, view, c.host, CallerClock)
        /\ \E w \in ws \cup kept :
             Vouches(w, h, c.host, CallerClock) /\ kept' = kept \cup {w}
  /\ AwaitsAck(c)
  /\ told' = {}
  /\ UNCHANGED <<view, ask>> /\ Apart

\* The ack is of h, which the host holds by then, whatever it proved: the call
\* goes on under the newer of h and the view.
AckUnder(c, h) ==
  /\ c.phase = "waiting"
  /\ Told("stdin", c.host, IF IsNewer(h, view) THEN h ELSE view, {})
  /\ call' = {}
  /\ UNCHANGED <<view, kept, ask>> /\ Apart

\* Mutant of Ack: the ack's entry is not read.
AckUnread(c, h) == AckUnder(c, h)

\* accept_ack, HelloAck::assigns: a newer head must still list the host for the
\* service; then stdin goes.
Ack(c, h) ==
  /\ IsNewer(h, view) => c.host \in h.hosts
  /\ AckUnder(c, h)

\* Any dial failure, refusal, timeout or failed check ends the call.
GiveUp(c) ==
  /\ call' = {}
  /\ ask' = {}
  /\ told' = {}
  /\ UNCHANGED <<view, kept>> /\ Apart

-----------------------------------------------------------------------------
Lists(h, n) == n \in h.hosts \cup h.directories

\* Directory d, holding h, could vouch for n to a caller.
CouldVouchFor(d, h, n) ==
  /\ d \in h.directories /\ Lists(h, n)
  /\ d = n => h.directories = {n}

NoteListed ==
  listedAt' = [n \in Everyone |->
    IF \E d \in Nodes : CouldVouchFor(d, holds'[d], n) THEN now' ELSE listedAt[n]]

CallingInit ==
  /\ Init
  /\ view = NoHead /\ kept = {} /\ ask = {} /\ call = {} /\ told = {}
  /\ listedAt = [n \in Everyone |-> 0]

\* Lapsed words the caller keeps never count again: they are forgotten.
Forget == kept' = IF now' = now THEN kept ELSE Remembered(kept, now')

\* A step of the admin, a directory or the clock.
World ==
  /\ Next
  /\ NoteListed /\ Forget
  /\ told' = {}
  /\ UNCHANGED <<view, ask, call>>

CallingNext ==
  \/ World
  \/ \E h \in signed, d \in Nodes : \E ws \in Shown(h) : AskDirectory(d, h, ws)
  \/ \E a \in ask : \E own \in {{}} \cup {{w} : w \in words} : Answers(a, own)
  \/ \E a \in ask : Answered(a)
  \/ \E a \in ask : Unanswered(a)
  \/ \E n \in Everyone : SpeakAtOnce(n)
  \/ \E n \in Everyone : Open(n)
  \/ \E c \in call : \E ws \in Shown(view) : ProofSame(c, ws)
  \/ \E c \in call, h \in signed : \E ws \in Shown(h) : ProofNewer(c, h, ws)
  \/ \E c \in call, h \in signed : \E ws \in Shown(h) : ProofAfter(c, h, ws)
  \/ \E c \in call : Recheck(c)
  \/ \E c \in call, h \in signed : Ack(c, h)
  \/ \E c \in call : GiveUp(c)

CallingSpec == CallingInit /\ [][CallingNext]_allVars

-----------------------------------------------------------------------------
(* Properties. *)

MostAhead == CHOOSE x \in {Ahead[n] : n \in Nodes} : \A n \in Nodes : Ahead[n] <= x

\* A node that every directory able to vouch for it has seen removed is told
\* nothing (no token, no stdin of a call it was not told of within the window)
\* once a word's lifetime has passed since, and no more than the directories'
\* clocks run ahead and one refresh takes.
RemovedNodeWindow ==
  \A e \in told : e.what = "token" =>
    e.at + CallerAhead <= listedAt[e.to] + MostAhead + FreshSecs + RefreshBudget

\* A caller tells a host nothing until a word current then vouches for it.
SpeaksOnACurrentWord ==
  \A e \in told : e.what = "token" =>
    \E w \in e.words \cup kept : Vouches(w, e.head, e.to, e.at + CallerAhead)

\* The caller's token goes only to a node that the head it was checked under
\* lists, a head at least as new as the view, for which another directory (or
\* the one directory, itself) vouched.
ToldOnlyUnderAVouchedHead ==
  \A e \in told : e.what = "token" =>
    /\ Lists(e.head, e.to)
    /\ \E w \in e.words : CouldVouchFor(w.directory, e.head, e.to) /\ Verifies(w, e.head)

\* Stdin goes only to a host that the newest of the view and the head it
\* decides under lists, whatever was sent at once.
StdinOnlyToAListedHost ==
  \A e \in told : e.what = "stdin" => e.to \in e.head.hosts /\ Covers(e.head, view)

\* Whatever a node is told, the caller could then know to be meant for it.
ToldWhatIsTheirs == CallerTypeOK /\ ToldOnlyUnderAVouchedHead /\ StdinOnlyToAListedHost
=============================================================================
