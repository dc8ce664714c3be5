----------------------------- MODULE Following -----------------------------
(***************************************************************************)
(* One host keeping its policy current and itself vouched for: its         *)
(* follower (wires/host/follow.rs) goes round the directories its policy   *)
(* lists, and every word it hears, its own directory's too, is offered to  *)
(* the set it shows callers (wires/host/freshness.rs; FreshSet in          *)
(* library/services/fresh.rs).                                             *)
(*                                                                         *)
(* A policy is a version, and Lists[v] the order it lists directories in;  *)
(* every one names this host and is unexpired.  A word is its signer, its  *)
(* version and its dates.  A keystore write, and the set with its file,    *)
(* are one step.                                                           *)
(***************************************************************************)
EXTENDS Integers, FiniteSets, SequencesExt

CONSTANTS
  Dirs,          \* the other nodes that may be directories
  Me,            \* this host
  OwnDirectory,  \* whether it runs a directory too
  Lists,         \* Lists[v]: the directories version v lists, in order
  FreshSecs,     \* settings.fresh_secs
  ClockSkew,     \* CLOCK_SKEW_SECS
  Ahead,         \* how far each directory's clock is ahead of the host's
  MaxFreshSet,   \* MAX_FRESH_SET
  Deaf,          \* directories the admin's publishes may never reach again
  MaxTime,       \* bound: the last instant
  MaxFaults      \* bound: directories stopped, streams lost, host restarts

MaxVersion == Len(Lists)
Signers == Dirs \cup {Me}

FollowingAssumption ==
  /\ Me \notin Dirs /\ Deaf \subseteq Dirs /\ OwnDirectory \in BOOLEAN
  /\ Lists \in Seq(Seq(Signers)) /\ Lists # << >>
  /\ \A v \in DOMAIN Lists : IsInjective(Lists[v])   \* validate: none is listed twice
  /\ FreshSecs \in Nat \ {0} /\ ClockSkew \in Nat /\ Ahead \in [Signers -> Nat]
  /\ MaxFreshSet \in Nat \ {0, 1}
  /\ MaxTime \in Nat /\ MaxFaults \in Nat

VARIABLES
  now,
  newest,   \* the newest version published
  holds,    \* holds[d]: what directory d holds
  up,       \* the directories running
  disk,     \* this host's policy.json
  own,      \* when its own directory last signed a word for disk, if it did
  words,    \* Freshness.held, and fresh.json
  run,      \* Follower::run: where it stands
  pipe,     \* frames on their way on the stream followed
  local,    \* vouch_from_local: a word checked against the policy, to be offered
  faults    \* counts faults

vars == <<now, newest, holds, up, disk, own, words, run, pipe, local, faults>>
network == <<now, newest, holds, up, faults>>

Lists_(v) == IF v = 0 THEN {} ELSE ToSet(Lists[v])
Clock(d) == now + Ahead[d]
WordOf(d, v, t) == [directory |-> d, version |-> v, at |-> t, until |-> t + FreshSecs]

Word == [directory : Signers, version : 1..MaxVersion, at : Nat, until : Nat]
NoFrame == [policy |-> FALSE, word |-> WordOf(Me, 1, 0), denied |-> TRUE]

\* asleep between rounds; in a round; on a stream; its frame checked; its policy
\* adopted and its word to be offered for the version read then.
Places == {"asleep", "round", "stream", "checked", "adopted"}

TypeOK ==
  /\ now \in 0..MaxTime /\ newest \in 1..MaxVersion
  /\ holds \in [Dirs -> 0..newest] /\ up \subseteq Dirs
  /\ disk \in 0..newest /\ own \in {-1} \cup 0..MaxTime
  /\ words \subseteq Word /\ Cardinality(words) <= MaxFreshSet
  /\ run.at \in Places /\ run.left \in Seq(Dirs) /\ run.order \in Seq(Dirs)
  /\ run.last \in Signers /\ run.answered \in BOOLEAN /\ run.read \in 0..newest
  /\ run.sent \in 0..newest
  /\ Len(pipe) <= 1 /\ local \subseteq Word
  /\ faults \in 0..MaxFaults

\* A host starts with a policy, unless it is a directory too.
AtRest == [at |-> "asleep", left |-> << >>, order |-> << >>, last |-> Me,
           answered |-> FALSE, read |-> 0, sent |-> 0, frame |-> NoFrame]

Init ==
  /\ now = 0 /\ newest = 1
  /\ holds \in [Dirs -> {0, 1}] /\ up = Dirs
  /\ disk \in (IF OwnDirectory THEN {0, 1} ELSE {1}) /\ own = -1 /\ words = {} /\ run = AtRest /\ pipe = << >>
  /\ local = {} /\ faults = 0

-----------------------------------------------------------------------------
(* FreshSet: one word for each signer, MaxFreshSet at most. *)

Verifies(w, v) == w.version = v /\ w.directory \in Lists_(v)
IsCurrent(w, t) == w.at - ClockSkew <= t /\ t <= w.until

\* Fresh::vouches for version v, to a caller dialing this host.
Vouches(w, v, t) ==
  /\ Verifies(w, v) /\ IsCurrent(w, t)
  /\ w.directory = Me => Lists_(v) = {Me}

\* Mutant of Outranks: a later word always wins.
OutranksByDate(w, x, t) ==
  w.version > x.version \/ (w.version = x.version /\ w.until > x.until)

\* A newer head's; for the same head, current where the other is not; then a later until.
Outranks(w, x, t) ==
  \/ w.version > x.version
  \/ /\ w.version = x.version
     /\ \/ IsCurrent(w, t) /\ ~IsCurrent(x, t)
        \/ (IsCurrent(w, t) <=> IsCurrent(x, t)) /\ w.until > x.until

\* FreshSet::insert: the sets it may leave (several words may be the worst).
Insert(ws, w, t) ==
  LET mine  == {x \in ws : x.directory = w.directory}
      worst == {x \in ws : \A y \in ws : ~Outranks(x, y, t)}
  IN IF mine # {}
     THEN IF \A x \in mine : Outranks(w, x, t) THEN {(ws \ mine) \cup {w}} ELSE {ws}
     ELSE IF Cardinality(ws) < MaxFreshSet THEN {ws \cup {w}}
     ELSE IF \A x \in worst : Outranks(w, x, t)
     THEN {(ws \ {x}) \cup {w} : x \in worst}
     ELSE {ws}

\* Freshness::offer, for the head of version v.
Offer(w, v) ==
  IF Verifies(w, v) THEN words' \in Insert(words, w, now) ELSE UNCHANGED words

Shown(v, t) == {w \in words : Vouches(w, v, t)}

-----------------------------------------------------------------------------
(* The world: time, publishes, directories that stop and start. *)

Tick ==
  /\ now < MaxTime
  /\ now' = now + 1
  /\ UNCHANGED <<newest, holds, up, disk, own, words, run, pipe, local, faults>>

Sign ==
  /\ newest < MaxVersion
  /\ newest' = newest + 1
  /\ UNCHANGED <<now, holds, up, disk, own, words, run, pipe, local, faults>>

\* A publish reaches d.
Publish(d) ==
  /\ d \in up /\ holds[d] < newest
  /\ holds' = [holds EXCEPT ![d] = newest]
  /\ UNCHANGED <<now, newest, up, disk, own, words, run, pipe, local, faults>>

Stop(d) ==
  /\ faults < MaxFaults /\ d \in up
  /\ up' = up \ {d} /\ faults' = faults + 1
  /\ UNCHANGED <<now, newest, holds, disk, own, words, run, pipe, local>>

StartAgain(d) ==
  /\ d \notin up
  /\ up' = up \cup {d}
  /\ UNCHANGED <<now, newest, holds, disk, own, words, run, pipe, local, faults>>

-----------------------------------------------------------------------------
(* Follower::run: one round after another. *)

Rotated(s, d) ==
  IF \E i \in DOMAIN s : s[i] = d
  THEN LET i == CHOOSE j \in DOMAIN s : s[j] = d IN SubSeq(s, i, Len(s)) \o SubSeq(s, 1, i - 1)
  ELSE s

\* directories_of: the held policy's, never this host.
directories_of ==
  LET l == Lists[IF disk = 0 THEN 1 ELSE disk] IN
  IF \E i \in DOMAIN l : l[i] = Me
  THEN RemoveAt(l, CHOOSE i \in DOMAIN l : l[i] = Me)
  ELSE l

\* next_after: where the round after a directory passed over starts.
next_after(order, d) ==
  LET i == CHOOSE j \in DOMAIN order : order[j] = d IN order[(i % Len(order)) + 1]

BeginRound ==
  /\ run.at = "asleep"
  /\ LET order == Rotated(directories_of, run.last) IN
     run' = [run EXCEPT !.at = "round", !.order = order, !.left = order]
  /\ UNCHANGED <<network, disk, own, words, pipe, local>>

EndRound ==
  /\ run.at = "round" /\ run.left = << >>
  /\ run' = [run EXCEPT !.at = "asleep"]
  /\ UNCHANGED <<network, disk, own, words, pipe, local>>

\* subscribe_once: dialed, hello and subscribe {have} written; or no answer.
Dial ==
  /\ run.at = "round" /\ run.left # << >>
  /\ IF Head(run.left) \in up
     THEN run' = [run EXCEPT !.at = "stream", !.answered = FALSE, !.sent = disk]
     ELSE run' = [run EXCEPT !.left = Tail(@)]
  /\ pipe' = << >>
  /\ UNCHANGED <<network, disk, own, words, local>>

Followed == Head(run.left)
OnStream == run.at \in {"stream", "checked", "adopted"}

\* The directory's side (DirectoryDoor's Push): the whole policy when newer than what
\* was sent, else its word for what it holds; or a denial, it vouching for nothing.
Frame ==
  LET d == Followed v == holds[d] IN
  IF v = 0 \/ d \notin Lists_(v) THEN NoFrame
  ELSE [policy |-> v > run.sent, word |-> WordOf(d, v, Clock(d)), denied |-> FALSE]

Push ==
  /\ OnStream /\ Followed \in up /\ pipe = << >>
  /\ pipe' = <<Frame>>
  /\ run' = [run EXCEPT !.sent = IF Frame.policy THEN Frame.word.version ELSE @]
  /\ UNCHANGED <<network, disk, own, words, local>>

PassOver == [run EXCEPT !.at = "round", !.left = Tail(@), !.last = next_after(run.order, Followed)]
Closed == [run EXCEPT !.at = "asleep", !.left = << >>, !.last = Followed]

\* Mutant of Receive: a directory behind this host is left as one that closed.
ReceiveBehindAsClosed ==
  /\ run.at = "stream" /\ pipe # << >>
  /\ LET f == Head(pipe) IN
     IF f.denied THEN run' = PassOver
     ELSE IF f.word.version < disk THEN run' = Closed
     ELSE run' = [run EXCEPT !.at = "checked", !.answered = TRUE, !.frame = f]
  /\ pipe' = << >>
  /\ UNCHANGED <<network, disk, own, words, local>>

\* stream and take: a denial or a directory behind passes it over; else the frame,
\* verified, is compared with what is held now.
Receive ==
  /\ run.at = "stream" /\ pipe # << >>
  /\ LET f == Head(pipe) IN
     IF f.denied \/ f.word.version < disk
     THEN run' = PassOver
     ELSE run' = [run EXCEPT !.at = "checked", !.answered = TRUE, !.frame = f]
  /\ pipe' = << >>
  /\ UNCHANGED <<network, disk, own, words, local>>

\* store::adopt_if_newer, or this host's Directory::accept.
Adopted(v) == IF v > disk THEN v ELSE disk

\* adopt, and vouch's reading of what is held then.
Adopt ==
  /\ run.at = "checked"
  /\ disk' = IF run.frame.policy THEN Adopted(run.frame.word.version) ELSE disk
  /\ own' = IF OwnDirectory /\ disk' # disk /\ Me \in Lists_(disk') THEN now
            ELSE IF disk' # disk THEN -1 ELSE own
  /\ run' = [run EXCEPT !.at = "adopted", !.read = disk']
  /\ UNCHANGED <<network, words, pipe, local>>

\* vouch: the word is offered if it is for what was read; then the stream goes on,
\* unless the directory is no longer one.
Vouch ==
  /\ run.at = "adopted"
  /\ IF run.frame.word.version = run.read THEN Offer(run.frame.word, run.read) ELSE UNCHANGED words
  /\ run' = IF Followed \in Lists_(disk) THEN [run EXCEPT !.at = "stream"] ELSE Closed
  /\ UNCHANGED <<network, disk, own, pipe, local>>

\* The stream ends: the directory stopped or fell silent.
Lose ==
  /\ run.at = "stream" /\ Followed \notin up
  /\ run' = IF run.answered THEN Closed ELSE [run EXCEPT !.at = "round", !.left = Tail(@)]
  /\ pipe' = << >>
  /\ UNCHANGED <<network, disk, own, words, local>>

\* The connection is lost, the directory up.
Drop ==
  /\ faults < MaxFaults /\ run.at = "stream" /\ Followed \in up
  /\ run' = IF run.answered THEN Closed ELSE [run EXCEPT !.at = "round", !.left = Tail(@)]
  /\ pipe' = << >> /\ faults' = faults + 1
  /\ UNCHANGED <<now, newest, holds, up, disk, own, words, local>>

-----------------------------------------------------------------------------
(* This host's own directory, and its restart. *)

\* A publish reaches this host's own directory, or another wires process on this
\* keystore adopts a policy.
LocalPublish ==
  /\ OwnDirectory /\ disk < newest
  /\ disk' = newest
  /\ own' = IF Me \in Lists_(disk') THEN now ELSE -1
  /\ UNCHANGED <<network, words, run, pipe, local>>

LocalBeat ==
  /\ OwnDirectory /\ Me \in Lists_(disk) /\ own # now
  /\ own' = now
  /\ UNCHANGED <<network, disk, words, run, pipe, local>>

\* vouch_from_local: its word, for the version held when it looks ...
LocalRead ==
  /\ own # -1 /\ local = {}
  /\ WordOf(Me, disk, own) \notin words
  /\ local' = {WordOf(Me, disk, own)}
  /\ UNCHANGED <<network, disk, own, words, run, pipe>>

\* ... offered for the head read then.
LocalOffer ==
  \E w \in local :
    /\ Offer(w, w.version)
    /\ local' = {}
    /\ UNCHANGED <<network, disk, own, run, pipe>>

\* `serve` starts again: Freshness::load keeps what verifies for the policy on disk.
Restart ==
  /\ faults < MaxFaults /\ faults' = faults + 1
  /\ words' = {w \in words : Verifies(w, disk)}
  /\ run' = AtRest /\ pipe' = << >> /\ local' = {}
  /\ own' = IF OwnDirectory /\ Me \in Lists_(disk) THEN now ELSE -1
  /\ UNCHANGED <<now, newest, holds, up, disk>>

Follow == BeginRound \/ EndRound \/ Dial \/ Receive \/ Adopt \/ Vouch \/ Lose
Local == LocalRead \/ LocalOffer

Next ==
  \/ Tick \/ Sign \/ \E d \in Dirs : Publish(d) \/ Stop(d) \/ StartAgain(d)
  \/ BeginRound \/ EndRound \/ Dial \/ Push \/ Receive \/ Adopt \/ Vouch \/ Lose \/ Drop
  \/ LocalPublish \/ LocalBeat \/ LocalRead \/ LocalOffer \/ Restart

Spec == Init /\ [][Next]_vars

\* The follower's task and the directories' run; a stopped directory comes back; and
\* the admin publishes again until every directory not Deaf has the newest policy.
Fairness ==
  /\ WF_vars(Follow) /\ WF_vars(Push) /\ WF_vars(Local)
  /\ \A d \in Dirs : (d \notin Deaf => WF_vars(Publish(d))) /\ WF_vars(StartAgain(d))

LiveSpec == Spec /\ Fairness

-----------------------------------------------------------------------------
\* A host some directory vouches for stays vouched for while the word lasts: neither
\* another word, one from a clock that runs ahead, its own, a full set, a late offer
\* for an older head nor a restart takes the last one from it.
KeepsVouched ==
  [][(disk' = disk /\ \E w \in Shown(disk, now) : now' <= w.until)
     => \E w \in words' : Vouches(w, disk, now')]_vars

\* The set holds one word for each signer, the newest for a version this host holds: a
\* reader who finds a signer's word finds the one that counts.
OneWordEach ==
  \A w \in words : w.version <= disk /\ \A x \in words : x.directory = w.directory => x = w

\* A host's words are those that keep it vouched for.
WordsAreKept == []TypeOK /\ []OneWordEach /\ KeepsVouched

\* A word it has vouches for it now, or will (time stops at MaxTime here, and a
\* directory's clock may be ahead).
VouchedFor == \E w \in words, t \in now..MaxTime + FreshSecs : Vouches(w, disk, t)

\* The host comes to hold the newest policy and to be vouched for, although
\* directories stop, lag, lose streams, are dropped or are older than it; unless
\* it holds what a directory no publish reaches holds, for "nothing but a publish
\* brings it" (PublishReport::line).
CatchesUp ==
  <>[](\/ disk = newest /\ VouchedFor
       \/ disk < newest /\ \E d \in Deaf : holds[d] = disk)
=============================================================================
