---------------------------- MODULE CallingProofs ----------------------------
(***************************************************************************)
(* Theorems about Calling, for every network, clock, lifetime and bound:   *)
(* whom the caller tells anything, and for how long after a removal.       *)
(*                                                                         *)
(* The inductive invariant says of every word anyone has that its date is  *)
(* covered by listedAt, and of a call that was spoken that its host is in  *)
(* the view.                                                               *)
(*                                                                         *)
(* Then MCCalls, whose four parts share no state.  Of a call among hosts   *)
(* Stands tells what each step leaves behind: a host told the call, once   *)
(* it is not the one dialed, has refused it, before the call speaks to a   *)
(* host again every host it told has, and one not told does not run it; of *)
(* `wires push`                                                            *)
(* CommandsInv tells where a command and its connection are, of the MCP    *)
(* server ToolsInv how a view and a line reach the output, and of a cut    *)
(* of an output the lemmas about HeadLen, CharFloor and Apply.             *)
(***************************************************************************)
EXTENDS MCCalls, FiniteSetTheorems, WellFoundedInduction, TLAPS

-----------------------------------------------------------------------------
(* The clock that is furthest ahead. *)

IsMost(x, ns) == x \in ns /\ \A y \in ns : Ahead[y] <= Ahead[x]

\* A finite set of nodes has a clock that no other is ahead of: a smallest set
\* without one would have one after all.
LEMMA SomeClockIsMostAhead ==
  ASSUME NEW ns \in SUBSET Nodes, ns # {}
  PROVE  \E x \in ns : IsMost(x, ns)
<1> DEFINE R == StrictSubsetOrdering(Nodes)
           Fin == FiniteSubsetsOf(Nodes)
           Bad == {s \in Fin : s # {} /\ ~ \E x \in s : IsMost(x, s)}
<1>1. Fin = SUBSET Nodes
  BY FS_FiniteSubsetsOfFinite, PoliciesAssumption
<1>2. IsWellFoundedOn(R, Fin)
  BY FS_StrictSubsetOrderingWellFounded
<1>3. SUFFICES ASSUME ns \in Bad PROVE FALSE
  BY <1>1
<1>4. PICK s \in Bad : \A u \in Bad : <<u, s>> \notin R
  <2>1. Bad \subseteq Fin /\ Bad # {}
    BY <1>3
  <2> HIDE DEF R, Fin, Bad
  <2> QED
    BY <1>2, <2>1, WFMin
<1>5. s \in SUBSET Nodes /\ s # {} /\ ~ \E x \in s : IsMost(x, s)
  BY <1>1
<1>6. PICK x \in s : TRUE
  BY <1>5
<1> DEFINE u == s \ {x}
<1>7. u \notin Bad
  <2>1. u \in SUBSET Nodes /\ u # s /\ u \subseteq s
    BY <1>5, <1>6
  <2>2. <<u, s>> \in R
    BY <1>5, <2>1 DEF StrictSubsetOrdering
  <2> QED
    BY <1>4, <2>2
<1>8. \A n \in Nodes : Ahead[n] \in Nat
  BY PoliciesAssumption
<1>9. CASE u = {}
  <2>1. s = {x}
    BY <1>6, <1>9
  <2>2. IsMost(x, s)
    BY <1>5, <1>6, <1>8, <2>1 DEF IsMost
  <2> QED
    BY <1>5, <1>6, <2>2
<1>10. CASE u # {}
  <2>1. PICK y \in u : IsMost(y, u)
    BY <1>1, <1>5, <1>7, <1>10
  <2>2. x \in Nodes /\ y \in Nodes /\ y \in s
    BY <1>5, <1>6, <2>1
  <2>3. CASE Ahead[x] <= Ahead[y]
    <3>1. IsMost(y, s)
      BY <2>1, <2>2, <2>3 DEF IsMost
    <3> QED
      BY <1>5, <2>2, <3>1
  <2>4. CASE ~ (Ahead[x] <= Ahead[y])
    <3>1. \A z \in s : Ahead[z] <= Ahead[x]
      BY <1>5, <1>8, <2>1, <2>2, <2>4 DEF IsMost
    <3> QED
      BY <1>5, <1>6, <3>1 DEF IsMost
  <2> QED
    BY <2>3, <2>4
<1> QED
  BY <1>9, <1>10

\* MostAhead bounds every clock.
LEMMA MostAheadBounds ==
  ASSUME Nodes # {}
  PROVE  MostAhead \in Nat /\ \A n \in Nodes : Ahead[n] <= MostAhead
<1> DEFINE leads == {Ahead[n] : n \in Nodes}
<1>1. \E x \in leads : \A n \in Nodes : Ahead[n] <= x
  BY SomeClockIsMostAhead DEF IsMost
<1>2. MostAhead \in leads /\ \A n \in Nodes : Ahead[n] <= MostAhead
  BY <1>1 DEF MostAhead
<1> QED
  BY <1>2, PoliciesAssumption


-----------------------------------------------------------------------------
(* The inductive invariant. *)

\* A word's date is no later than the last time a directory able to vouch on
\* it held a head that lists the node, by the clock that is furthest ahead.
Dated(w) ==
  \A n \in Everyone :
    CouldVouchFor(w.directory, w.head, n) => w.at <= listedAt[n] + MostAhead

WordsAreDated == \A w \in words : Dated(w)

\* The caller's words: those it keeps, those of an answer on its way, and those
\* a host showed it.
CallersWordsAreDated ==
  /\ \A w \in kept : Dated(w)
  /\ \A a \in ask : \A w \in a.words : Dated(w)
  /\ \A c \in call : \A w \in c.words : Dated(w)

ListedInThePast == \A n \in Everyone : listedAt[n] <= now

\* Nothing is asked of a directory but alone or for a call's refresh, and a
\* host that was told the call is in the view.
CallStands ==
  /\ ask # {} => \A c \in call : c.phase = "refreshing"
  /\ \A c \in call : c.phase \in {"spoken", "waiting"} => c.host \in view.hosts

CallingInv ==
  /\ CallerTypeOK
  /\ ListedInThePast /\ WordsAreDated /\ CallersWordsAreDated
  /\ CallStands
  /\ ToldOnlyUnderAVouchedHead /\ StdinOnlyToAListedHost /\ RemovedNodeWindow

-----------------------------------------------------------------------------
(* The checks a caller makes. *)

\* NextHead signs a head.
LEMMA NextHeadIsAHead ==
  ASSUME NEW base \in Heads, NEW ds \in SUBSET Nodes, NEW hs \in SUBSET Hosts,
         NEW t \in Nat
  PROVE  NextHead(base, ds, hs, t) \in Heads
BY PoliciesAssumption DEF NextHead, Heads

\* SignFresh signs words for its head, dated when it did.
LEMMA SignFreshSigns ==
  ASSUME NEW d \in Nodes, NEW h \in Heads, NEW t \in Nat
  PROVE  /\ SignFresh(d, h, t) \subseteq Words
         /\ \A w \in SignFresh(d, h, t) : w.directory = d /\ w.head = h /\ w.at = t
BY PoliciesAssumption DEF SignFresh, WordOf, Words, Heads

\* A word on which the caller may tell node n anything under head h is one of
\* a directory that could vouch for n, and has not lapsed.
LEMMA VouchingCouldVouch ==
  ASSUME NEW h, NEW n, NEW t, NEW ws, Lists(h, n), NEW w \in Vouching(h, ws, n, t)
  PROVE  /\ w \in ws /\ w.head = h /\ Verifies(w, h)
         /\ CouldVouchFor(w.directory, h, n)
         /\ t <= w.until
BY DEF Vouching, Vouches, Verifies, IsCurrent, CouldVouchFor

\* A node told on such a word, at most a refresh after it was found current, was
\* listed within the window.
LEMMA ToldInTheWindow ==
  ASSUME NEW w \in Words, NEW n \in Everyone, NEW t \in Nat, NEW spoken \in Nat,
         listedAt \in [Everyone -> Nat], Dated(w),
         CouldVouchFor(w.directory, w.head, n), Verifies(w, w.head),
         t <= w.until, spoken <= t + RefreshBudget
  PROVE  spoken <= listedAt[n] + MostAhead + FreshSecs + RefreshBudget
<1>1. w.directory \in Nodes /\ w.at \in Nat /\ w.until \in Nat
  BY DEF Words
<1>2. MostAhead \in Nat
  BY <1>1, MostAheadBounds
<1>3. w.at <= listedAt[n] + MostAhead
  BY DEF Dated
<1>4. w.until - w.at <= FreshSecs
  BY DEF Verifies
<1> QED
  BY <1>1, <1>2, <1>3, <1>4, PoliciesAssumption, CallingAssumption

-----------------------------------------------------------------------------
(* CallingInv holds at first, and every step keeps it. *)

LEMMA InitCallingInv == CallingInit => CallingInv
<1> SUFFICES ASSUME CallingInit PROVE CallingInv
  OBVIOUS
<1>1. CallerTypeOK
  BY PoliciesAssumption
     DEF CallingInit, Init, CallerTypeOK, TypeOK, FirstHead, Heads, NoHead
<1>2. ListedInThePast /\ WordsAreDated /\ CallersWordsAreDated
  BY DEF CallingInit, Init, ListedInThePast, WordsAreDated, CallersWordsAreDated
<1> QED
  BY <1>1, <1>2 DEF CallingInit, CallingInv, CallStands, ToldOnlyUnderAVouchedHead,
                    StdinOnlyToAListedHost, RemovedNodeWindow

\* The directories' and the admin's part: types, and every word announced is
\* announced by a directory that holds the head it is for.
LEMMA NextTypes ==
  ASSUME TypeOK, Next
  PROVE  /\ TypeOK'
         /\ now' \in {now, now + 1}
         /\ \A w \in words' \ words :
              holds'[w.directory] = w.head /\ w.at <= now + Ahead[w.directory] /\ now' = now
<1>1. CASE Tick
  BY <1>1 DEF Tick, TypeOK, Remembered
<1>2. ASSUME NEW base \in signed, NEW ds \in SUBSET Nodes, NEW hs \in SUBSET Hosts,
             Issue(base, ds, hs)
      PROVE  /\ TypeOK' /\ now' = now /\ words' = words
  BY <1>2, NextHeadIsAHead DEF Issue, TypeOK
<1>3. ASSUME NEW n \in Nodes, NEW h \in signed, Take(n, h)
      PROVE  /\ TypeOK' /\ now' = now /\ words' = words
  BY <1>3 DEF Take, TypeOK
<1>4. ASSUME NEW n \in Nodes, NEW h \in signed, NEW at \in 0 .. Clock(n), Vouch(n, h, at)
      PROVE  /\ TypeOK' /\ now' = now
             /\ \A w \in words' \ words :
                  holds'[w.directory] = w.head /\ w.at <= now + Ahead[w.directory]
  <2>1. at \in Nat /\ at <= now + Ahead[n]
    BY PoliciesAssumption DEF Clock, TypeOK
  <2>2. h \in Heads
    BY DEF TypeOK
  <2>3. /\ SignFresh(n, h, at) \subseteq Words
        /\ \A w \in SignFresh(n, h, at) : w.directory = n /\ w.head = h /\ w.at = at
    BY <2>1, <2>2, SignFreshSigns
  <2>4. /\ holds' = [holds EXCEPT ![n] = h]
        /\ words' = words \cup SignFresh(n, h, at)
        /\ UNCHANGED <<now, signed>>
    BY <1>4 DEF Vouch
  <2> QED
    BY <2>1, <2>2, <2>3, <2>4 DEF TypeOK
<1> QED
  BY <1>1, <1>2, <1>3, <1>4 DEF Next

\* Steps of the world keep what is dated so: listedAt only grows, and a word
\* announced now is of a directory that could vouch now.
LEMMA WorldInv == CallingInv /\ World => CallingInv'
<1> SUFFICES ASSUME CallingInv, World PROVE CallingInv'
  OBVIOUS
<1> USE DEF CallingInv, CallerTypeOK
<1>1. /\ TypeOK' /\ now' \in {now, now + 1}
      /\ \A w \in words' \ words :
           holds'[w.directory] = w.head /\ w.at <= now + Ahead[w.directory] /\ now' = now
  BY NextTypes DEF World
<1>2. /\ kept' \subseteq kept /\ told' = {} /\ view' = view /\ ask' = ask /\ call' = call
      /\ NoteListed
  BY DEF World, Forget, Remembered
<1>3. /\ listedAt' \in [Everyone -> Nat]
      /\ \A n \in Everyone : listedAt[n] <= listedAt'[n] /\ listedAt'[n] <= now'
  <2>1. now \in Nat /\ now' \in Nat /\ now <= now'
    BY <1>1 DEF TypeOK
  <2> QED
    BY <1>2, <2>1 DEF NoteListed, ListedInThePast
<1>4. CallerTypeOK'
  BY <1>1, <1>2, <1>3
<1>5. ASSUME NEW w \in Words, Dated(w) PROVE Dated(w)'
  <2>1. w.directory \in Nodes /\ w.at \in Nat /\ MostAhead \in Nat
    BY MostAheadBounds DEF Words
  <2> SUFFICES ASSUME NEW n \in Everyone, CouldVouchFor(w.directory, w.head, n)
               PROVE  w.at <= listedAt'[n] + MostAhead
    BY DEF Dated
  <2>2. w.at <= listedAt[n] + MostAhead /\ listedAt[n] <= listedAt'[n]
    BY <1>3, <1>5 DEF Dated
  <2> QED
    BY <1>3, <2>1, <2>2
<1>6. WordsAreDated'
  <2> SUFFICES ASSUME NEW w \in words' PROVE Dated(w)'
    BY DEF WordsAreDated
  <2>1. w \in Words
    BY <1>1 DEF TypeOK
  <2>2. CASE w \in words
    BY <1>5, <2>1, <2>2 DEF WordsAreDated
  <2>3. CASE w \notin words
    <3>1. /\ holds'[w.directory] = w.head /\ w.at <= now + Ahead[w.directory]
          /\ now' = now
      BY <1>1, <2>3
    <3>2. w.directory \in Nodes /\ w.at \in Nat /\ MostAhead \in Nat
          /\ Ahead[w.directory] <= MostAhead /\ Ahead[w.directory] \in Nat /\ now \in Nat
      BY <2>1, MostAheadBounds, PoliciesAssumption DEF Words, TypeOK
    <3> SUFFICES ASSUME NEW n \in Everyone, CouldVouchFor(w.directory, w.head, n)
                 PROVE  w.at <= listedAt'[n] + MostAhead
      BY DEF Dated
    <3>3. listedAt'[n] = now'
      BY <1>2, <3>1, <3>2 DEF NoteListed
    <3> QED
      BY <3>1, <3>2, <3>3
  <2> QED
    BY <2>2, <2>3
<1>7. CallersWordsAreDated'
  <2>1. \A w \in kept' : w \in Words /\ Dated(w)
    BY <1>2 DEF CallersWordsAreDated
  <2>2. \A a \in ask : \A w \in a.words : w \in Words /\ Dated(w)
    BY DEF CallersWordsAreDated, Asks
  <2>3. \A c \in call : \A w \in c.words : w \in Words /\ Dated(w)
    BY DEF CallersWordsAreDated, Calls
  <2> QED
    BY <1>2, <1>5, <2>1, <2>2, <2>3 DEF CallersWordsAreDated
<1>8. ListedInThePast' /\ CallStands'
  BY <1>2, <1>3 DEF ListedInThePast, CallStands
<1>9. ToldOnlyUnderAVouchedHead' /\ StdinOnlyToAListedHost' /\ RemovedNodeWindow'
  BY <1>2 DEF ToldOnlyUnderAVouchedHead, StdinOnlyToAListedHost, RemovedNodeWindow
<1> QED
  BY <1>4, <1>6, <1>7, <1>8, <1>9

-----------------------------------------------------------------------------
(* Steps of the caller alone. *)

\* They leave the world, and so what is dated, as it was.
LEMMA ApartKeeps ==
  ASSUME CallingInv, Apart
  PROVE  /\ TypeOK' /\ listedAt' \in [Everyone -> Nat]
         /\ ListedInThePast' /\ WordsAreDated'
         /\ \A w : Dated(w)' <=> Dated(w)
BY DEF CallingInv, CallerTypeOK, Apart, vars, TypeOK, ListedInThePast, WordsAreDated, Dated

\* The words a node shows were announced, so they are dated.
LEMMA ShownAreDated ==
  ASSUME CallingInv, NEW h, NEW ws \in Shown(h)
  PROVE  ws \subseteq Words /\ \A w \in ws : Dated(w) /\ w.head = h
BY DEF CallingInv, CallerTypeOK, TypeOK, WordsAreDated, Shown

\* To send nothing keeps the three properties of what is told.
LEMMA NothingTold ==
  ASSUME told' = {}
  PROVE  /\ (told \subseteq Tellings)'
         /\ ToldOnlyUnderAVouchedHead' /\ StdinOnlyToAListedHost' /\ RemovedNodeWindow'
BY DEF ToldOnlyUnderAVouchedHead, StdinOnlyToAListedHost, RemovedNodeWindow

\* So does to send the token to a node h lists on words that were current,
\* for it, at t, no longer ago than a refresh takes.
LEMMA TokenTold ==
  ASSUME CallingInv, Apart,
         NEW h \in Heads, NEW n \in Everyone, NEW pool \in SUBSET Words, NEW t \in Nat,
         NEW ws \in SUBSET Vouching(h, pool, n, t), ws # {},
         \A w \in pool : Dated(w),
         Lists(h, n), CallerClock <= t + RefreshBudget,
         Told("token", n, h, ws)
  PROVE  /\ (told \subseteq Tellings)'
         /\ ToldOnlyUnderAVouchedHead' /\ StdinOnlyToAListedHost' /\ RemovedNodeWindow'
<1>1. told' = {[what |-> "token", to |-> n, head |-> h, words |-> ws, at |-> now]}
  BY DEF Told
<1>2. now \in Nat /\ CallerClock \in Nat /\ now + CallerAhead = CallerClock
  BY CallingAssumption DEF CallingInv, CallerTypeOK, TypeOK, CallerClock
<1>3. ws \in SUBSET Words /\ \A w \in ws : w \in Vouching(h, pool, n, t)
  BY DEF Vouching
<1>4. PICK w \in ws : TRUE
  OBVIOUS
<1>5. /\ w \in Words /\ Dated(w) /\ w.head = h /\ Verifies(w, h)
      /\ CouldVouchFor(w.directory, h, n) /\ t <= w.until
  BY <1>3, <1>4, VouchingCouldVouch
<1>6. (told \subseteq Tellings)'
  BY <1>1, <1>2, <1>3 DEF Tellings
<1>7. ToldOnlyUnderAVouchedHead' /\ StdinOnlyToAListedHost'
  BY <1>1, <1>4, <1>5 DEF ToldOnlyUnderAVouchedHead, StdinOnlyToAListedHost
<1>8. RemovedNodeWindow'
  <2>1. listedAt \in [Everyone -> Nat] /\ listedAt' = listedAt
    BY DEF CallingInv, CallerTypeOK, Apart
  <2>2. CallerClock <= listedAt[n] + MostAhead + FreshSecs + RefreshBudget
    BY <1>2, <1>5, <2>1, ToldInTheWindow
  <2> QED
    BY <1>1, <1>2, <2>1, <2>2 DEF RemovedNodeWindow
<1> QED
  BY <1>6, <1>7, <1>8

\* What is left of CallingInv once the world, and what is told, are settled.
LEMMA CallerStep ==
  ASSUME CallingInv, Apart,
         (told \subseteq Tellings)',
         ToldOnlyUnderAVouchedHead', StdinOnlyToAListedHost', RemovedNodeWindow',
         view' \in Heads \cup {NoHead}, kept' \subseteq Words,
         ask' \subseteq Asks, call' \subseteq Calls,
         \A w \in kept' : Dated(w),
         \A a \in ask' : \A w \in a.words : Dated(w),
         \A c \in call' : \A w \in c.words : Dated(w),
         CallStands'
  PROVE  CallingInv'
<1>1. CallerTypeOK' /\ ListedInThePast' /\ WordsAreDated'
  BY ApartKeeps DEF CallerTypeOK
<1>2. CallersWordsAreDated'
  BY ApartKeeps DEF CallersWordsAreDated
<1> QED
  BY <1>1, <1>2 DEF CallingInv

LEMMA AskDirectoryInv ==
  ASSUME CallingInv, NEW h \in signed, NEW d \in Nodes, NEW ws \in Shown(h),
         AskDirectory(d, h, ws)
  PROVE  CallingInv'
<1> DEFINE pool == ws \cup {w \in kept : w.head = h}
<1>1. /\ d \in h.directories /\ Apart /\ UNCHANGED <<view, kept, call>>
      /\ \A c \in call : c.phase = "refreshing"
      /\ Vouching(h, pool, d, CallerClock) # {}
      /\ ask' = {[to |-> d, head |-> h, words |-> pool, answered |-> FALSE]}
      /\ Told("token", d, h, Vouching(h, pool, d, CallerClock))
  BY DEF AskDirectory
<1>2. h \in Heads /\ CallerClock \in Nat /\ CallerClock <= CallerClock + RefreshBudget
  BY CallingAssumption DEF CallingInv, CallerTypeOK, TypeOK, CallerClock
<1>3. pool \in SUBSET Words /\ \A w \in pool : Dated(w)
  BY ShownAreDated DEF CallingInv, CallerTypeOK, CallersWordsAreDated
<1> HIDE DEF pool
<1>4. /\ (told \subseteq Tellings)'
      /\ ToldOnlyUnderAVouchedHead' /\ StdinOnlyToAListedHost' /\ RemovedNodeWindow'
  BY <1>1, <1>2, <1>3, TokenTold DEF Lists, Everyone
<1>5. ask' \subseteq Asks /\ \A a \in ask' : \A w \in a.words : Dated(w)
  BY <1>1, <1>2, <1>3 DEF Asks
<1>6. CallStands'
  BY <1>1 DEF CallStands, CallingInv
<1> QED
  BY <1>1, <1>4, <1>5, <1>6, CallerStep DEF CallingInv, CallerTypeOK, CallersWordsAreDated

LEMMA AnswersInv ==
  ASSUME CallingInv, NEW a \in ask, NEW own \in {{}} \cup {{w} : w \in words},
         Answers(a, own)
  PROVE  CallingInv'
<1>1. /\ ask' = {[a EXCEPT !.answered = TRUE, !.words = @ \cup own]}
      /\ told' = {} /\ UNCHANGED <<view, kept, call>> /\ Apart
  BY DEF Answers
<1>2. own \subseteq words /\ words \subseteq Words /\ \A w \in own : Dated(w)
  BY DEF CallingInv, CallerTypeOK, TypeOK, WordsAreDated
<1>3. a \in Asks /\ \A w \in a.words : Dated(w)
  BY DEF CallingInv, CallerTypeOK, CallersWordsAreDated
<1>4. ask' \subseteq Asks /\ \A b \in ask' : \A w \in b.words : Dated(w)
  BY <1>1, <1>2, <1>3 DEF Asks
<1>5. CallStands'
  BY <1>1 DEF CallStands, CallingInv
<1> QED
  BY <1>1, <1>4, <1>5, NothingTold, CallerStep DEF CallingInv, CallerTypeOK, CallersWordsAreDated

LEMMA AnsweredInv == ASSUME CallingInv, NEW a \in ask, Answered(a) PROVE CallingInv'
<1>1. /\ view' = a.head
      /\ kept' = {w \in kept \cup a.words : w.head = a.head}
      /\ ask' = {}
      /\ call' = {[c EXCEPT !.phase = "refreshed"] : c \in call}
      /\ told' = {} /\ Apart
  BY DEF Answered
<1>2. a \in Asks /\ \A w \in a.words : Dated(w)
  BY DEF CallingInv, CallerTypeOK, CallersWordsAreDated
<1>3. view' \in Heads /\ kept' \subseteq Words /\ \A w \in kept' : Dated(w)
  BY <1>1, <1>2 DEF CallingInv, CallerTypeOK, CallersWordsAreDated, Asks
<1>4. \A c \in call : c \in Calls /\ \A w \in c.words : Dated(w)
  BY DEF CallingInv, CallerTypeOK, CallersWordsAreDated
<1>5. call' \subseteq Calls /\ \A c \in call' : c.phase = "refreshed" /\ \A w \in c.words : Dated(w)
  BY <1>1, <1>4 DEF Calls
<1>6. CallStands'
  BY <1>1, <1>5 DEF CallStands
<1> QED
  BY <1>1, <1>3, <1>5, <1>6, NothingTold, CallerStep

LEMMA UnansweredInv ==
  ASSUME CallingInv, (\E a \in ask : Unanswered(a)) \/ (\E c \in call : GiveUp(c))
  PROVE  CallingInv'
<1>1. /\ ask' = {} /\ told' = {} /\ call' \subseteq call
      /\ UNCHANGED <<view, kept>> /\ Apart
  BY DEF Unanswered, GiveUp
<1>2. CallStands'
  BY <1>1 DEF CallStands, CallingInv
<1> QED
  BY <1>1, <1>2, NothingTold, CallerStep DEF CallingInv, CallerTypeOK, CallersWordsAreDated

\* A call is dialed with nothing asked: speaking at once, or only opening.
LEMMA SpeakAtOnceInv == ASSUME CallingInv, NEW n \in Everyone, SpeakAtOnce(n) PROVE CallingInv'
<1> DEFINE c == [phase |-> "spoken", host |-> n, head |-> view, words |-> {},
                 checked |-> CallerClock]
<1>1. /\ ask = {} /\ n \in view.hosts /\ Vouching(view, kept, n, CallerClock) # {}
      /\ call' = {c} /\ Apart /\ UNCHANGED <<view, kept, ask>>
      /\ Told("token", n, view, Vouching(view, kept, n, CallerClock))
  BY DEF SpeakAtOnce, Dial, Ready
<1>2. view \in Heads
  BY <1>1 DEF CallingInv, CallerTypeOK, NoHead
<1>3. CallerClock \in Nat /\ CallerClock <= CallerClock + RefreshBudget
  BY CallingAssumption DEF CallingInv, CallerTypeOK, TypeOK, CallerClock
<1>4. kept \in SUBSET Words /\ \A w \in kept : Dated(w)
  BY DEF CallingInv, CallerTypeOK, CallersWordsAreDated
<1>5. /\ (told \subseteq Tellings)'
      /\ ToldOnlyUnderAVouchedHead' /\ StdinOnlyToAListedHost' /\ RemovedNodeWindow'
  BY <1>1, <1>2, <1>3, <1>4, TokenTold DEF Lists
<1>6. call' \subseteq Calls /\ \A d \in call' : \A w \in d.words : Dated(w)
  BY <1>1, <1>2, <1>3 DEF Calls
<1>7. CallStands'
  BY <1>1 DEF CallStands
<1> QED
  BY <1>1, <1>5, <1>6, <1>7, CallerStep DEF CallingInv, CallerTypeOK, CallersWordsAreDated

LEMMA OpenInv == ASSUME CallingInv, NEW n \in Everyone, Open(n) PROVE CallingInv'
<1> DEFINE c == [phase |-> "opened", host |-> n, head |-> NoHead, words |-> {},
                 checked |-> CallerClock]
<1>1. ask = {} /\ call' = {c} /\ told' = {} /\ Apart /\ UNCHANGED <<view, kept, ask>>
  BY DEF Open, Dial
<1>2. CallerClock \in Nat
  BY CallingAssumption DEF CallingInv, CallerTypeOK, TypeOK, CallerClock
<1>3. call' \subseteq Calls /\ \A d \in call' : \A w \in d.words : Dated(w)
  BY <1>1, <1>2 DEF Calls
<1>4. CallStands'
  BY <1>1 DEF CallStands
<1> QED
  BY <1>1, <1>3, <1>4, NothingTold, CallerStep DEF CallingInv, CallerTypeOK, CallersWordsAreDated

\* A call that awaits its ack is of a host in the view, with no refresh under way.
LEMMA AwaitsAckKeeps ==
  ASSUME CallingInv, NEW c \in call, AwaitsAck(c), c.phase # "refreshing",
         c.host \in view.hosts, UNCHANGED <<view, ask>>
  PROVE  /\ call' \subseteq Calls /\ \A d \in call' : \A w \in d.words : Dated(w)
         /\ CallStands'
<1>1. c \in Calls /\ view \in Heads \cup {NoHead}
  BY DEF CallingInv, CallerTypeOK
<1>2. call' = {[c EXCEPT !.phase = "waiting", !.head = view, !.words = {}]}
  BY DEF AwaitsAck
<1>3. ask = {}
  BY DEF CallingInv, CallStands
<1>4. call' \subseteq Calls /\ \A d \in call' : d.words = {} /\ d.host = c.host
  BY <1>1, <1>2 DEF Calls
<1> QED
  BY <1>3, <1>4 DEF CallStands

LEMMA ProofSameInv ==
  ASSUME CallingInv, NEW c \in call, NEW ws \in Shown(view), ProofSame(c, ws)
  PROVE  CallingInv'
<1>1. PICK w \in Vouching(view, ws, c.host, CallerClock) :
        kept' = kept \cup {w} /\ Told("token", c.host, view, {w})
  BY DEF ProofSame
<1>2. /\ c.phase = "opened" /\ c.host \in view.hosts
      /\ AwaitsAck(c) /\ UNCHANGED <<view, ask>> /\ Apart
  BY DEF ProofSame
<1>3. c \in Calls /\ view \in Heads
  BY <1>2 DEF CallingInv, CallerTypeOK, NoHead
<1>4. CallerClock \in Nat /\ CallerClock <= CallerClock + RefreshBudget
  BY CallingAssumption DEF CallingInv, CallerTypeOK, TypeOK, CallerClock
<1>5. ws \in SUBSET Words /\ \A v \in ws : Dated(v)
  BY ShownAreDated
<1>6. /\ (told \subseteq Tellings)'
      /\ ToldOnlyUnderAVouchedHead' /\ StdinOnlyToAListedHost' /\ RemovedNodeWindow'
  BY <1>1, <1>2, <1>3, <1>4, <1>5, TokenTold DEF Lists, Calls
<1>7. kept' \subseteq Words /\ \A v \in kept' : Dated(v)
  BY <1>1, <1>5 DEF Vouching, CallingInv, CallerTypeOK, CallersWordsAreDated
<1>8. call' \subseteq Calls /\ (\A d \in call' : \A v \in d.words : Dated(v)) /\ CallStands'
  BY <1>2, AwaitsAckKeeps
<1> QED
  BY <1>2, <1>6, <1>7, <1>8, CallerStep DEF CallingInv, CallerTypeOK, CallersWordsAreDated

LEMMA ProofNewerInv ==
  ASSUME CallingInv, NEW c \in call, NEW h \in signed, NEW ws \in Shown(h),
         ProofNewer(c, h, ws)
  PROVE  CallingInv'
<1>1. /\ c.phase = "opened" /\ told' = {} /\ UNCHANGED <<view, kept, ask>> /\ Apart
      /\ call' = {[c EXCEPT !.phase = "refreshing", !.head = h, !.words = ws,
                            !.checked = CallerClock]}
  BY DEF ProofNewer
<1>2. c \in Calls /\ h \in Heads /\ CallerClock \in Nat
  BY CallingAssumption DEF CallingInv, CallerTypeOK, TypeOK, CallerClock
<1>3. ws \in SUBSET Words /\ \A w \in ws : Dated(w)
  BY ShownAreDated
<1>4. /\ call' \subseteq Calls
      /\ \A d \in call' : d.words = ws /\ d.phase = "refreshing"
  BY <1>1, <1>2, <1>3 DEF Calls
<1>5. CallStands'
  BY <1>1, <1>4 DEF CallStands
<1> QED
  BY <1>1, <1>3, <1>4, <1>5, NothingTold, CallerStep DEF CallingInv, CallerTypeOK, CallersWordsAreDated

\* The proof is checked again at the time it was first, within the budget since.
LEMMA RecheckInv == ASSUME CallingInv, NEW c \in call, Recheck(c) PROVE CallingInv'
<1>1. PICK w \in Vouching(c.head, c.words, c.host, c.checked) :
        kept' = kept \cup {w} /\ Told("token", c.host, c.head, {w})
  BY DEF Recheck
<1>2. /\ c.phase = "refreshed" /\ InBudget(c) /\ view = c.head /\ c.host \in view.hosts
      /\ AwaitsAck(c) /\ UNCHANGED <<view, ask>> /\ Apart
  BY DEF Recheck
<1>3. c \in Calls /\ c.head \in Heads
  BY <1>2 DEF CallingInv, CallerTypeOK, NoHead
<1>4. c.checked \in Nat /\ CallerClock <= c.checked + RefreshBudget
  BY <1>2, <1>3 DEF InBudget, CallerClock, Calls
<1>5. c.words \in SUBSET Words /\ \A v \in c.words : Dated(v)
  BY <1>3 DEF CallingInv, CallersWordsAreDated, Calls
<1>6. /\ (told \subseteq Tellings)'
      /\ ToldOnlyUnderAVouchedHead' /\ StdinOnlyToAListedHost' /\ RemovedNodeWindow'
  BY <1>1, <1>2, <1>3, <1>4, <1>5, TokenTold DEF Lists, Calls
<1>7. kept' \subseteq Words /\ \A v \in kept' : Dated(v)
  BY <1>1, <1>5 DEF Vouching, CallingInv, CallerTypeOK, CallersWordsAreDated
<1>8. call' \subseteq Calls /\ (\A d \in call' : \A v \in d.words : Dated(v)) /\ CallStands'
  BY <1>2, AwaitsAckKeeps
<1> QED
  BY <1>2, <1>6, <1>7, <1>8, CallerStep DEF CallingInv, CallerTypeOK, CallersWordsAreDated

LEMMA ProofAfterInv ==
  ASSUME CallingInv, NEW c \in call, NEW h \in signed, NEW ws \in Shown(h),
         ProofAfter(c, h, ws)
  PROVE  CallingInv'
<1>1. /\ c.phase = "spoken" /\ told' = {} /\ AwaitsAck(c) /\ UNCHANGED <<view, ask>> /\ Apart
      /\ kept' = kept \/ \E w \in ws \cup kept : kept' = kept \cup {w}
  BY DEF ProofAfter
<1>2. kept' \subseteq Words /\ \A w \in kept' : Dated(w)
  BY <1>1, ShownAreDated DEF CallingInv, CallerTypeOK, CallersWordsAreDated
<1>3. c.host \in view.hosts
  BY <1>1 DEF CallingInv, CallStands
<1>4. call' \subseteq Calls /\ (\A d \in call' : \A v \in d.words : Dated(v)) /\ CallStands'
  BY <1>1, <1>3, AwaitsAckKeeps
<1> QED
  BY <1>1, <1>2, <1>4, NothingTold, CallerStep DEF CallingInv, CallerTypeOK, CallersWordsAreDated

\* Stdin goes under the newer of the view and the ack's head: the first lists
\* the host since the call awaits its ack, the second by HelloAck::assigns.
LEMMA AckInv == ASSUME CallingInv, NEW c \in call, NEW h \in signed, Ack(c, h) PROVE CallingInv'
<1> DEFINE newest == IF IsNewer(h, view) THEN h ELSE view
<1>1. /\ c.phase = "waiting" /\ (IsNewer(h, view) => c.host \in h.hosts)
      /\ call' = {} /\ UNCHANGED <<view, kept, ask>> /\ Apart
      /\ told' = {[what |-> "stdin", to |-> c.host, head |-> newest, words |-> {}, at |-> now]}
  BY DEF Ack, AckUnder, Told
<1>2. c \in Calls /\ c.host \in view.hosts /\ h \in Heads /\ now \in Nat
  BY <1>1 DEF CallingInv, CallerTypeOK, TypeOK, CallStands
<1>3. newest \in Heads /\ c.host \in newest.hosts /\ Covers(newest, view)
  BY <1>1, <1>2 DEF CallingInv, CallerTypeOK, NoHead, Covers
<1>4. (told \subseteq Tellings)'
  BY <1>1, <1>2, <1>3 DEF Tellings, Calls
<1>5. ToldOnlyUnderAVouchedHead' /\ StdinOnlyToAListedHost' /\ RemovedNodeWindow'
  BY <1>1, <1>3 DEF ToldOnlyUnderAVouchedHead, StdinOnlyToAListedHost, RemovedNodeWindow
<1>6. CallStands'
  BY <1>1 DEF CallStands
<1> QED
  BY <1>1, <1>4, <1>5, <1>6, CallerStep DEF CallingInv, CallerTypeOK, CallersWordsAreDated

LEMMA StutterCallingInv == CallingInv /\ UNCHANGED allVars => CallingInv'
BY DEF allVars, vars, caller, CallingInv, CallerTypeOK, TypeOK, ListedInThePast, WordsAreDated,
       CallersWordsAreDated, Dated, CallStands, ToldOnlyUnderAVouchedHead,
       StdinOnlyToAListedHost, RemovedNodeWindow

\* CallingInv is inductive: one lemma for each action of CallingNext.
LEMMA CallingStepInv == CallingInv /\ [CallingNext]_allVars => CallingInv'
<1> SUFFICES ASSUME CallingInv, CallingNext PROVE CallingInv'
  BY StutterCallingInv
<1>1. CASE World
  BY <1>1, WorldInv
<1>2. ASSUME NEW h \in signed, NEW d \in Nodes, NEW ws \in Shown(h), AskDirectory(d, h, ws)
      PROVE  CallingInv'
  BY <1>2, AskDirectoryInv
<1>3. ASSUME NEW a \in ask, NEW own \in {{}} \cup {{w} : w \in words},
             Answers(a, own) \/ Answered(a) \/ Unanswered(a)
      PROVE  CallingInv'
  BY <1>3, AnswersInv, AnsweredInv, UnansweredInv
<1>4. ASSUME NEW n \in Everyone, SpeakAtOnce(n) \/ Open(n) PROVE CallingInv'
  BY <1>4, SpeakAtOnceInv, OpenInv
<1>5. ASSUME NEW c \in call, NEW ws \in Shown(view), ProofSame(c, ws) PROVE CallingInv'
  BY <1>5, ProofSameInv
<1>6. ASSUME NEW c \in call, NEW h \in signed, NEW ws \in Shown(h),
             ProofNewer(c, h, ws) \/ ProofAfter(c, h, ws)
      PROVE  CallingInv'
  BY <1>6, ProofNewerInv, ProofAfterInv
<1>7. ASSUME NEW c \in call, NEW h \in signed, Recheck(c) \/ GiveUp(c) \/ Ack(c, h)
      PROVE  CallingInv'
  BY <1>7, RecheckInv, UnansweredInv, AckInv
<1>8. ASSUME NEW c \in call, Recheck(c) \/ GiveUp(c) PROVE CallingInv'
  BY <1>8, RecheckInv, UnansweredInv
<1>9. ASSUME NEW a \in ask, Answered(a) \/ Unanswered(a) PROVE CallingInv'
  BY <1>9, AnsweredInv, UnansweredInv
<1> QED
  BY <1>1, <1>2, <1>3, <1>4, <1>5, <1>6, <1>7, <1>8, <1>9 DEF CallingNext

-----------------------------------------------------------------------------
(* Theorems. *)

\* Every reachable state of a caller and the directories it hears of (view.rs,
\* vouch.rs, call.rs) satisfies the inductive invariant.
THEOREM CallingInvariance == CallingSpec => []CallingInv
BY InitCallingInv, CallingStepInv, PTL DEF CallingSpec

\* The token goes only to a node listed by a head that a directory, another or
\* the only one, vouched for; stdin only to a host that the newest head the
\* caller knows lists (Vouching::check, accept_ack).
THEOREM ToldIsTheirs == CallingSpec => []ToldWhatIsTheirs
<1>1. CallingInv => ToldWhatIsTheirs
  BY DEF CallingInv, ToldWhatIsTheirs
<1> QED
  BY <1>1, CallingInvariance, PTL

\* Whatever the clocks, the lifetime of words and the time a refresh takes, a
\* removed node is told nothing after FreshSecs, the directories' lead and one
\* refresh (Fresh::vouches, Vouching::check, directory_vouched).
THEOREM RemovedIsToldNothing == CallingSpec => []RemovedNodeWindow
<1>1. CallingInv => RemovedNodeWindow
  BY DEF CallingInv
<1> QED
  BY <1>1, CallingInvariance, PTL

-----------------------------------------------------------------------------
(* A call among hosts (Failover), in the composition MCCalls. *)

Phase == {"idle", "dialing", "proof", "ack", "bridged", "record", "write", "done"}

CallRecord ==
  [phase : Phase, at : 0 .. Ticks, view : Nat, tried : Seq(Servers), next : Nat,
   atOnce : BOOLEAN, lapsed : SUBSET Nat, told : SUBSET Servers, under : SUBSET (Servers \X Nat),
   loaded : [Servers -> -1 .. Ticks], exit : {-1, 0, 1, 2, 77}]

Verdicts == [Servers -> {"none", "ran", "denied"}]

\* The host r dials, or dialed last.
Dialed(r) == r.tried[r.next]

\* r is about to tell a host the call, or has yet to hear its proof.
Unsaid(r) == r.phase = "dialing" \/ (r.phase = "proof" /\ ~ r.atOnce)

\* What is so of a call r of which the hosts have decided w.
Stands(r, w) ==
  /\ r.phase \notin {"idle", "done"} => r.view \in Policies /\ r.next \in 1 .. Len(r.tried)
  /\ \A h \in Servers : w[h] = "ran" => h \in r.told
  /\ \A h \in r.told : h # Dialed(r) => w[h] = "denied"
  /\ Unsaid(r) => \A h \in r.told : w[h] = "denied"
  /\ r.phase = "idle" => r.told = {} /\ r.under = {}
  /\ r.phase \in {"bridged", "record", "write"} => w[Dialed(r)] = "ran"
  /\ r.exit \in {0, 77} => r.next \in 1 .. Len(r.tried)
  /\ r.exit = 0 => w[Dialed(r)] = "ran"
  /\ r.exit = 77 => w[Dialed(r)] = "denied"
  /\ r.phase \notin {"record", "write", "done"} => r.exit = -1
  /\ \A t \in r.under : t[1] \in Serving[t[2]]

SharedOK ==
  /\ clock \in 0 .. Ticks
  /\ stored \in Policies /\ seen \in Policies /\ word \in BOOLEAN
  /\ unanswered \in [Servers -> -1 .. Ticks]

FailoverInv ==
  /\ SharedOK
  /\ trying \in [Calling -> CallRecord]
  /\ verdict \in [Calling -> Verdicts]
  /\ \A c \in Calling : Stands(trying[c], verdict[c])

-----------------------------------------------------------------------------
(* What the proofs of the actions have in common. *)

\* What the invariant says of the call that an action moves.
Facts(c) ==
  /\ SharedOK
  /\ trying \in [Calling -> CallRecord] /\ trying[c] \in CallRecord
  /\ verdict \in [Calling -> Verdicts] /\ verdict[c] \in Verdicts
  /\ Stands(trying[c], verdict[c])
  /\ trying[c].phase \notin {"idle", "done"} => Dialed(trying[c]) \in Servers

LEMMA OfOne ==
  ASSUME FailoverInv, NEW c \in Calling
  PROVE  Facts(c)
<1>1. trying[c] \in CallRecord /\ Stands(trying[c], verdict[c])
  BY DEF FailoverInv
<1>2. trying[c].phase \notin {"idle", "done"} => Dialed(trying[c]) \in Servers
  <2>1. trying[c].tried \in Seq(Servers)
    BY <1>1 DEF CallRecord
  <2>2. trying[c].phase \notin {"idle", "done"} => trying[c].next \in 1 .. Len(trying[c].tried)
    BY <1>1 DEF Stands
  <2> QED BY <2>1, <2>2 DEF Dialed
<1> QED BY <1>1, <1>2 DEF FailoverInv, Facts

\* A step that takes one call to r, and its hosts' decisions to w, keeps the
\* invariant if these may stand together.
LEMMA OneMoves ==
  ASSUME FailoverInv, NEW c \in Calling, NEW r \in CallRecord, NEW w \in Verdicts,
         Stands(r, w), trying' = [trying EXCEPT ![c] = r], verdict' = [verdict EXCEPT ![c] = w],
         SharedOK'
  PROVE  FailoverInv'
<1>1. trying' \in [Calling -> CallRecord] /\ verdict' \in [Calling -> Verdicts]
  BY DEF FailoverInv
<1>2. ASSUME NEW d \in Calling PROVE Stands(trying[d], verdict[d])'
  <2>1. CASE d = c
    <3>1. trying'[d] = r /\ verdict'[d] = w
      BY <2>1 DEF FailoverInv
    <3> QED BY <3>1 DEF Stands, Unsaid, Dialed
  <2>2. CASE d # c
    <3>1. trying'[d] = trying[d] /\ verdict'[d] = verdict[d] /\ Stands(trying[d], verdict[d])
      BY <2>2 DEF FailoverInv
    <3> QED BY <3>1 DEF Stands, Unsaid, Dialed
  <2> QED BY <2>1, <2>2
<1> QED BY <1>1, <1>2 DEF FailoverInv

\* Which policy a call reads says nothing of what its hosts decided.
LEMMA ViewAside ==
  ASSUME NEW f, NEW r, NEW w, Stands(f, w), r.view \in Policies,
         r.phase = f.phase, r.tried = f.tried, r.next = f.next, r.told = f.told,
         r.under = f.under, r.exit = f.exit, r.atOnce = f.atOnce
  PROVE  Stands(r, w)
<1>1. Dialed(r) = Dialed(f) /\ (Unsaid(r) <=> Unsaid(f))
  BY DEF Dialed, Unsaid
<1> QED BY <1>1 DEF Stands

\* Most steps are the call's: no host decides anything.
LEMMA CallMoves ==
  ASSUME FailoverInv, NEW c \in Calling, NEW r \in CallRecord,
         Stands(r, verdict[c]), F!Becomes(c, r), SharedOK'
  PROVE  FailoverInv'
<1>1. verdict[c] \in Verdicts /\ verdict' = [verdict EXCEPT ![c] = verdict[c]]
  BY DEF FailoverInv, F!Becomes
<1> QED BY <1>1, OneMoves DEF F!Becomes

\* A call that has gone no further than a proof may go to the next host, or end
\* with none left, once every host it told has refused it.
LEMMA FailsStands ==
  ASSUME NEW c \in Calling, Facts(c), NEW w \in Verdicts, NEW lapsed \in BOOLEAN,
         trying[c].phase \in {"dialing", "proof"},
         \A h \in Servers : w[h] = "ran" => h \in trying[c].told,
         \A h \in trying[c].told : w[h] = "denied"
  PROVE  F!Fails(c, lapsed) \in CallRecord /\ Stands(F!Fails(c, lapsed), w)
<1> DEFINE s == [trying[c] EXCEPT !.lapsed = @ \cup (IF lapsed THEN {trying[c].next} ELSE {})]
<1>1. trying[c] \in CallRecord /\ Stands(trying[c], verdict[c])
  BY DEF Facts
<1>2. trying[c].next \in 1 .. Len(trying[c].tried) /\ trying[c].view \in Policies /\ trying[c].exit = -1
  BY <1>1 DEF Stands
<1>3. trying[c].tried \in Seq(Servers) /\ trying[c].next \in Nat
  BY <1>1 DEF CallRecord
<1>4. Len(trying[c].tried) \in Nat
  BY <1>3
<1>10. trying[c].lapsed \cup (IF lapsed THEN {trying[c].next} ELSE {}) \subseteq Nat
  BY <1>1, <1>3 DEF CallRecord
<1>5. s \in CallRecord
  <2> DEFINE after == trying[c].lapsed \cup (IF lapsed THEN {trying[c].next} ELSE {})
  <2>1. s = [trying[c] EXCEPT !.lapsed = after]
    OBVIOUS
  <2> HIDE DEF after, s
  <2> QED BY <1>1, <1>10, <2>1 DEF CallRecord, after
<1>6. /\ s.phase = trying[c].phase /\ s.view = trying[c].view /\ s.tried = trying[c].tried
      /\ s.next = trying[c].next /\ s.told = trying[c].told /\ s.under = trying[c].under
      /\ s.exit = trying[c].exit
  BY <1>1 DEF CallRecord
<1>7. \A t \in trying[c].under : t[1] \in Serving[t[2]]
  BY <1>1 DEF Stands
<1>8. CASE trying[c].next = Len(trying[c].tried)
  <2> DEFINE r == [s EXCEPT !.phase = "done", !.exit = 1]
  <2>1. F!Fails(c, lapsed) = r
    BY <1>8 DEF F!Fails
  <2>2. r \in CallRecord
    BY <1>5 DEF CallRecord, Phase
  <2>3. r.phase = "done" /\ r.exit = 1 /\ r.told = trying[c].told /\ r.under = trying[c].under
    BY <1>5, <1>6 DEF CallRecord
  <2> HIDE DEF r, s
  <2> QED BY <1>7, <2>1, <2>2, <2>3 DEF Stands, Unsaid
<1>9. CASE trying[c].next # Len(trying[c].tried)
  <2> DEFINE r == [s EXCEPT !.phase = "dialing", !.next = @ + 1]
  <2>1. F!Fails(c, lapsed) = r
    BY <1>9 DEF F!Fails
  <2>5. s.next + 1 \in Nat
    BY <1>3, <1>6
  <2>2. r \in CallRecord
    <3> HIDE DEF s
    <3> QED BY <2>5, <1>5 DEF CallRecord, Phase
  <2>3. /\ r.phase = "dialing" /\ r.exit = -1 /\ r.told = trying[c].told
        /\ r.under = trying[c].under /\ r.view \in Policies /\ r.tried = trying[c].tried
        /\ r.next = trying[c].next + 1
    BY <1>2, <1>5, <1>6 DEF CallRecord
  <2>4. r.next \in 1 .. Len(r.tried)
    BY <1>2, <1>3, <1>4, <1>9, <2>3
  <2> HIDE DEF r, s
  <2> QED BY <1>7, <2>1, <2>2, <2>3, <2>4 DEF Stands, Unsaid
<1> QED BY <1>8, <1>9

\* A call may end at any time, with an exit code that no host decides.
LEMMA EndsStands ==
  ASSUME NEW c \in Calling, Facts(c), NEW code \in {1, 2}
  PROVE  F!EndsAs(c, code) \in CallRecord /\ Stands(F!EndsAs(c, code), verdict[c])
<1> DEFINE r == F!EndsAs(c, code)
<1>1. trying[c] \in CallRecord /\ Stands(trying[c], verdict[c])
  BY DEF Facts
<1>2. /\ r \in CallRecord /\ r.phase = "done" /\ r.exit = code /\ r.told = trying[c].told
      /\ r.under = trying[c].under /\ r.tried = trying[c].tried /\ r.next = trying[c].next
  BY <1>1 DEF F!EndsAs, CallRecord, Phase
<1> HIDE DEF r
<1>3. Stands(r, verdict[c])
  BY <1>1, <1>2 DEF Stands, Unsaid, Dialed
<1> QED BY <1>2, <1>3 DEF r

\* A host the view lists may be told the call, once every host told has refused it.
LEMMA TellsStands ==
  ASSUME F!FailoverAssumption, NEW c \in Calling, Facts(c), NEW v \in Policies, Unsaid(trying[c]),
         F!Host(c) \in Serving[v], NEW phase \in Phase, NEW atOnce \in BOOLEAN,
         phase = "ack" \/ (phase = "proof" /\ atOnce)
  PROVE  LET r == [F!Tells(c, v) EXCEPT !.phase = phase, !.atOnce = atOnce]
         IN  r \in CallRecord /\ Stands(r, verdict[c])
<1> DEFINE r == [F!Tells(c, v) EXCEPT !.phase = phase, !.atOnce = atOnce]
<1>1. trying[c] \in CallRecord /\ Stands(trying[c], verdict[c]) /\ F!Host(c) \in Servers /\ v \in Nat
      /\ trying[c].phase \in {"dialing", "proof"}
  BY DEF Facts, Unsaid, F!Host, Dialed, F!FailoverAssumption
<1>2. F!Tells(c, v) \in CallRecord
  <2>1. /\ trying[c].told \cup {F!Host(c)} \in SUBSET Servers
        /\ trying[c].under \cup {<<F!Host(c), v>>} \in SUBSET (Servers \X Nat)
    BY <1>1 DEF CallRecord
  <2> QED BY <1>1, <2>1 DEF F!Tells, CallRecord
<1>3. /\ r \in CallRecord /\ r.phase = phase /\ r.atOnce = atOnce
      /\ r.told = trying[c].told \cup {F!Host(c)} /\ r.under = trying[c].under \cup {<<F!Host(c), v>>}
      /\ r.tried = trying[c].tried /\ r.next = trying[c].next /\ r.view = v
      /\ r.exit = trying[c].exit
  BY <1>1, <1>2 DEF F!Tells, CallRecord
<1>4. F!Host(c) = Dialed(r)
  BY <1>3 DEF F!Host, Dialed
<1>5. trying[c].next \in 1 .. Len(trying[c].tried) /\ trying[c].exit = -1
  BY <1>1 DEF Stands
<1>6. \A h \in trying[c].told : verdict[c][h] = "denied"
  BY <1>1 DEF Stands
<1>7. \A t \in r.under : t[1] \in Serving[t[2]]
  BY <1>1, <1>3 DEF Stands
<1>8. \A h \in Servers : verdict[c][h] = "ran" => h \in trying[c].told
  BY <1>1 DEF Stands
<1> HIDE DEF r
<1>9. Stands(r, verdict[c])
  BY <1>3, <1>4, <1>5, <1>6, <1>7, <1>8 DEF Stands, Unsaid
<1> QED BY <1>3, <1>9 DEF r

\* A host that was told the call by the view it had may be heard out.
LEMMA AckStands ==
  ASSUME NEW c \in Calling, Facts(c), F!In(c, "proof"), trying[c].atOnce
  PROVE  LET r == [trying[c] EXCEPT !.phase = "ack"]
         IN  r \in CallRecord /\ Stands(r, verdict[c])
<1> DEFINE r == [trying[c] EXCEPT !.phase = "ack"]
<1>1. trying[c] \in CallRecord /\ Stands(trying[c], verdict[c])
  BY DEF Facts
<1>2. /\ r \in CallRecord /\ r.phase = "ack" /\ r.told = trying[c].told /\ r.under = trying[c].under
      /\ r.tried = trying[c].tried /\ r.next = trying[c].next /\ r.view = trying[c].view
      /\ r.exit = trying[c].exit
  BY <1>1 DEF CallRecord, Phase
<1> HIDE DEF r
<1>3. Stands(r, verdict[c])
  BY <1>1, <1>2 DEF Stands, Unsaid, Dialed, F!In
<1> QED BY <1>2, <1>3 DEF r

\* The newer of two versions is a version.
LEMMA NewestIsVersion ==
  ASSUME NEW u \in Policies, NEW v \in Policies
  PROVE  F!Newest(u, v) \in Policies
BY DEF F!Newest

-----------------------------------------------------------------------------
(* The invariant is inductive. *)

LEMMA IdleStands ==
  ASSUME F!FailoverAssumption
  PROVE  F!IdleCall \in CallRecord /\ F!IdleCall.told = {} /\ F!IdleCall.under = {}
         /\ F!IdleCall.exit = -1 /\ F!IdleCall.phase = "idle"
<1>1. << >> \in Seq(Servers)
  OBVIOUS
<1> QED BY <1>1 DEF F!FailoverAssumption, F!IdleCall, CallRecord, Phase

LEMMA InitFailover ==
  ASSUME F!FailoverAssumption, F!Init
  PROVE  FailoverInv
<1>1. SharedOK
  BY DEF F!Init, SharedOK, F!FailoverAssumption
<1>2. trying \in [Calling -> CallRecord] /\ verdict \in [Calling -> Verdicts]
  BY IdleStands DEF F!Init, Verdicts
<1>3. ASSUME NEW c \in Calling PROVE Stands(trying[c], verdict[c])
  <2>1. trying[c] = F!IdleCall /\ \A h \in Servers : verdict[c][h] = "none"
    BY DEF F!Init
  <2>2. F!IdleCall.told = {} /\ F!IdleCall.under = {} /\ F!IdleCall.exit = -1 /\ F!IdleCall.phase = "idle"
    BY IdleStands
  <2> QED BY <2>1, <2>2 DEF Stands, Unsaid
<1> QED BY <1>1, <1>2, <1>3 DEF FailoverInv

\* The finite sets of Failover, and their sizes, are those of its instance.
LEMMA SameSizes == \A s : F!Cardinality(s) = Cardinality(s) /\ F!IsFiniteSet(s) = IsFiniteSet(s)
BY DEF F!Cardinality, Cardinality, F!IsFiniteSet, IsFiniteSet

\* The hosts picked, in whatever order, are hosts that the version lists.
LEMMA DialsInv ==
  ASSUME F!FailoverAssumption, FailoverInv, NEW c \in Calling, NEW v \in Policies, F!In(c, "idle"),
         F!Dials(c, v), UNCHANGED F!shared
  PROVE  FailoverInv'
<1>1. Facts(c) /\ SharedOK'
  BY OfOne DEF FailoverInv, SharedOK, F!shared
<1>2. CASE Serving[v] = {}
  BY <1>1, <1>2, EndsStands, CallMoves DEF F!Dials
<1>3. CASE Serving[v] # {}
  <2>1. PICK s \in F!Candidates(v) :
          F!Becomes(c, [F!IdleCall EXCEPT !.phase = "dialing", !.at = clock, !.view = v,
                                      !.tried = s, !.next = 1])
    BY <1>3 DEF F!Dials
  <2>2. IsFiniteSet(Serving[v]) /\ Serving[v] \subseteq Servers /\ v \in Nat
    BY FS_Subset, SameSizes DEF F!FailoverAssumption
  <2>3. Cardinality(Serving[v]) \in Nat /\ Cardinality(Serving[v]) # 0
    BY <1>3, <2>2, FS_CardinalityType, FS_EmptySet
  <2>4. s \in [1 .. Cardinality(Serving[v]) -> Serving[v]]
    BY SameSizes DEF F!Candidates
  <2>5. s \in Seq(Servers) /\ Len(s) = Cardinality(Serving[v])
    BY <2>2, <2>3, <2>4
  <2> DEFINE r == [F!IdleCall EXCEPT !.phase = "dialing", !.at = clock, !.view = v, !.tried = s,
                                   !.next = 1]
  <2>6. clock \in 0 .. Ticks /\ F!IdleCall \in CallRecord
    BY <1>1, IdleStands DEF Facts, SharedOK
  <2>7. /\ r \in CallRecord /\ r.phase = "dialing" /\ r.view = v /\ r.tried = s /\ r.next = 1
        /\ r.told = {} /\ r.under = {} /\ r.exit = -1
    BY <2>2, <2>5, <2>6, IdleStands DEF CallRecord, Phase
  <2>8. F!Becomes(c, r)
    BY <2>1
  <2>9. \A h \in Servers : verdict[c][h] # "ran"
    BY <1>1 DEF Facts, Stands, F!In
  <2> HIDE DEF r
  <2>10. r.next \in 1 .. Len(r.tried)
    BY <2>3, <2>5, <2>7
  <2>11. Stands(r, verdict[c])
    BY <2>7, <2>9, <2>10 DEF Stands, Unsaid
  <2> QED BY <1>1, <2>7, <2>8, <2>11, CallMoves
<1> QED BY <1>2, <1>3

LEMMA FailoverStartsInv ==
  ASSUME F!FailoverAssumption, FailoverInv, NEW c \in Calling,
         F!Start(c) \/ F!NotDialed(c) \/ \E v \in Policies : F!Resolve(c, v)
  PROVE  FailoverInv'
<1>1. Facts(c) /\ stored \in Policies
  BY OfOne DEF FailoverInv, SharedOK
<1>2. CASE F!Start(c)
  BY <1>1, <1>2, DialsInv DEF F!Start
<1>3. CASE F!NotDialed(c)
  <2>1. SharedOK'
    BY <1>1, <1>3 DEF F!NotDialed, F!shared, Facts, SharedOK
  <2> QED BY <1>1, <1>3, <2>1, EndsStands, CallMoves DEF F!NotDialed
<1>4. ASSUME NEW v \in Policies, F!Resolve(c, v) PROVE FailoverInv'
  <2>1. SharedOK' /\ UNCHANGED F!shared /\ F!In(c, "idle")
    BY <1>1, <1>4 DEF F!Resolve, F!shared, Facts, SharedOK
  <2>2. CASE v < F!Newest(stored, seen)
    BY <1>1, <1>4, <2>1, <2>2, EndsStands, CallMoves DEF F!Resolve
  <2>3. CASE ~ (v < F!Newest(stored, seen))
    BY <1>1, <1>4, <2>1, <2>3, DialsInv DEF F!Resolve
  <2> QED BY <2>2, <2>3
<1> QED BY <1>2, <1>3, <1>4

LEMMA UnreachableInv ==
  ASSUME FailoverInv, NEW c \in Calling, F!Unreachable(c)
  PROVE  FailoverInv'
<1>1. Facts(c)
  BY OfOne
<1>2. SharedOK'
  BY <1>1 DEF F!Unreachable, F!shared, Facts, SharedOK
<1>3. /\ trying[c].phase = "dialing" /\ verdict[c] \in Verdicts
      /\ \A h \in Servers : verdict[c][h] = "ran" => h \in trying[c].told
      /\ \A h \in trying[c].told : verdict[c][h] = "denied"
  BY <1>1 DEF F!Unreachable, F!In, Facts, Stands, Unsaid
<1>4. F!Fails(c, FALSE) \in CallRecord /\ Stands(F!Fails(c, FALSE), verdict[c])
  BY <1>1, <1>3, FailsStands
<1> QED BY <1>2, <1>4, CallMoves DEF F!Unreachable

LEMMA SpeakInv ==
  ASSUME F!FailoverAssumption, FailoverInv, NEW c \in Calling, F!Speak(c)
  PROVE  FailoverInv'
<1>1. Facts(c) /\ F!In(c, "dialing")
  BY OfOne DEF F!Speak
<1>2. SharedOK'
  BY <1>1 DEF F!Speak, F!shared, Facts, SharedOK
<1>3. CASE F!Host(c) \in Serving[trying[c].view] /\ word
  <2> DEFINE r == [F!Tells(c, trying[c].view) EXCEPT !.phase = "proof", !.atOnce = TRUE]
  <2>1. trying[c].view \in Policies /\ Unsaid(trying[c])
    BY <1>1 DEF Facts, Stands, F!In, Unsaid
  <2>2. r \in CallRecord /\ Stands(r, verdict[c])
    BY <1>1, <1>3, <2>1, TellsStands DEF Phase
  <2>3. F!Becomes(c, r)
    <3>1. (F!Host(c) \in Serving[trying[c].view] /\ word) = TRUE
      BY <1>3
    <3> QED BY <3>1 DEF F!Speak
  <2> HIDE DEF r
  <2> QED BY <1>2, <2>2, <2>3, CallMoves
<1>4. CASE ~ (F!Host(c) \in Serving[trying[c].view] /\ word)
  <2> DEFINE r == [trying[c] EXCEPT !.phase = "proof", !.atOnce = FALSE]
  <2>1. trying[c] \in CallRecord /\ Stands(trying[c], verdict[c]) /\ trying[c].phase = "dialing"
    BY <1>1 DEF Facts, F!In
  <2>2. /\ r \in CallRecord /\ r.phase = "proof" /\ ~ r.atOnce /\ r.told = trying[c].told
        /\ r.under = trying[c].under /\ r.tried = trying[c].tried /\ r.next = trying[c].next
        /\ r.view = trying[c].view /\ r.exit = trying[c].exit
    BY <2>1 DEF CallRecord, Phase
  <2>3. F!Becomes(c, r)
    <3>1. (F!Host(c) \in Serving[trying[c].view] /\ word) = FALSE
      BY <1>4
    <3> QED BY <3>1 DEF F!Speak
  <2> HIDE DEF r
  <2>4. Stands(r, verdict[c])
    BY <2>1, <2>2 DEF Stands, Unsaid, Dialed
  <2> QED BY <1>2, <2>2, <2>3, <2>4, CallMoves
<1> QED BY <1>3, <1>4

\* A refusal before the proof is a decision not to run it: the next may be told.
LEMMA RefusedFirstInv ==
  ASSUME FailoverInv, NEW c \in Calling, F!RefusedFirst(c)
  PROVE  FailoverInv'
<1>1. Facts(c) /\ trying[c].phase = "proof" /\ F!Host(c) \in Servers /\ F!Host(c) = Dialed(trying[c])
  BY OfOne DEF F!RefusedFirst, F!In, Facts, F!Host, Dialed
<1>2. SharedOK'
  BY <1>1 DEF F!RefusedFirst, F!shared, Facts, SharedOK
<1> DEFINE w == [verdict[c] EXCEPT ![F!Host(c)] = "denied"]
<1>3. w \in Verdicts /\ verdict' = [verdict EXCEPT ![c] = w]
  BY <1>1 DEF Facts, Verdicts, F!RefusedFirst
<1>4. \A h \in Servers : w[h] = IF h = F!Host(c) THEN "denied" ELSE verdict[c][h]
  BY <1>1 DEF Facts, Verdicts
<1>5. /\ \A h \in Servers : w[h] = "ran" => h \in trying[c].told
      /\ \A h \in trying[c].told : w[h] = "denied"
  <2>1. trying[c].told \subseteq Servers /\ Stands(trying[c], verdict[c])
    BY <1>1 DEF Facts, CallRecord
  <2> HIDE DEF w
  <2> QED BY <1>1, <1>4, <2>1 DEF Stands
<1> HIDE DEF w
<1>6. F!Fails(c, FALSE) \in CallRecord /\ Stands(F!Fails(c, FALSE), w)
  BY <1>1, <1>3, <1>5, FailsStands
<1> QED BY <1>2, <1>3, <1>6, OneMoves DEF F!RefusedFirst

\* What lets a call whose host has not been told go to the next one.
LEMMA Unsaids ==
  ASSUME NEW c \in Calling, Facts(c), F!In(c, "proof"), ~ trying[c].atOnce, NEW lapsed \in BOOLEAN
  PROVE  /\ Unsaid(trying[c])
         /\ F!Fails(c, lapsed) \in CallRecord /\ Stands(F!Fails(c, lapsed), verdict[c])
<1>1. Unsaid(trying[c]) /\ trying[c].phase = "proof"
  BY DEF Unsaid, F!In
<1>2. /\ verdict[c] \in Verdicts
      /\ \A h \in Servers : verdict[c][h] = "ran" => h \in trying[c].told
      /\ \A h \in trying[c].told : verdict[c][h] = "denied"
  BY <1>1 DEF Facts, Stands
<1> QED BY <1>1, <1>2, FailsStands

\* Once told, a host that proves nothing ends the call: it may have run it.
LEMMA UnprovenInv ==
  ASSUME FailoverInv, NEW c \in Calling, NEW lapsed \in BOOLEAN, F!Unproven(c, lapsed)
  PROVE  FailoverInv'
<1>1. Facts(c) /\ F!In(c, "proof")
  BY OfOne DEF F!Unproven
<1>2. SharedOK'
  BY <1>1 DEF F!Unproven, F!shared, Facts, SharedOK
<1>3. CASE trying[c].atOnce
  BY <1>1, <1>2, <1>3, EndsStands, CallMoves DEF F!Unproven
<1>4. CASE ~ trying[c].atOnce
  BY <1>1, <1>2, <1>4, Unsaids, CallMoves DEF F!Unproven
<1> QED BY <1>3, <1>4

LEMMA FailoverProofSameInv ==
  ASSUME F!FailoverAssumption, FailoverInv, NEW c \in Calling, F!ProofSame(c)
  PROVE  FailoverInv'
<1>1. Facts(c) /\ F!In(c, "proof") /\ trying[c].atOnce \in BOOLEAN
  BY OfOne DEF F!ProofSame, Facts, CallRecord
<1>2. SharedOK'
  BY <1>1 DEF F!ProofSame, Facts, SharedOK
<1>3. CASE trying[c].atOnce
  BY <1>1, <1>2, <1>3, AckStands, CallMoves DEF F!ProofSame
<1>4. CASE ~ trying[c].atOnce /\ F!Serves(F!Host(c), trying[c].view)
  <2> DEFINE r == [F!Tells(c, trying[c].view) EXCEPT !.phase = "ack"]
             q == [F!Tells(c, trying[c].view) EXCEPT !.phase = "ack", !.atOnce = trying[c].atOnce]
  <2>1. trying[c].view \in Policies /\ Unsaid(trying[c])
    BY <1>1, <1>4, Unsaids DEF Facts, Stands, F!In
  <2>2. q \in CallRecord /\ Stands(q, verdict[c])
    BY <1>1, <1>4, <2>1, TellsStands DEF Phase, F!Serves
  <2>3. r = q
    BY <1>1 DEF F!Tells, Facts, CallRecord
  <2>4. F!Becomes(c, r)
    BY <1>4 DEF F!ProofSame
  <2> HIDE DEF r, q
  <2> QED BY <1>2, <2>2, <2>3, <2>4, CallMoves
<1>5. CASE ~ trying[c].atOnce /\ ~ F!Serves(F!Host(c), trying[c].view)
  BY <1>1, <1>2, <1>5, Unsaids, CallMoves DEF F!ProofSame
<1> QED BY <1>3, <1>4, <1>5

LEMMA ProofNewerAfterInv ==
  ASSUME FailoverInv, NEW c \in Calling, NEW v \in Policies, F!ProofNewerAfter(c, v)
  PROVE  FailoverInv'
<1>1. Facts(c) /\ F!In(c, "proof") /\ trying[c].atOnce
  BY OfOne DEF F!ProofNewerAfter
<1>2. SharedOK'
  BY <1>1, NewestIsVersion DEF F!ProofNewerAfter, Facts, SharedOK
<1> QED BY <1>1, <1>2, AckStands, CallMoves DEF F!ProofNewerAfter

LEMMA NotRefreshedInv ==
  ASSUME FailoverInv, NEW c \in Calling, NEW v \in Policies, F!NotRefreshed(c, v)
  PROVE  FailoverInv'
<1>1. Facts(c) /\ F!In(c, "proof") /\ ~ trying[c].atOnce
  BY OfOne DEF F!NotRefreshed
<1>2. SharedOK'
  BY <1>1, NewestIsVersion DEF F!NotRefreshed, Facts, SharedOK
<1> QED BY <1>1, <1>2, Unsaids, CallMoves DEF F!NotRefreshed

\* A refreshed view tells the host only if the view it got is that host's, and
\* lists it.
LEMMA FailoverProofNewerInv ==
  ASSUME F!FailoverAssumption, FailoverInv, NEW c \in Calling, NEW v \in Policies, NEW u \in Policies,
         F!ProofNewer(c, v, u)
  PROVE  FailoverInv'
<1>1. Facts(c) /\ F!In(c, "proof") /\ ~ trying[c].atOnce /\ trying[c].atOnce \in BOOLEAN
  BY OfOne DEF F!ProofNewer, Facts, CallRecord
<1>2. SharedOK'
  BY <1>1, NewestIsVersion DEF F!ProofNewer, Facts, SharedOK
<1>3. CASE u = v /\ F!Serves(F!Host(c), u)
  <2> DEFINE r == [F!Tells(c, u) EXCEPT !.phase = "ack"]
             q == [F!Tells(c, u) EXCEPT !.phase = "ack", !.atOnce = trying[c].atOnce]
  <2>1. q \in CallRecord /\ Stands(q, verdict[c])
    BY <1>1, <1>3, Unsaids, TellsStands DEF Phase, F!Serves
  <2>2. r = q
    BY <1>1 DEF F!Tells, Facts, CallRecord
  <2>3. F!Becomes(c, r)
    BY <1>3 DEF F!ProofNewer
  <2> HIDE DEF r, q
  <2> QED BY <1>2, <2>1, <2>2, <2>3, CallMoves
<1>4. CASE ~ (u = v /\ F!Serves(F!Host(c), u))
  <2> DEFINE r == [F!Fails(c, FALSE) EXCEPT !.view = u]
  <2>1. F!Fails(c, FALSE) \in CallRecord /\ Stands(F!Fails(c, FALSE), verdict[c]) /\ u \in Nat
    BY <1>1, Unsaids DEF F!FailoverAssumption
  <2>2. /\ r \in CallRecord /\ r.phase = F!Fails(c, FALSE).phase
        /\ r.tried = F!Fails(c, FALSE).tried /\ r.next = F!Fails(c, FALSE).next
        /\ r.told = F!Fails(c, FALSE).told /\ r.under = F!Fails(c, FALSE).under
        /\ r.exit = F!Fails(c, FALSE).exit /\ r.atOnce = F!Fails(c, FALSE).atOnce /\ r.view = u
    BY <2>1 DEF CallRecord
  <2>3. F!Becomes(c, r)
    BY <1>4 DEF F!ProofNewer
  <2> HIDE DEF r
  <2>4. Stands(r, verdict[c])
    BY <1>1, <2>1, <2>2, ViewAside
  <2> QED BY <1>2, <2>2, <2>3, <2>4, CallMoves
<1> QED BY <1>3, <1>4

\* Only a host that was told decides, and once: any other it told has refused.
LEMMA DecidesInv ==
  ASSUME FailoverInv, NEW c \in Calling, NEW h \in Servers, NEW what \in {"ran", "denied"},
         F!Decides(c, h, what)
  PROVE  FailoverInv'
<1>1. Facts(c)
  BY OfOne
<1>2. SharedOK'
  BY <1>1 DEF F!Decides, F!shared, Facts, SharedOK
<1> DEFINE w == [verdict[c] EXCEPT ![h] = what]
<1>3. w \in Verdicts /\ verdict' = [verdict EXCEPT ![c] = w]
  BY <1>1 DEF Facts, Verdicts, F!Decides
<1>4. \A g \in Servers : w[g] = IF g = h THEN what ELSE verdict[c][g]
  BY <1>1 DEF Facts, Verdicts
<1>5. /\ trying[c] \in CallRecord /\ Stands(trying[c], verdict[c])
      /\ trying[c].told \subseteq Servers /\ h \in trying[c].told /\ verdict[c][h] = "none"
      /\ trying' = [trying EXCEPT ![c] = trying[c]]
  BY <1>1 DEF Facts, F!Decides, CallRecord
<1>6. h = Dialed(trying[c]) /\ ~ Unsaid(trying[c])
  BY <1>5 DEF Stands
<1>7. Stands(trying[c], w)
  <2> HIDE DEF w
  <2> QED BY <1>4, <1>5, <1>6 DEF Stands
<1> HIDE DEF w
<1> QED BY <1>2, <1>3, <1>5, <1>7, OneMoves

LEMMA DeniedInv ==
  ASSUME FailoverInv, NEW c \in Calling, F!Denied(c)
  PROVE  FailoverInv'
<1>1. Facts(c) /\ trying[c].phase = "ack" /\ verdict[c][Dialed(trying[c])] = "denied"
  BY OfOne DEF F!Denied, F!In, F!Host, Dialed
<1>2. SharedOK'
  BY <1>1 DEF F!Denied, Facts, SharedOK
<1> DEFINE r == F!EndsAs(c, 77)
<1>3. trying[c] \in CallRecord /\ Stands(trying[c], verdict[c])
  BY <1>1 DEF Facts
<1>4. /\ r \in CallRecord /\ r.phase = "done" /\ r.exit = 77 /\ r.told = trying[c].told
      /\ r.under = trying[c].under /\ r.tried = trying[c].tried /\ r.next = trying[c].next
  BY <1>3 DEF F!EndsAs, CallRecord, Phase
<1> HIDE DEF r
<1>5. Stands(r, verdict[c])
  BY <1>1, <1>3, <1>4 DEF Stands, Unsaid, Dialed
<1> QED BY <1>2, <1>4, <1>5, CallMoves DEF F!Denied, r

LEMMA FailoverAckInv ==
  ASSUME F!FailoverAssumption, FailoverInv, NEW c \in Calling, NEW v \in Policies, F!Ack(c, v)
  PROVE  FailoverInv'
<1>1. Facts(c) /\ trying[c].phase = "ack" /\ verdict[c][Dialed(trying[c])] = "ran"
  BY OfOne DEF F!Ack, F!In, F!Host, Dialed
<1>2. SharedOK'
  BY <1>1 DEF F!Ack, F!shared, Facts, SharedOK
<1>3. CASE v > trying[c].view /\ F!Host(c) \notin Serving[v]
  BY <1>1, <1>2, <1>3, EndsStands, CallMoves DEF F!Ack, F!Becomes
<1>4. CASE ~ (v > trying[c].view /\ F!Host(c) \notin Serving[v])
  <2> DEFINE r == [trying[c] EXCEPT !.phase = "bridged", !.view = F!Newest(trying[c].view, v)]
  <2>1. trying[c] \in CallRecord /\ Stands(trying[c], verdict[c]) /\ trying[c].view \in Policies
    BY <1>1 DEF Facts, Stands
  <2>2. F!Newest(trying[c].view, v) \in Policies
    BY <2>1, NewestIsVersion
  <2>3. F!Newest(trying[c].view, v) \in Nat
    BY <2>2 DEF F!FailoverAssumption
  <2>4. /\ r \in CallRecord /\ r.phase = "bridged" /\ r.told = trying[c].told
        /\ r.under = trying[c].under /\ r.tried = trying[c].tried /\ r.next = trying[c].next
        /\ r.view = F!Newest(trying[c].view, v) /\ r.exit = trying[c].exit
    BY <2>1, <2>3 DEF CallRecord, Phase
  <2>5. F!Becomes(c, r)
    BY <1>4 DEF F!Ack, F!Becomes
  <2> HIDE DEF r
  <2>6. Stands(r, verdict[c])
    BY <1>1, <2>1, <2>2, <2>4 DEF Stands, Unsaid, Dialed
  <2> QED BY <1>2, <2>4, <2>5, <2>6, CallMoves
<1> QED BY <1>3, <1>4

LEMMA ClosedInv ==
  ASSUME FailoverInv, NEW c \in Calling, F!Closed(c)
  PROVE  FailoverInv'
<1>1. Facts(c)
  BY OfOne
<1>2. SharedOK'
  BY <1>1 DEF F!Closed, F!shared, Facts, SharedOK
<1> QED BY <1>1, <1>2, EndsStands, CallMoves DEF F!Closed

\* The command's exit code is of the host that runners it.
LEMMA ExitsInv ==
  ASSUME FailoverInv, NEW c \in Calling, NEW remote \in {0, 77}, F!Exits(c, remote)
  PROVE  FailoverInv'
<1>1. Facts(c) /\ trying[c].phase = "bridged"
  BY OfOne DEF F!Exits, F!In
<1>2. SharedOK'
  BY <1>1 DEF F!Exits, F!shared, Facts, SharedOK
<1> DEFINE r == [trying[c] EXCEPT !.phase = "record", !.exit = F!OwnExit(remote)]
<1>3. trying[c] \in CallRecord /\ Stands(trying[c], verdict[c]) /\ F!OwnExit(remote) \in {0, 1}
  BY <1>1 DEF Facts, F!OwnExit
<1>4. /\ r \in CallRecord /\ r.phase = "record" /\ r.exit \in {0, 1} /\ r.told = trying[c].told
      /\ r.under = trying[c].under /\ r.tried = trying[c].tried /\ r.next = trying[c].next
      /\ r.view = trying[c].view
  BY <1>3 DEF CallRecord, Phase
<1>5. F!Becomes(c, r)
  BY DEF F!Exits
<1> HIDE DEF r
<1>6. Stands(r, verdict[c])
  BY <1>1, <1>3, <1>4 DEF Stands, Unsaid, Dialed
<1> QED BY <1>2, <1>4, <1>5, <1>6, CallMoves

LEMMA RecordReadInv ==
  ASSUME FailoverInv, NEW c \in Calling, F!RecordRead(c)
  PROVE  FailoverInv'
<1>1. Facts(c) /\ trying[c].phase = "record" /\ unanswered \in [Servers -> -1 .. Ticks]
  BY OfOne DEF F!RecordRead, F!In, Facts, SharedOK
<1>2. SharedOK'
  BY <1>1 DEF F!RecordRead, F!shared, Facts, SharedOK
<1> DEFINE r == [trying[c] EXCEPT !.phase = "write", !.loaded = unanswered]
<1>3. trying[c] \in CallRecord /\ Stands(trying[c], verdict[c])
  BY <1>1 DEF Facts
<1>4. /\ r \in CallRecord /\ r.phase = "write" /\ r.exit = trying[c].exit /\ r.told = trying[c].told
      /\ r.under = trying[c].under /\ r.tried = trying[c].tried /\ r.next = trying[c].next
      /\ r.view = trying[c].view
  BY <1>1, <1>3 DEF CallRecord, Phase
<1>5. F!Becomes(c, r)
  BY DEF F!RecordRead
<1> HIDE DEF r
<1>6. Stands(r, verdict[c])
  BY <1>1, <1>3, <1>4 DEF Stands, Unsaid, Dialed
<1> QED BY <1>2, <1>4, <1>5, <1>6, CallMoves

LEMMA RecordWriteInv ==
  ASSUME F!FailoverAssumption, FailoverInv, NEW c \in Calling, NEW v \in Policies, F!RecordWrite(c, v)
  PROVE  FailoverInv'
<1>1. Facts(c) /\ trying[c].phase = "write"
  BY OfOne DEF F!RecordWrite, F!In
<1>2. trying[c] \in CallRecord /\ Stands(trying[c], verdict[c]) /\ trying[c].view \in Policies
  BY <1>1 DEF Facts, Stands
<1>3. F!Noted(trying[c]) \in [Servers -> -1 .. Ticks]
  <2>1. trying[c].at \in 0 .. Ticks /\ trying[c].loaded \in [Servers -> -1 .. Ticks]
        /\ Ticks \in Nat
    BY <1>2 DEF CallRecord, F!FailoverAssumption
  <2> QED BY <2>1 DEF F!Noted
<1>4. SharedOK'
  BY <1>1, <1>2, <1>3, NewestIsVersion DEF F!RecordWrite, Facts, SharedOK
<1> DEFINE r == [trying[c] EXCEPT !.phase = "done"]
<1>5. /\ r \in CallRecord /\ r.phase = "done" /\ r.exit = trying[c].exit /\ r.told = trying[c].told
      /\ r.under = trying[c].under /\ r.tried = trying[c].tried /\ r.next = trying[c].next
  BY <1>2 DEF CallRecord, Phase
<1>6. F!Becomes(c, r)
  BY DEF F!RecordWrite
<1> HIDE DEF r
<1>7. Stands(r, verdict[c])
  BY <1>1, <1>2, <1>5 DEF Stands, Unsaid, Dialed
<1> QED BY <1>4, <1>5, <1>6, <1>7, CallMoves

LEMMA TickInv ==
  ASSUME F!FailoverAssumption, FailoverInv, F!Tick
  PROVE  FailoverInv'
<1>1. SharedOK'
  <2>1. clock' \in 0 .. Ticks
    BY DEF F!Tick, FailoverInv, SharedOK, F!FailoverAssumption
  <2>2. word' \in BOOLEAN
    BY DEF F!Tick, FailoverInv, SharedOK
  <2> QED BY <2>1, <2>2 DEF F!Tick, FailoverInv, SharedOK
<1>2. ASSUME NEW c \in Calling PROVE Stands(trying[c], verdict[c])'
  <2>1. Stands(trying[c], verdict[c]) /\ trying' = trying /\ verdict' = verdict
    BY DEF F!Tick, FailoverInv
  <2> QED BY <2>1 DEF Stands, Unsaid, Dialed
<1> QED BY <1>1, <1>2 DEF F!Tick, FailoverInv

LEMMA FailoverStep == F!FailoverAssumption /\ FailoverInv /\ [F!Next]_(F!vars) => FailoverInv'
<1> SUFFICES ASSUME F!FailoverAssumption, FailoverInv, [F!Next]_(F!vars) PROVE FailoverInv'
  OBVIOUS
<1>1. CASE UNCHANGED F!vars
  BY <1>1 DEF F!vars, FailoverInv, SharedOK, Stands, Unsaid, Dialed
<1>2. CASE F!Tick
  BY <1>2, TickInv
<1>3. ASSUME NEW c \in Calling,
             \/ F!Start(c) \/ F!NotDialed(c) \/ F!Unreachable(c) \/ F!Speak(c) \/ F!RefusedFirst(c)
             \/ F!ProofSame(c) \/ F!Denied(c) \/ F!Closed(c) \/ F!RecordRead(c)
             \/ \E b \in BOOLEAN : F!Unproven(c, b)
             \/ \E h \in Servers, what \in {"ran", "denied"} : F!Decides(c, h, what)
             \/ \E x \in {0, 77} : F!Exits(c, x)
      PROVE  FailoverInv'
  BY <1>3, FailoverStartsInv, UnreachableInv, SpeakInv, RefusedFirstInv, FailoverProofSameInv, DeniedInv,
     ClosedInv, RecordReadInv, UnprovenInv, DecidesInv, ExitsInv
<1>4. ASSUME NEW c \in Calling, NEW v \in Policies,
             \/ F!Resolve(c, v) \/ F!ProofNewerAfter(c, v) \/ F!NotRefreshed(c, v)
             \/ F!Ack(c, v) \/ F!RecordWrite(c, v)
             \/ \E u \in Policies : F!ProofNewer(c, v, u)
      PROVE  FailoverInv'
  BY <1>4, FailoverStartsInv, ProofNewerAfterInv, NotRefreshedInv, FailoverAckInv, RecordWriteInv, FailoverProofNewerInv
<1> QED BY <1>1, <1>2, <1>3, <1>4 DEF F!Next

\* The invariant says that at most one host ran the call, and that its exit code is
\* of the host dialed last.
LEMMA FailoverInvIsOneHosts == FailoverInv => F!CallIsOneHosts
<1> SUFFICES ASSUME FailoverInv PROVE F!CallIsOneHosts
  OBVIOUS
<1>1. F!TypeOK
  BY DEF F!TypeOK, FailoverInv, SharedOK, CallRecord, Phase, Verdicts
<1>2. F!OneVerdict
  <2> SUFFICES ASSUME NEW c \in Calling
               PROVE  LET runners == {h \in Servers : verdict[c][h] = "ran"}
                      IN /\ Cardinality(runners) <= 1
                         /\ trying[c].exit = 0 => runners = {F!Host(c)}
                         /\ trying[c].exit = 77 => runners = {} /\ verdict[c][F!Host(c)] = "denied"
    BY SameSizes DEF F!OneVerdict
  <2> DEFINE runners == {h \in Servers : verdict[c][h] = "ran"}
  <2>1. trying[c] \in CallRecord /\ Stands(trying[c], verdict[c]) /\ F!Host(c) = Dialed(trying[c])
    BY DEF FailoverInv, F!Host, Dialed
  <2>2. \A h \in runners : h = F!Host(c)
    BY <2>1 DEF Stands, CallRecord
  <2>3. runners = {} \/ runners = {F!Host(c)}
    BY <2>2
  <2>4. Cardinality(runners) <= 1
    <3>1. Cardinality({}) = 0 /\ Cardinality({F!Host(c)}) = 1
      BY FS_EmptySet, FS_Singleton
    <3> QED BY <2>3, <3>1
  <2>5. trying[c].exit \in {0, 77} => F!Host(c) \in Servers
    <3>1. trying[c].tried \in Seq(Servers)
      BY <2>1 DEF CallRecord
    <3>2. trying[c].exit \in {0, 77} => trying[c].next \in 1 .. Len(trying[c].tried)
      BY <2>1 DEF Stands
    <3> QED BY <3>1, <3>2 DEF F!Host
  <2>6. trying[c].exit = 0 => runners = {F!Host(c)}
    BY <2>1, <2>3, <2>5 DEF Stands
  <2>7. trying[c].exit = 77 => runners = {} /\ verdict[c][F!Host(c)] = "denied"
    BY <2>1, <2>3, <2>5 DEF Stands
  <2> QED BY <2>4, <2>6, <2>7
<1>3. F!ToldWhileListed
  BY DEF F!ToldWhileListed, FailoverInv, Stands
<1> QED BY <1>1, <1>2, <1>3 DEF F!CallIsOneHosts

\* Every reachable state of the calls of a user (call.rs, pick.rs, transport.rs)
\* satisfies the inductive invariant.
THEOREM FailoverInvariance ==
  ASSUME F!FailoverAssumption
  PROVE  F!Spec => []FailoverInv
<1>1. F!Init => FailoverInv
  BY InitFailover
<1>2. FailoverInv /\ [F!Next]_(F!vars) => FailoverInv'
  BY FailoverStep
<1> QED BY <1>1, <1>2, PTL DEF F!Spec

\* However many hosts a call is tried on, whatever is refused, lost, or refreshed in
\* between, and whichever part of MCCalls moves: one host at most runs the call, its
\* exit code is that host's, 77 means that none did, and each was told it under a
\* version that lists it (call.rs, pick.rs: failover).
THEOREM CallsRunOnOneHost == MCSpec => []CallIsOneHosts
<1>1. MCInit => F!Init
  BY DEF MCInit
<1>2. [MCNext]_<<allVars, called, served, commanded, part>> => [F!Next]_(F!vars)
  <2> SUFFICES ASSUME [MCNext]_<<allVars, called, served, commanded, part>>
               PROVE F!Next \/ UNCHANGED called
    BY DEF called, F!vars
  <2> QED
    BY DEF MCNext
<1>3. F!Spec => []FailoverInv
  BY CallsAssumption, FailoverInvariance
<1> QED
  BY <1>1, <1>2, <1>3, FailoverInvIsOneHosts, PTL DEF F!Spec, MCSpec, CallIsOneHosts

-----------------------------------------------------------------------------
(* What a push's command is told, in the composition MCCalls. *)

\* A push queued under a call's token is for its caller.
Scoped(p) == cmd[p].route = W!Operator \/ cmd[p].to = MadeBy[cmd[p].route]

Cmds ==
  [phase : {"new", "asked", "done"}, route : Jobs \cup {W!Operator}, to : Peers \cup {Role},
   exit : {-1, 0, 1, 77}]

Conns ==
  [phase : {"none", "line", "queued", "sending", "answered"}, todo : SUBSET Peers,
   denied : SUBSET Peers, took : SUBSET Peers, err : BOOLEAN]

CommandTypes ==
  /\ serve \in [phase : {"down", "up", "stopping"}, count : 0 .. MaxServes, temp : Temps]
  /\ tokens \subseteq Jobs /\ admits \in Admissions /\ made \in [Jobs -> 0 .. MaxServes]
  /\ cmd \in [Pushers -> Cmds] /\ conn \in [Pushers -> Conns]
  /\ accepted \in [Pushers -> SUBSET Peers]

\* Where a command and its connection are, and what was queued for it.
CommandStands(p) ==
  /\ cmd[p].phase = "new" => conn[p].phase = "none" /\ accepted[p] = {} /\ cmd[p].exit = -1
  /\ conn[p].phase = "none" => ~conn[p].err /\ conn[p].took = {}
  /\ conn[p].phase \in {"line", "queued"} =>
       accepted[p] = {} /\ conn[p].took = {} /\ ~conn[p].err
  /\ conn[p].phase = "queued" => Scoped(p)
  /\ conn[p].phase = "sending" =>
       /\ ~conn[p].err /\ conn[p].took = accepted[p]
       /\ cmd[p].route # W!Operator => conn[p].todo \subseteq {MadeBy[cmd[p].route]}
  /\ conn[p].phase = "answered" => conn[p].err \/ conn[p].took = accepted[p]
  /\ cmd[p].exit = 0 => accepted[p] # {}
  /\ cmd[p].exit = 77 => conn[p].phase = "answered" /\ accepted[p] = {}
  /\ cmd[p].route # W!Operator => accepted[p] \subseteq {MadeBy[cmd[p].route]}

CommandsInv == CommandTypes /\ \A p \in Pushers : CommandStands(p)

MovedBut(p) ==
  \A q \in Pushers \ {p} :
    cmd'[q] = cmd[q] /\ conn'[q] = conn[q] /\ accepted'[q] = accepted[q]

LEMMA InitCommandsInv == W!Init => CommandsInv
<1> SUFFICES ASSUME W!Init PROVE CommandsInv
  OBVIOUS
<1>1. W!Down.temp \in Temps
  BY CallsAssumption DEF W!CommandsAssumption, W!Down
<1>2. CommandTypes
  BY <1>1, CallsAssumption
     DEF W!CommandsAssumption, W!Init, CommandTypes, Cmds, Conns, W!Down, W!NewCommand, W!NoConn
<1>3. \A p \in Pushers : CommandStands(p)
  BY DEF W!Init, CommandStands, W!NewCommand, W!NoConn
<1> QED
  BY <1>2, <1>3 DEF CommandsInv

\* What one command does leaves the others as they stand.
LEMMA OthersStand ==
  ASSUME CommandsInv, NEW p \in Pushers, MovedBut(p), CommandStands(p)'
  PROVE  \A q \in Pushers : CommandStands(q)'
<1> SUFFICES ASSUME NEW q \in Pushers \ {p} PROVE CommandStands(q)'
  OBVIOUS
<1>1. CommandStands(q) /\ cmd'[q] = cmd[q] /\ conn'[q] = conn[q] /\ accepted'[q] = accepted[q]
  BY DEF CommandsInv, MovedBut
<1> QED
  BY <1>1 DEF CommandStands, Scoped

LEMMA StartsInv == ASSUME CommandsInv, NEW t \in Temps, W!Starts(t) PROVE CommandsInv'
<1>1. /\ serve' = [phase |-> "up", count |-> serve.count + 1, temp |-> t]
      /\ serve.count \in Nat /\ serve.count + 1 \in 0 .. MaxServes
  BY CallsAssumption DEF W!CommandsAssumption, W!Starts, CommandsInv, CommandTypes
<1>2. CommandTypes'
  BY <1>1 DEF W!Starts, CommandsInv, CommandTypes
<1>3. \A q \in Pushers : CommandStands(q)'
  BY DEF W!Starts, CommandsInv, CommandStands, Scoped
<1> QED
  BY <1>2, <1>3 DEF CommandsInv

LEMMA AsksInv ==
  ASSUME CommandsInv, NEW p \in Pushers, NEW t \in Temps, NEW r \in Jobs \cup {W!Operator},
         W!Asks(p, r, t)
  PROVE  CommandsInv'
<1>1. PICK to \in Peers \cup {Role} :
        cmd' = [cmd EXCEPT ![p] = [phase |-> "asked", route |-> r, to |-> to, exit |-> -1]]
  BY DEF W!Asks
<1>2. /\ conn' = [conn EXCEPT ![p].phase = "line"] /\ cmd[p].phase = "new"
      /\ UNCHANGED <<serve, made, tokens, admits, accepted>>
  BY DEF W!Asks
<1>3. CommandTypes'
  <2>1. [phase |-> "asked", route |-> r, to |-> to, exit |-> -1] \in Cmds
    BY DEF Cmds
  <2>2. [conn[p] EXCEPT !.phase = "line"] \in Conns
    BY DEF CommandsInv, CommandTypes, Conns
  <2> QED
    BY <1>1, <1>2, <2>1, <2>2 DEF CommandsInv, CommandTypes
<1>4. /\ cmd'[p] = [phase |-> "asked", route |-> r, to |-> to, exit |-> -1]
      /\ conn'[p].phase = "line" /\ conn'[p].took = conn[p].took /\ conn'[p].err = conn[p].err
      /\ MovedBut(p) /\ accepted' = accepted
  BY <1>1, <1>2 DEF CommandsInv, CommandTypes, Conns, MovedBut
<1>5. CommandStands(p)'
  BY <1>2, <1>4 DEF CommandsInv, CommandStands, Scoped
<1> QED
  BY <1>3, <1>4, <1>5, OthersStand DEF CommandsInv

LEMMA PhaseTyped ==
  ASSUME NEW c \in Cmds
  PROVE  /\ [c EXCEPT !.phase = "done"] \in Cmds
         /\ [c EXCEPT !.phase = "done"].phase = "done"
         /\ [c EXCEPT !.phase = "done"].route = c.route
         /\ [c EXCEPT !.phase = "done"].to = c.to
<1> DEFINE d == [c EXCEPT !.phase = "done"]
<1>1. d.phase = "done"
  BY DEF Cmds
<1>2. d.route = c.route /\ d.to = c.to
  BY DEF Cmds
<1>3. d \in Cmds
  BY DEF Cmds
<1> QED
  BY <1>1, <1>2, <1>3

LEMMA ExitTyped ==
  ASSUME NEW c \in Cmds, NEW code \in {-1, 0, 1, 77}
  PROVE  /\ [c EXCEPT !.exit = code] \in Cmds
         /\ [c EXCEPT !.exit = code].exit = code
         /\ [c EXCEPT !.exit = code].phase = c.phase
         /\ [c EXCEPT !.exit = code].route = c.route
         /\ [c EXCEPT !.exit = code].to = c.to
<1> DEFINE d == [c EXCEPT !.exit = code]
<1>1. d.exit = code
  BY DEF Cmds
<1>2. d.phase = c.phase /\ d.route = c.route /\ d.to = c.to
  BY DEF Cmds
<1>3. d \in Cmds
  BY DEF Cmds
<1> QED
  BY <1>1, <1>2, <1>3

LEMMA ExitsKeeps ==
  ASSUME CommandsInv, NEW p \in Pushers, NEW code \in {-1, 0, 1, 77}, W!Exits(p, code)
  PROVE  /\ cmd' \in [Pushers -> Cmds]
         /\ cmd'[p].phase = "done" /\ cmd'[p].exit = code
         /\ cmd'[p].route = cmd[p].route /\ cmd'[p].to = cmd[p].to
         /\ \A q \in Pushers \ {p} : cmd'[q] = cmd[q]
<1>1. cmd \in [Pushers -> Cmds] /\ cmd[p] \in Cmds
  BY DEF CommandsInv, CommandTypes
<1> DEFINE half == [cmd EXCEPT ![p].phase = "done"]
           c == [cmd[p] EXCEPT !.phase = "done"]
           d == [c EXCEPT !.exit = code]
<1>2. c \in Cmds /\ c.phase = "done" /\ c.route = cmd[p].route /\ c.to = cmd[p].to
  BY <1>1, PhaseTyped
<1>3. half = [cmd EXCEPT ![p] = c]
  OBVIOUS
<1>4. cmd' = [half EXCEPT ![p].exit = code]
  BY DEF W!Exits
<1> HIDE DEF half, c
<1>5. half \in [Pushers -> Cmds] /\ half[p] = c /\ \A q \in Pushers \ {p} : half[q] = cmd[q]
  BY <1>1, <1>2, <1>3
<1>6. /\ d \in Cmds /\ d.phase = "done" /\ d.exit = code
      /\ d.route = cmd[p].route /\ d.to = cmd[p].to
  BY <1>2, ExitTyped
<1>7. cmd' = [half EXCEPT ![p] = d]
  BY <1>4, <1>5
<1> HIDE DEF d
<1> QED
  BY <1>5, <1>6, <1>7

\* A command that exits with 1 has heard nothing it could tell.
LEMMA UnheardInv ==
  ASSUME CommandsInv, NEW p \in Pushers, W!Unasked(p) \/ W!GivesUp(p) PROVE CommandsInv'
<1>1. /\ W!Exits(p, 1) /\ cmd[p].phase \in {"new", "asked"}
      /\ UNCHANGED <<serve, made, tokens, admits, conn, accepted>>
  BY DEF W!Unasked, W!GivesUp
<1>2. CommandTypes' /\ MovedBut(p)
  BY <1>1, ExitsKeeps DEF CommandsInv, CommandTypes, MovedBut
<1>3. CommandStands(p)'
  BY <1>1, ExitsKeeps DEF CommandsInv, CommandStands, Scoped
<1> QED
  BY <1>2, <1>3, OthersStand DEF CommandsInv

LEMMA HearInv == ASSUME CommandsInv, NEW p \in Pushers, W!Hear(p) PROVE CommandsInv'
<1>1. /\ W!Exits(p, W!Code(conn[p])) /\ cmd[p].phase = "asked" /\ conn[p].phase = "answered"
      /\ UNCHANGED <<serve, made, tokens, admits, conn, accepted>>
  BY DEF W!Hear
<1> DEFINE code == W!Code(conn[p])
<1>2. /\ code \in {-1, 0, 1, 77}
      /\ code = 0 => ~conn[p].err /\ conn[p].took # {}
      /\ code = 77 => ~conn[p].err /\ conn[p].took = {}
  BY DEF W!Code
<1> HIDE DEF code
<1>3. CommandTypes' /\ MovedBut(p)
  BY <1>1, <1>2, ExitsKeeps DEF CommandsInv, CommandTypes, MovedBut, code
<1>4. CommandStands(p)'
  BY <1>1, <1>2, ExitsKeeps DEF CommandsInv, CommandStands, Scoped, code
<1> QED
  BY <1>3, <1>4, OthersStand DEF CommandsInv

\* The host's end of one connection becomes another.
LEMMA ConnKeeps ==
  ASSUME CommandsInv, NEW p \in Pushers, NEW d \in Conns, conn' = [conn EXCEPT ![p] = d],
         UNCHANGED <<serve, made, tokens, admits, cmd>>,
         accepted' \in [Pushers -> SUBSET Peers],
         \A q \in Pushers \ {p} : accepted'[q] = accepted[q]
  PROVE  CommandTypes' /\ MovedBut(p) /\ conn'[p] = d
BY DEF CommandsInv, CommandTypes, MovedBut

LEMMA RefusedTyped ==
  /\ [W!Refusal EXCEPT !.phase = "answered"] \in Conns
  /\ [W!Refusal EXCEPT !.phase = "answered"].phase = "answered"
  /\ [W!Refusal EXCEPT !.phase = "answered"].err
<1>1. W!Refusal \in Conns /\ W!Refusal.err
  <2>1. W!NoConn \in Conns
    BY DEF W!NoConn, Conns
  <2> QED
    BY <2>1 DEF W!Refusal, Conns
<1> QED
  BY <1>1 DEF Conns

LEMMA DispatchInv == ASSUME CommandsInv, NEW p \in Pushers, W!Dispatch(p) PROVE CommandsInv'
<1>1. conn[p].phase = "line" /\ UNCHANGED <<serve, made, tokens, admits, cmd, accepted>>
  BY DEF W!Dispatch
<1>2. conn[p] \in Conns /\ conn \in [Pushers -> Conns] /\ accepted \in [Pushers -> SUBSET Peers]
  BY DEF CommandsInv, CommandTypes
<1>3. CASE W!Allowed(cmd[p]) /\ conn' = [conn EXCEPT ![p].phase = "queued"]
  <2> DEFINE d == [conn[p] EXCEPT !.phase = "queued"]
  <2>1. /\ d \in Conns /\ d.phase = "queued" /\ d.took = conn[p].took /\ d.err = conn[p].err
        /\ conn' = [conn EXCEPT ![p] = d]
    BY <1>2, <1>3 DEF Conns
  <2> HIDE DEF d
  <2>2. CommandTypes' /\ MovedBut(p) /\ conn'[p] = d
    BY <1>1, <1>2, <2>1, ConnKeeps
  <2>3. Scoped(p)
    BY <1>3 DEF W!Allowed, Scoped
  <2>4. CommandStands(p)'
    BY <1>1, <2>1, <2>2, <2>3 DEF CommandsInv, CommandStands, Scoped
  <2> QED
    BY <2>2, <2>4, OthersStand DEF CommandsInv
<1>4. CASE W!Answers(p, W!Refusal)
  <2> DEFINE d == [W!Refusal EXCEPT !.phase = "answered"]
  <2>1. d \in Conns /\ d.phase = "answered" /\ d.err /\ conn' = [conn EXCEPT ![p] = d]
    BY <1>4, RefusedTyped DEF W!Answers
  <2> HIDE DEF d
  <2>2. CommandTypes' /\ MovedBut(p) /\ conn'[p] = d
    BY <1>1, <1>2, <2>1, ConnKeeps
  <2>3. CommandStands(p)'
    BY <1>1, <2>1, <2>2 DEF CommandsInv, CommandStands, Scoped
  <2> QED
    BY <2>2, <2>3, OthersStand DEF CommandsInv
<1> QED
  BY <1>3, <1>4 DEF W!Dispatch

LEMMA TakeInv == ASSUME CommandsInv, NEW p \in Pushers, W!Take(p) PROVE CommandsInv'
<1> DEFINE to == W!Recipients(cmd[p].to)
<1>1. conn[p].phase = "queued" /\ UNCHANGED <<serve, made, tokens, admits, cmd, accepted>>
  BY DEF W!Take
<1>2. conn[p] \in Conns /\ conn \in [Pushers -> Conns] /\ accepted \in [Pushers -> SUBSET Peers]
  BY DEF CommandsInv, CommandTypes
<1>3. CASE W!Answers(p, W!Refusal)
  <2> DEFINE d == [W!Refusal EXCEPT !.phase = "answered"]
  <2>1. d \in Conns /\ d.phase = "answered" /\ d.err /\ conn' = [conn EXCEPT ![p] = d]
    BY <1>3, RefusedTyped DEF W!Answers
  <2> HIDE DEF d
  <2>2. CommandTypes' /\ MovedBut(p) /\ conn'[p] = d
    BY <1>1, <1>2, <2>1, ConnKeeps
  <2>3. CommandStands(p)'
    BY <1>1, <2>1, <2>2 DEF CommandsInv, CommandStands, Scoped
  <2> QED
    BY <2>2, <2>3, OthersStand DEF CommandsInv
<1>4. CASE conn' = [conn EXCEPT ![p].phase = "sending", ![p].todo = to]
  <2> DEFINE d == [conn[p] EXCEPT !.phase = "sending", !.todo = to]
  <2>1. cmd[p] \in Cmds /\ admits.role \in SUBSET Peers
    BY CallsAssumption DEF W!CommandsAssumption, CommandsInv, CommandTypes
  <2>2. to \in SUBSET Peers
    BY <2>1 DEF W!Recipients, Cmds
  <2>3. cmd[p].route # W!Operator => to \subseteq {MadeBy[cmd[p].route]}
    <3>1. cmd[p].route # W!Operator => cmd[p].to = MadeBy[cmd[p].route]
      BY <1>1 DEF CommandsInv, CommandStands, Scoped
    <3>2. cmd[p].route # W!Operator => MadeBy[cmd[p].route] # Role
      BY <2>1, CallsAssumption DEF W!CommandsAssumption, Cmds
    <3> QED
      BY <3>1, <3>2 DEF W!Recipients
  <2> HIDE DEF to
  <2>4. /\ d \in Conns /\ d.phase = "sending" /\ d.todo = to
        /\ d.took = conn[p].took /\ d.err = conn[p].err
    BY <1>2, <2>2 DEF Conns
  <2>5. conn' = [conn EXCEPT ![p] = d]
    BY <1>4
  <2> HIDE DEF d
  <2>6. CommandTypes' /\ MovedBut(p) /\ conn'[p] = d
    BY <1>1, <1>2, <2>4, <2>5, ConnKeeps
  <2>7. CommandStands(p)'
    BY <1>1, <2>3, <2>4, <2>6 DEF CommandsInv, CommandStands, Scoped
  <2> QED
    BY <2>6, <2>7, OthersStand DEF CommandsInv
<1> QED
  BY <1>3, <1>4 DEF W!Take

LEMMA SendInv ==
  ASSUME CommandsInv, NEW p \in Pushers, NEW n \in Peers, W!Send(p, n) PROVE CommandsInv'
<1>1. /\ conn[p].phase = "sending" /\ n \in conn[p].todo
      /\ UNCHANGED <<serve, made, tokens, admits, cmd>>
  BY DEF W!Send
<1>2. conn[p] \in Conns /\ conn \in [Pushers -> Conns] /\ accepted \in [Pushers -> SUBSET Peers]
  BY DEF CommandsInv, CommandTypes
<1>3. CASE /\ accepted' = [accepted EXCEPT ![p] = @ \cup {n}]
           /\ conn' = [conn EXCEPT ![p].todo = @ \ {n}, ![p].took = @ \cup {n}]
  <2> DEFINE d == [conn[p] EXCEPT !.todo = @ \ {n}, !.took = @ \cup {n}]
  <2>1. d.phase = "sending" /\ d.todo = conn[p].todo \ {n}
    BY <1>1, <1>2 DEF Conns
  <2>2. d.took = conn[p].took \cup {n} /\ d.err = conn[p].err
    BY <1>2 DEF Conns
  <2>3. d \in Conns
    BY <1>2 DEF Conns
  <2>4. conn' = [conn EXCEPT ![p] = d]
    BY <1>3
  <2> HIDE DEF d
  <2>5. /\ accepted' \in [Pushers -> SUBSET Peers] /\ accepted'[p] = accepted[p] \cup {n}
        /\ \A q \in Pushers \ {p} : accepted'[q] = accepted[q]
    BY <1>2, <1>3
  <2>6. CommandTypes' /\ MovedBut(p) /\ conn'[p] = d
    BY <1>1, <2>3, <2>4, <2>5, ConnKeeps
  <2>7. CommandStands(p) /\ cmd'[p] = cmd[p]
    BY <1>1 DEF CommandsInv
  <2>8. CommandStands(p)'
    BY <1>1, <2>1, <2>2, <2>5, <2>6, <2>7 DEF CommandStands, Scoped
  <2> QED
    BY <2>6, <2>8, OthersStand DEF CommandsInv
<1>4. CASE conn' = [conn EXCEPT ![p].todo = @ \ {n}, ![p].denied = @ \cup {n}]
           /\ UNCHANGED accepted
  <2> DEFINE d == [conn[p] EXCEPT !.todo = @ \ {n}, !.denied = @ \cup {n}]
  <2>1. d.phase = "sending" /\ d.todo = conn[p].todo \ {n}
    BY <1>1, <1>2 DEF Conns
  <2>2. d.took = conn[p].took /\ d.err = conn[p].err
    BY <1>2 DEF Conns
  <2>3. d \in Conns
    BY <1>2 DEF Conns
  <2>4. conn' = [conn EXCEPT ![p] = d]
    BY <1>4
  <2> HIDE DEF d
  <2>5. CommandTypes' /\ MovedBut(p) /\ conn'[p] = d
    BY <1>1, <1>2, <1>4, <2>3, <2>4, ConnKeeps
  <2>6. CommandStands(p) /\ cmd'[p] = cmd[p]
    BY <1>1 DEF CommandsInv
  <2>7. CommandStands(p)'
    BY <1>1, <1>4, <2>1, <2>2, <2>5, <2>6 DEF CommandStands, Scoped
  <2> QED
    BY <2>5, <2>7, OthersStand DEF CommandsInv
<1> QED
  BY <1>3, <1>4 DEF W!Send

LEMMA ReportInv == ASSUME CommandsInv, NEW p \in Pushers, W!Report(p) PROVE CommandsInv'
<1> DEFINE d == [conn[p] EXCEPT !.phase = "answered"]
<1>1. /\ conn[p].phase = "sending" /\ conn' = [conn EXCEPT ![p] = d]
      /\ UNCHANGED <<serve, made, tokens, admits, cmd, accepted>>
  BY DEF W!Report, W!Answers
<1>2. conn[p] \in Conns /\ conn \in [Pushers -> Conns] /\ accepted \in [Pushers -> SUBSET Peers]
  BY DEF CommandsInv, CommandTypes
<1>3. d \in Conns /\ d.phase = "answered" /\ d.took = conn[p].took /\ d.err = conn[p].err
  BY <1>2 DEF Conns
<1> HIDE DEF d
<1>4. CommandTypes' /\ MovedBut(p) /\ conn'[p] = d
  BY <1>1, <1>2, <1>3, ConnKeeps
<1>5. CommandStands(p)'
  BY <1>1, <1>3, <1>4 DEF CommandsInv, CommandStands, Scoped
<1> QED
  BY <1>4, <1>5, OthersStand DEF CommandsInv

\* The host's calls, their tokens and its policy are no command's.
LEMMA HostMovesInv ==
  ASSUME CommandsInv,
         \/ \E c \in Jobs : W!Mints(c) \/ W!Prunes(c)
         \/ \E to \in Admissions : W!PolicyMoves(to)
  PROVE  CommandsInv'
<1>1. UNCHANGED <<serve, cmd, conn, accepted>>
  BY DEF W!Mints, W!Prunes, W!PolicyMoves
<1>2. tokens' \subseteq Jobs /\ admits' \in Admissions
  BY DEF W!Mints, W!Prunes, W!PolicyMoves, CommandsInv, CommandTypes
<1>3. made' \in [Jobs -> 0 .. MaxServes]
  BY DEF W!Mints, W!Prunes, W!PolicyMoves, CommandsInv, CommandTypes
<1>4. CommandTypes'
  BY <1>1, <1>2, <1>3 DEF CommandsInv, CommandTypes
<1>5. \A q \in Pushers : CommandStands(q)'
  BY <1>1 DEF CommandsInv, CommandStands, Scoped
<1> QED
  BY <1>4, <1>5 DEF CommandsInv

LEMMA StopsInv == ASSUME CommandsInv, W!Stops PROVE CommandsInv'
<1> DEFINE e == [W!Refusal EXCEPT !.phase = "answered"]
<1>1. /\ serve' = [serve EXCEPT !.phase = "stopping"]
      /\ conn' = [p \in Pushers |-> IF conn[p].phase = "queued" THEN e ELSE conn[p]]
      /\ UNCHANGED <<made, tokens, admits, cmd, accepted>>
  BY DEF W!Stops
<1>2. e \in Conns /\ e.phase = "answered" /\ e.err
  BY RefusedTyped
<1> HIDE DEF e
<1>3. serve' \in [phase : {"down", "up", "stopping"}, count : 0 .. MaxServes, temp : Temps]
  BY <1>1 DEF CommandsInv, CommandTypes
<1>4. CommandTypes'
  BY <1>1, <1>2, <1>3 DEF CommandsInv, CommandTypes
<1>5. ASSUME NEW q \in Pushers PROVE CommandStands(q)'
  <2>1. CommandStands(q) /\ conn'[q] = (IF conn[q].phase = "queued" THEN e ELSE conn[q])
    BY <1>1 DEF CommandsInv
  <2> QED
    BY <1>1, <1>2, <2>1 DEF CommandStands, Scoped
<1> QED
  BY <1>4, <1>5 DEF CommandsInv

LEMMA DiesInv == ASSUME CommandsInv, W!Dies PROVE CommandsInv'
<1>1. /\ serve' = [serve EXCEPT !.phase = "down"] /\ tokens' = {}
      /\ conn' = [p \in Pushers |-> IF conn[p].phase = "answered" THEN conn[p] ELSE W!NoConn]
      /\ UNCHANGED <<made, admits, cmd, accepted>>
  BY DEF W!Dies
<1>2. W!NoConn \in Conns /\ W!NoConn.phase = "none" /\ ~W!NoConn.err /\ W!NoConn.took = {}
  BY DEF W!NoConn, Conns
<1>3. serve' \in [phase : {"down", "up", "stopping"}, count : 0 .. MaxServes, temp : Temps]
  BY <1>1 DEF CommandsInv, CommandTypes
<1>4. CommandTypes'
  BY <1>1, <1>2, <1>3 DEF CommandsInv, CommandTypes
<1>5. ASSUME NEW q \in Pushers PROVE CommandStands(q)'
  <2>1. /\ CommandStands(q)
        /\ conn'[q] = (IF conn[q].phase = "answered" THEN conn[q] ELSE W!NoConn)
    BY <1>1 DEF CommandsInv
  <2> QED
    BY <1>1, <1>2, <2>1 DEF CommandStands, Scoped
<1> QED
  BY <1>4, <1>5 DEF CommandsInv

LEMMA CommandsStepInv == CommandsInv /\ [W!Next]_(W!vars) => CommandsInv'
<1> SUFFICES ASSUME CommandsInv, [W!Next]_(W!vars) PROVE CommandsInv'
  OBVIOUS
<1>1. CASE UNCHANGED W!vars
  BY <1>1 DEF W!vars, CommandsInv, CommandTypes, CommandStands, Scoped
<1>2. ASSUME NEW p \in Pushers, NEW t \in Temps, NEW r \in Jobs \cup {W!Operator}, W!Asks(p, r, t)
      PROVE  CommandsInv'
  BY <1>2, AsksInv
<1>3. ASSUME NEW p \in Pushers,
             \/ W!Unasked(p) \/ W!Dispatch(p) \/ W!Take(p) \/ W!Report(p) \/ W!Hear(p)
             \/ W!GivesUp(p) \/ \E n \in Peers : W!Send(p, n)
      PROVE  CommandsInv'
  BY <1>3, UnheardInv, DispatchInv, TakeInv, ReportInv, HearInv, SendInv
<1> QED
  BY <1>1, <1>2, <1>3, StartsInv, HostMovesInv, StopsInv, DiesInv DEF W!Next

LEMMA CommandsInvTells == CommandsInv => W!CommandsAreTrue
<1> SUFFICES ASSUME CommandsInv PROVE W!CommandsAreTrue
  OBVIOUS
<1>1. W!TypeOK
  BY DEF CommandsInv, CommandTypes, Cmds, Conns, W!TypeOK
<1>2. W!ExitsAreTrue /\ W!ScopedToTheCaller
  BY DEF CommandsInv, CommandStands, W!ExitsAreTrue, W!ScopedToTheCaller
<1> QED
  BY <1>1, <1>2 DEF W!CommandsAreTrue

-----------------------------------------------------------------------------
(* What an MCP client is told, in the composition MCCalls. *)

\* The lines that were not read yet are the last of those that were written,
\* and a call is run for the one read last.
LinesAreRead ==
  /\ written \in Seq(Lines) /\ unread \in Seq(Lines) /\ Len(unread) <= Len(written)
  /\ \A i \in 1..Len(unread) : unread[i] = written[T!Handled + i]
  /\ calling # None =>
       /\ calling \in T!Callings /\ calling.id = T!Handled
       /\ T!Handled \in 1..Len(written) /\ written[T!Handled].is = "call"

\* A view on its way to the server is marked as new, where it is.
ViewsFlow ==
  /\ granted \in Views /\ services \in Views \cup {<<>>}
  /\ views \in [value : Views \cup {<<>>}, new : BOOLEAN]
  /\ tools \in [value : Views \cup {<<>>}, new : BOOLEAN]
  /\ ~views.new => tools.value = views.value
  /\ ~views.new /\ ~tools.new => services = views.value

\* The last list the client has, with no note of a change since.
IsLatestList(i) ==
  /\ out[i].id # T!NoteId /\ out[i].says = "list"
  /\ \A j \in (i + 1)..Len(out) : out[j].id # T!NoteId

ListsAreCurrent == \A i \in 1..Len(out) : IsLatestList(i) => out[i].tools = T!ToolsList

OutIsASequence == \E S : out \in Seq(S)

ToolsInv ==
  LinesAreRead /\ ViewsFlow /\ OutIsASequence /\ ListsAreCurrent /\ T!OneReplyEach

LEMMA AppendAnything ==
  ASSUME NEW S, NEW s \in Seq(S), NEW x
  PROVE  /\ Append(s, x) \in Seq(S \cup {x}) /\ Len(Append(s, x)) = Len(s) + 1
         /\ \A i \in 1..Len(s) : Append(s, x)[i] = s[i]
         /\ Append(s, x)[Len(s) + 1] = x
<1>1. s \in Seq(S \cup {x})
  OBVIOUS
<1> QED
  BY <1>1

\* What one more reply or note makes of the output.
LEMMA OutAppended ==
  ASSUME OutIsASequence, NEW r, out' = Append(out, r)
  PROVE  /\ OutIsASequence' /\ Len(out) \in Nat /\ Len(out') = Len(out) + 1
         /\ \A i \in 1..Len(out) : out'[i] = out[i]
         /\ out'[Len(out) + 1] = r
<1>1. PICK S : out \in Seq(S)
  BY DEF OutIsASequence
<1>2. /\ out' \in Seq(S \cup {r}) /\ Len(out') = Len(out) + 1
      /\ \A i \in 1..Len(out) : out'[i] = out[i]
      /\ out'[Len(out) + 1] = r
  BY <1>1, AppendAnything
<1>3. Len(out) \in Nat
  BY <1>1
<1>4. OutIsASequence'
  BY <1>2 DEF OutIsASequence
<1> QED
  BY <1>2, <1>3, <1>4

LEMMA InitToolsInv == T!Init => ToolsInv
<1> SUFFICES ASSUME T!Init PROVE ToolsInv
  OBVIOUS
<1>1. written = <<>> /\ unread = <<>> /\ out = <<>> /\ calling = None
  BY DEF T!Init
<1>2. LinesAreRead /\ OutIsASequence /\ ListsAreCurrent
  BY <1>1 DEF LinesAreRead, OutIsASequence, ListsAreCurrent
<1>3. ViewsFlow
  BY DEF T!Init, ViewsFlow
<1>4. T!OneReplyEach
  <2>1. T!Answered = {} /\ T!Replies = {}
    BY <1>1 DEF T!Answered, T!Handled, T!Replies
  <2> DEFINE at == [k \in {} |-> 0]
  <2>2. at \in [T!Answered -> T!Replies]
    BY <2>1
  <2> QED
    BY <2>1, <2>2 DEF T!OneReplyEach
<1> QED
  BY <1>2, <1>3, <1>4 DEF ToolsInv

-----------------------------------------------------------------------------
(* One reply to each request: what a step does to the lines answered. *)

\* No request was answered, and no reply was written.
LEMMA SameAnswers ==
  ASSUME OutIsASequence, T!OneReplyEach, out' = out \/ out' = Append(out, T!Note),
         (T!Answered)' = T!Answered, \A k \in T!Answered : T!AnsweredAs(k)' = T!AnsweredAs(k)
  PROVE  (T!OneReplyEach)'
<1>1. PICK at \in [T!Answered -> T!Replies] :
        /\ \A i \in T!Replies : \E k \in T!Answered : at[k] = i
        /\ \A k \in T!Answered : out[at[k]].id = T!AnsweredAs(k)
        /\ \A k, m \in T!Answered : k < m => at[k] < at[m]
  BY DEF T!OneReplyEach
<1>2. /\ (T!Replies)' = T!Replies
      /\ \A i \in T!Replies : out'[i] = out[i]
  <2>1. CASE out' = out
    BY <2>1 DEF T!Replies
  <2>2. CASE out' = Append(out, T!Note)
    <3>1. T!Note.id = T!NoteId
      BY DEF T!Note
    <3> QED
      BY <2>2, <3>1, OutAppended DEF T!Replies
  <2> QED
    BY <2>1, <2>2
<1>3. \A k \in T!Answered : out'[at[k]].id = T!AnsweredAs(k)'
  BY <1>1, <1>2
<1> QED
  BY <1>1, <1>2, <1>3 DEF T!OneReplyEach

\* The request k was answered, after all the others.
LEMMA OneMoreAnswer ==
  ASSUME OutIsASequence, T!OneReplyEach, NEW r, out' = Append(out, r), NEW k \in Nat,
         (T!Answered)' = T!Answered \cup {k}, \A m \in T!Answered : m \in Nat /\ m < k,
         \A m \in T!Answered : T!AnsweredAs(m)' = T!AnsweredAs(m),
         r.id # T!NoteId, r.id = T!AnsweredAs(k)'
  PROVE  (T!OneReplyEach)'
<1>1. PICK at \in [T!Answered -> T!Replies] :
        /\ \A i \in T!Replies : \E m \in T!Answered : at[m] = i
        /\ \A m \in T!Answered : out[at[m]].id = T!AnsweredAs(m)
        /\ \A m, n \in T!Answered : m < n => at[m] < at[n]
  BY DEF T!OneReplyEach
<1>2. PICK len \in Nat :
        /\ len = Len(out) /\ Len(out') = len + 1 /\ out'[len + 1] = r
        /\ \A i \in 1..len : out'[i] = out[i]
  BY OutAppended
<1> DEFINE to == [m \in T!Answered \cup {k} |-> IF m = k THEN len + 1 ELSE at[m]]
<1>3. (T!Replies)' = T!Replies \cup {len + 1} /\ \A i \in T!Replies : i \in 1..len
  BY <1>2 DEF T!Replies
<1>4. /\ k \notin T!Answered /\ to[k] = len + 1
      /\ \A m \in T!Answered : to[m] = at[m] /\ at[m] \in T!Replies
  BY <1>1
<1>5. to \in [(T!Answered)' -> (T!Replies)']
  BY <1>3, <1>4
<1> HIDE DEF to
<1>6. \A i \in (T!Replies)' : \E m \in (T!Answered)' : to[m] = i
  BY <1>1, <1>3, <1>4
<1>7. \A m \in (T!Answered)' : out'[to[m]].id = T!AnsweredAs(m)'
  BY <1>1, <1>2, <1>3, <1>4
<1>8. \A m, n \in (T!Answered)' : m < n => to[m] < to[n]
  BY <1>1, <1>3, <1>4
<1> QED
  BY <1>5, <1>6, <1>7, <1>8 DEF T!OneReplyEach

LEMMA FailsSays ==
  ASSUME NEW id, NEW code, NEW r, r = T!Fails(id, code)
  PROVE  r.id = id /\ r.says = code
BY DEF T!Fails, T!Reply

LEMMA ReplySays ==
  ASSUME NEW id, NEW says, NEW version, NEW r, r = T!Reply(id, says, version)
  PROVE  r.id = id /\ r.says = says
BY DEF T!Reply

LEMMA ToolErrorSays ==
  ASSUME NEW id, NEW version, NEW r, r = T!ToolError(id, version)
  PROVE  r.id = id /\ r.says = "tool"
BY DEF T!Reply, T!ToolError

LEMMA CallFailsSays ==
  ASSUME NEW line, NEW id, NEW version, NEW r, r = T!CallFails(line, id, version)
  PROVE  r.id = id /\ r.says # "list"
<1>1. CASE r = T!Reply(id, "search", version)
  BY <1>1, ReplySays
<1>2. CASE r = T!Fails(id, "invalid_params")
  BY <1>2, FailsSays
<1>3. CASE r = T!ToolError(id, version)
  BY <1>3, ToolErrorSays
<1> QED
  BY <1>1, <1>2, <1>3 DEF T!CallFails

LEMMA ServedSays ==
  ASSUME NEW line, NEW id, NEW version, NEW r, r = T!Served(line, id, version)
  PROVE  r.id = id /\ (r.says = "list" => r.tools = T!ToolsList)
<1>1. CASE r = T!Reply(id, "discover", IF version = None THEN "2026" ELSE version)
  BY <1>1, ReplySays
<1>2. CASE r = T!Reply(id, "ping", version)
  BY <1>2, ReplySays
<1>3. CASE r = [T!Reply(id, "list", version) EXCEPT !.tools = T!ToolsList]
  BY <1>3 DEF T!Reply
<1>4. CASE r = T!CallFails(line, id, version)
  BY <1>4, CallFailsSays
<1>5. CASE r = T!Fails(id, "method_not_found")
  BY <1>5, FailsSays
<1> QED
  BY <1>1, <1>2, <1>3, <1>4, <1>5 DEF T!Served

\* A line that is handled without a call gets what is due to it.
LEMMA AnswerSays ==
  ASSUME NEW line, NEW id, NEW r, r = T!Answer(line, id)
  PROVE  /\ r.id = IF line.is \in {"garbage", "not_an_object"} THEN 0 ELSE id
         /\ r.says = "list" => r.tools = T!ToolsList
<1>1. CASE line.is = "garbage" /\ r = T!Fails(0, "parse_error")
  BY <1>1, FailsSays
<1>2. CASE line.is = "not_an_object" /\ r = T!Fails(0, "invalid_request")
  BY <1>2, FailsSays
<1>3. CASE line.is = "no_method" /\ r = T!Fails(id, "invalid_request")
  BY <1>3, FailsSays
<1>4. CASE line.is = "initialize" /\ r = T!Reply(id, "initialize", T!Agreed(line.version))
  BY <1>4, ReplySays
<1>5. CASE line.is \notin {"garbage", "not_an_object"} /\ r = T!Served(line, id, T!VersionFor(line))
  BY <1>5, ServedSays
<1>6. CASE line.is \notin {"garbage", "not_an_object"} /\ r = T!Fails(id, "unsupported_version")
  BY <1>6, FailsSays
<1> QED
  BY <1>1, <1>2, <1>3, <1>4, <1>5, <1>6 DEF T!Answer, T!NullId

-----------------------------------------------------------------------------
(* The lines, as they are written and read. *)

LEMMA HandledIs ==
  ASSUME LinesAreRead
  PROVE  /\ Len(written) \in Nat /\ Len(unread) \in Nat /\ T!Handled \in Nat
         /\ T!Handled = Len(written) - Len(unread) /\ T!Handled <= Len(written)
BY DEF LinesAreRead, T!Handled

\* The next line is read.
LEMMA LineRead ==
  ASSUME LinesAreRead, unread # <<>>, unread' = Tail(unread), written' = written
  PROVE  /\ (T!Handled)' = T!Handled + 1 /\ T!Handled + 1 \in 1..Len(written)
         /\ Len(written) - Len(unread) + 1 = T!Handled + 1
         /\ Head(unread) = written[T!Handled + 1] /\ Head(unread) \in Lines
         /\ unread' \in Seq(Lines) /\ Len(unread') <= Len(written')
         /\ \A i \in 1..Len(unread') : unread'[i] = written'[(T!Handled)' + i]
<1>1. PICK w \in Nat, u \in Nat : w = Len(written) /\ u = Len(unread)
  BY HandledIs
<1>2. unread \in Seq(Lines) /\ u <= w /\ \A i \in 1..u : unread[i] = written[w - u + i]
  BY <1>1 DEF LinesAreRead, T!Handled
<1>3. /\ u > 0 /\ unread' \in Seq(Lines) /\ Len(unread') = u - 1
      /\ Head(unread) = unread[1] /\ Head(unread) \in Lines
      /\ \A i \in 1..(u - 1) : unread'[i] = unread[i + 1]
  BY <1>1, <1>2
<1>4. T!Handled = w - u /\ (T!Handled)' = w - u + 1
  BY <1>1, <1>3 DEF T!Handled
<1>5. \A i \in 1..(u - 1) : unread'[i] = written[(w - u + 1) + i]
  <2> SUFFICES ASSUME NEW i \in 1..(u - 1) PROVE unread'[i] = written[(w - u + 1) + i]
    OBVIOUS
  <2>1. i + 1 \in 1..u /\ w - u + (i + 1) = (w - u + 1) + i
    OBVIOUS
  <2> QED
    BY <1>2, <1>3, <2>1
<1>6. unread[1] = written[w - u + 1] /\ w - u + 1 \in 1..w
  BY <1>2, <1>3
<1> QED
  BY <1>1, <1>2, <1>3, <1>4, <1>5, <1>6

\* A line is written.
LEMMA LineWritten ==
  ASSUME LinesAreRead, NEW line \in Lines,
         written' = Append(written, line), unread' = Append(unread, line)
  PROVE  /\ written' \in Seq(Lines) /\ unread' \in Seq(Lines) /\ Len(unread') <= Len(written')
         /\ (T!Handled)' = T!Handled /\ Len(written') = Len(written) + 1
         /\ \A k \in 1..Len(written) : written'[k] = written[k]
         /\ \A i \in 1..Len(unread') : unread'[i] = written'[(T!Handled)' + i]
<1>1. PICK w \in Nat, u \in Nat : w = Len(written) /\ u = Len(unread)
  BY HandledIs
<1>2. /\ written \in Seq(Lines) /\ unread \in Seq(Lines)
      /\ u <= w /\ \A i \in 1..u : unread[i] = written[w - u + i]
  BY <1>1 DEF LinesAreRead, T!Handled
<1>3. /\ written' \in Seq(Lines) /\ unread' \in Seq(Lines)
      /\ Len(written') = w + 1 /\ Len(unread') = u + 1
      /\ \A k \in 1..w : written'[k] = written[k]
      /\ \A i \in 1..u : unread'[i] = unread[i]
      /\ written'[w + 1] = line /\ unread'[u + 1] = line
  BY <1>1, <1>2
<1>4. T!Handled = w - u /\ (T!Handled)' = w - u
  BY <1>1, <1>3 DEF T!Handled
<1>5. \A i \in 1..(u + 1) : unread'[i] = written'[w - u + i]
  <2> SUFFICES ASSUME NEW i \in 1..(u + 1) PROVE unread'[i] = written'[w - u + i]
    OBVIOUS
  <2>1. CASE i = u + 1
    <3>1. w - u + i = w + 1
      BY <2>1
    <3> QED
      BY <1>3, <2>1, <3>1
  <2>2. CASE i \in 1..u
    <3>1. w - u + i \in 1..w
      BY <1>2, <2>2
    <3> QED
      BY <1>2, <1>3, <2>2, <3>1
  <2>3. i \in 1..u \/ i = u + 1
    OBVIOUS
  <2> QED
    BY <2>1, <2>2, <2>3
<1>6. Len(unread') <= Len(written')
  BY <1>2, <1>3
<1>7. /\ (T!Handled)' = T!Handled /\ Len(written') = Len(written) + 1
      /\ \A k \in 1..Len(written) : written'[k] = written[k]
  BY <1>1, <1>3, <1>4
<1>8. \A i \in 1..Len(unread') : unread'[i] = written'[(T!Handled)' + i]
  BY <1>3, <1>4, <1>5
<1> QED
  BY <1>3, <1>6, <1>7, <1>8

\* The requests answered do not change while the lines stay where they are.
LEMMA AnsweredSame ==
  ASSUME LinesAreRead, calling' = calling, (T!Handled)' = T!Handled,
         \A k \in 1..Len(written) : written'[k] = written[k]
  PROVE  /\ (T!Answered)' = T!Answered
         /\ \A k \in T!Answered : T!AnsweredAs(k)' = T!AnsweredAs(k)
<1>1. PICK h \in Nat : h = T!Handled /\ h <= Len(written) /\ Len(written) \in Nat
  BY HandledIs
<1>2. \A k \in T!Answered : k \in 1..Len(written)
  BY <1>1 DEF T!Answered
<1>3. (T!Answered)' = T!Answered
  <2>1. \A k \in 1..h : written'[k] = written[k]
    BY <1>1
  <2> QED
    BY <1>1, <2>1 DEF T!Answered
<1> QED
  BY <1>2, <1>3 DEF T!AnsweredAs

-----------------------------------------------------------------------------
(* ToolsInv is inductive. *)

\* A reply is written, and the services stay what they are: a list says them.
LEMMA ListsAfterReply ==
  ASSUME OutIsASequence, ListsAreCurrent, services' = services, NEW r, out' = Append(out, r),
         r.says = "list" => r.tools = T!ToolsList
  PROVE  ListsAreCurrent'
<1>1. PICK len \in Nat :
        /\ len = Len(out) /\ Len(out') = len + 1 /\ out'[len + 1] = r
        /\ \A i \in 1..len : out'[i] = out[i]
  BY OutAppended
<1>2. (T!ToolsList)' = T!ToolsList
  BY DEF T!ToolsList, T!Searching
<1>3. ASSUME NEW i \in 1..(len + 1), IsLatestList(i)' PROVE out'[i].tools = T!ToolsList
  <2>1. CASE i = len + 1
    BY <1>1, <1>3, <2>1 DEF IsLatestList
  <2>2. CASE i \in 1..len
    <3>1. \A j \in (i + 1)..len : j \in (i + 1)..(len + 1) /\ out'[j] = out[j]
      BY <1>1, <2>2
    <3>2. IsLatestList(i)
      BY <1>1, <1>3, <2>2, <3>1 DEF IsLatestList
    <3> QED
      BY <1>1, <2>2, <3>2 DEF ListsAreCurrent
  <2>3. i = len + 1 \/ i \in 1..len
    OBVIOUS
  <2> QED
    BY <2>1, <2>2, <2>3
<1> QED
  BY <1>1, <1>2, <1>3 DEF ListsAreCurrent

LEMMA ListsAsTheyWere ==
  ASSUME ListsAreCurrent, services' = services, out' = out PROVE ListsAreCurrent'
BY DEF ListsAreCurrent, IsLatestList, T!ToolsList, T!Searching

LEMMA FeedInv ==
  ASSUME ToolsInv, T!Grant \/ T!Poll \/ T!MapView PROVE ToolsInv'
<1>1. UNCHANGED <<services, calling, written, unread, out>>
  BY DEF T!Grant, T!Poll, T!MapView
<1>2. ViewsFlow'
  <2>1. CASE T!Grant
    BY <2>1 DEF T!Grant, ToolsInv, ViewsFlow
  <2>2. CASE T!Poll
    BY <2>2 DEF T!Poll, ToolsInv, ViewsFlow
  <2>3. CASE T!MapView
    BY <2>3 DEF T!MapView, ToolsInv, ViewsFlow
  <2> QED
    BY <2>1, <2>2, <2>3
<1>3. LinesAreRead' /\ OutIsASequence' /\ ListsAreCurrent'
  BY <1>1, ListsAsTheyWere DEF ToolsInv, LinesAreRead, OutIsASequence, T!Handled
<1>4. (T!OneReplyEach)'
  <2>1. (T!Handled)' = T!Handled
    BY <1>1 DEF T!Handled
  <2> QED
    BY <1>1, <2>1, AnsweredSame, SameAnswers DEF ToolsInv
<1> QED
  BY <1>2, <1>3, <1>4 DEF ToolsInv

\* The services change under a note, and no list is the client's latest then.
LEMMA TakeToolsInv == ASSUME ToolsInv, T!TakeTools PROVE ToolsInv'
<1>1. /\ tools.new /\ tools' = [tools EXCEPT !.new = FALSE] /\ services' = tools.value
      /\ out' = IF services # tools.value THEN Append(out, T!Note) ELSE out
      /\ UNCHANGED <<granted, views, calling, written, unread>>
  BY DEF T!TakeTools, T!feed, T!Changed
<1>2. LinesAreRead'
  BY <1>1 DEF ToolsInv, LinesAreRead, T!Handled
<1>3. ViewsFlow'
  BY <1>1 DEF ToolsInv, ViewsFlow
<1>4. (T!OneReplyEach)'
  <2>1. (T!Handled)' = T!Handled
    BY <1>1 DEF T!Handled
  <2> QED
    BY <1>1, <2>1, AnsweredSame, SameAnswers DEF ToolsInv
<1>5. OutIsASequence' /\ ListsAreCurrent'
  <2>1. CASE services = tools.value
    BY <1>1, <2>1, ListsAsTheyWere DEF ToolsInv, OutIsASequence
  <2>2. CASE services # tools.value
    <3>1. out' = Append(out, T!Note) /\ T!Note.id = T!NoteId
      BY <1>1, <2>2 DEF T!Note
    <3>2. PICK len \in Nat :
            len = Len(out) /\ Len(out') = len + 1 /\ out'[len + 1] = T!Note /\ OutIsASequence'
      BY <3>1, OutAppended DEF ToolsInv
    <3>3. \A i \in 1..(len + 1) : ~IsLatestList(i)'
      <4> SUFFICES ASSUME NEW i \in 1..(len + 1) PROVE ~IsLatestList(i)'
        OBVIOUS
      <4>1. i = len + 1 \/ len + 1 \in (i + 1)..(len + 1)
        OBVIOUS
      <4> QED
        BY <3>1, <3>2, <4>1 DEF IsLatestList
    <3> QED
      BY <3>2, <3>3 DEF ListsAreCurrent
  <2> QED
    BY <2>1, <2>2
<1> QED
  BY <1>2, <1>3, <1>4, <1>5 DEF ToolsInv

LEMMA WritesInv == ASSUME ToolsInv, T!Writes PROVE ToolsInv'
<1>1. PICK line \in Lines : written' = Append(written, line) /\ unread' = Append(unread, line)
  BY DEF T!Writes
<1>2. UNCHANGED <<granted, views, tools, services, calling, out>>
  BY DEF T!Writes, T!feed
<1>3. ViewsFlow' /\ OutIsASequence' /\ ListsAreCurrent'
  BY <1>2, ListsAsTheyWere DEF ToolsInv, ViewsFlow, OutIsASequence
<1>4. /\ written' \in Seq(Lines) /\ unread' \in Seq(Lines) /\ Len(unread') <= Len(written')
      /\ (T!Handled)' = T!Handled /\ Len(written') = Len(written) + 1 /\ Len(written) \in Nat
      /\ \A k \in 1..Len(written) : written'[k] = written[k]
      /\ \A i \in 1..Len(unread') : unread'[i] = written'[(T!Handled)' + i]
  BY <1>1, LineWritten, HandledIs DEF ToolsInv
<1>5. calling # None =>
        /\ calling \in T!Callings /\ calling.id = T!Handled /\ T!Handled \in 1..Len(written)
        /\ written[T!Handled].is = "call"
  BY DEF ToolsInv, LinesAreRead
<1>6. T!Handled \in 1..Len(written) => T!Handled \in 1..Len(written')
  BY <1>4
<1>7. LinesAreRead'
  BY <1>2, <1>4, <1>5, <1>6 DEF LinesAreRead
<1>8. (T!OneReplyEach)'
  BY <1>2, <1>4, AnsweredSame, SameAnswers DEF ToolsInv
<1> QED
  BY <1>3, <1>7, <1>8 DEF ToolsInv

LEMMA QuietInv == ASSUME ToolsInv, T!Closes \/ T!Call \/ UNCHANGED T!vars PROVE ToolsInv'
<1>1. UNCHANGED <<granted, views, tools, services, calling, written, unread, out>>
  BY DEF T!Closes, T!Call, T!feed, T!vars
<1>2. ViewsFlow' /\ LinesAreRead' /\ OutIsASequence' /\ ListsAreCurrent'
  BY <1>1, ListsAsTheyWere DEF ToolsInv, ViewsFlow, LinesAreRead, OutIsASequence, T!Handled
<1>3. (T!OneReplyEach)'
  <2>1. (T!Handled)' = T!Handled
    BY <1>1 DEF T!Handled
  <2> QED
    BY <1>1, <2>1, AnsweredSame, SameAnswers DEF ToolsInv
<1> QED
  BY <1>2, <1>3 DEF ToolsInv

\* A line is handled: it gets its reply, or none, or a call is run for it.
LEMMA HandleLineInv == ASSUME ToolsInv, T!HandleLine PROVE ToolsInv'
<1> DEFINE line == Head(unread)
           id == T!Handled + 1
<1>1. /\ calling = None /\ unread # <<>> /\ unread' = Tail(unread)
      /\ UNCHANGED <<granted, views, tools, services, written>>
      /\ \/ /\ T!Dials(line)
            /\ calling' = [id |-> Len(written) - Len(unread) + 1, service |-> T!ServiceOf(line),
                           shape |-> line.shape, version |-> T!VersionFor(line)]
            /\ out' = out
         \/ /\ ~T!Dials(line) /\ calling' = calling
            /\ out' = out \o T!Handle(line, Len(written) - Len(unread) + 1)
  BY DEF T!HandleLine, T!feed
<1>2. /\ (T!Handled)' = id /\ id \in 1..Len(written) /\ Len(written) - Len(unread) + 1 = id
      /\ line = written[id] /\ line \in Lines
      /\ unread' \in Seq(Lines) /\ Len(unread') <= Len(written')
      /\ \A i \in 1..Len(unread') : unread'[i] = written'[(T!Handled)' + i]
  BY <1>1, LineRead DEF ToolsInv
<1>3. PICK h \in Nat : h = T!Handled /\ id = h + 1 /\ h <= Len(written) /\ Len(written) \in Nat
  BY HandledIs DEF ToolsInv
<1>4. /\ T!Answered = {k \in 1..h : written[k].is \notin {"blank", "notification"}}
      /\ \A k \in T!Answered : k \in Nat /\ k < h + 1
      /\ \A k \in Nat : T!AnsweredAs(k)' = T!AnsweredAs(k)
  <2>1. h - 0 = h
    OBVIOUS
  <2> QED
    BY <1>1, <1>3, <2>1 DEF T!Answered, T!AnsweredAs
<1>5. ViewsFlow'
  BY <1>1 DEF ToolsInv, ViewsFlow
<1>6. CASE T!Dials(line)
  <2> DEFINE c == [id |-> h + 1, service |-> T!ServiceOf(line), shape |-> line.shape,
                   version |-> T!VersionFor(line)]
  <2>1. calling' = c /\ out' = out
    BY <1>1, <1>2, <1>3, <1>6
  <2>2. /\ line.is = "call" /\ T!ServiceOf(line) # None
        /\ T!VersionFor(line) \in T!Legacy \cup T!Modern \cup {None}
    BY <1>6 DEF T!Dials
  <2>3. T!ServiceOf(line) \in UNION {DOMAIN v : v \in Views}
    <3>1. T!ServiceOf(line) \in DOMAIN services
      BY <2>2 DEF T!ServiceOf
    <3>2. services \in Views
      <4>1. DOMAIN <<>> = {}
        OBVIOUS
      <4> QED
        BY <3>1, <4>1 DEF ToolsInv, ViewsFlow
    <3> QED
      BY <3>1, <3>2
  <2>4. c \in T!Callings /\ c.id = h + 1
    BY <1>2, <2>2, <2>3 DEF T!Callings
  <2>5. c # None
    BY <2>4, CallsAssumption DEF T!ToolsAssumption
  <2> HIDE DEF c
  <2>6. LinesAreRead'
    BY <1>1, <1>2, <1>3, <2>1, <2>2, <2>4 DEF ToolsInv, LinesAreRead
  <2>7. (T!Answered)' = T!Answered
    <3>1. (T!Answered)' = {k \in 1..(h + 1 - 1) : written[k].is \notin {"blank", "notification"}}
      BY <1>1, <1>2, <1>3, <2>1, <2>5 DEF T!Answered
    <3>2. h + 1 - 1 = h
      OBVIOUS
    <3> QED
      BY <1>4, <3>1, <3>2
  <2>8. (T!OneReplyEach)'
    <3>1. \A k \in T!Answered : T!AnsweredAs(k)' = T!AnsweredAs(k)
      BY <1>4
    <3> QED
      BY <2>1, <2>7, <3>1, SameAnswers DEF ToolsInv
  <2>9. OutIsASequence' /\ ListsAreCurrent'
    BY <1>1, <2>1, ListsAsTheyWere DEF ToolsInv, OutIsASequence
  <2> QED
    BY <1>5, <2>6, <2>8, <2>9 DEF ToolsInv
<1>7. CASE ~T!Dials(line)
  <2>1. calling' = None /\ out' = out \o T!Handle(line, h + 1)
    BY <1>1, <1>2, <1>3, <1>7
  <2>2. LinesAreRead'
    BY <1>1, <1>2, <2>1 DEF ToolsInv, LinesAreRead
  <2>3. (T!Answered)' = {k \in 1..(h + 1) : written[k].is \notin {"blank", "notification"}}
    <3>1. h + 1 - 0 = h + 1
      OBVIOUS
    <3> QED
      BY <1>1, <1>2, <1>3, <2>1, <3>1 DEF T!Answered
  <2>4. CASE T!Silent(line)
    <3>1. out' = out
      <4>1. PICK S : out \in Seq(S)
        BY DEF ToolsInv, OutIsASequence
      <4>2. out \o <<>> = out
        BY <4>1
      <4> QED
        BY <2>1, <2>4, <4>2 DEF T!Handle
    <3>2. (T!Answered)' = T!Answered
      <4>1. written[h + 1].is \in {"blank", "notification"}
        BY <1>2, <1>3, <2>4 DEF T!Silent
      <4>2. \A k \in 1..(h + 1) : k \in 1..h \/ k = h + 1
        OBVIOUS
      <4>3. \A k \in 1..h : k \in 1..(h + 1)
        OBVIOUS
      <4> QED
        BY <1>4, <2>3, <4>1, <4>2, <4>3
    <3>3. (T!OneReplyEach)'
      <4>1. \A k \in T!Answered : T!AnsweredAs(k)' = T!AnsweredAs(k)
        BY <1>4
      <4> QED
        BY <3>1, <3>2, <4>1, SameAnswers DEF ToolsInv
    <3>4. OutIsASequence' /\ ListsAreCurrent'
      BY <1>1, <3>1, ListsAsTheyWere DEF ToolsInv, OutIsASequence
    <3> QED
      BY <1>5, <2>2, <3>3, <3>4 DEF ToolsInv
  <2>5. CASE ~T!Silent(line)
    <3> DEFINE r == T!Answer(line, h + 1)
    <3>1. out' = Append(out, r)
      <4>1. PICK S : out \in Seq(S)
        BY DEF ToolsInv, OutIsASequence
      <4>2. out \o <<r>> = Append(out, r)
        BY <4>1
      <4> QED
        BY <2>1, <2>5, <4>2 DEF T!Handle
    <3>2. /\ r.id = IF line.is \in {"garbage", "not_an_object"} THEN 0 ELSE h + 1
          /\ r.says = "list" => r.tools = T!ToolsList
      BY AnswerSays
    <3> HIDE DEF r
    <3>3. r.id # T!NoteId /\ r.id = T!AnsweredAs(h + 1)'
      BY <1>1, <1>2, <1>3, <3>2 DEF T!NoteId, T!NullId, T!AnsweredAs
    <3>4. (T!Answered)' = T!Answered \cup {h + 1}
      <4>1. written[h + 1].is \notin {"blank", "notification"}
        BY <1>2, <1>3, <2>5 DEF T!Silent
      <4>2. \A k : k \in 1..(h + 1) <=> k \in 1..h \/ k = h + 1
        OBVIOUS
      <4> QED
        BY <1>4, <2>3, <4>1, <4>2
    <3>5. (T!OneReplyEach)'
      <4>1. \A k \in T!Answered : T!AnsweredAs(k)' = T!AnsweredAs(k)
        BY <1>4
      <4> QED
        BY <1>4, <3>1, <3>3, <3>4, <4>1, OneMoreAnswer DEF ToolsInv
    <3>6. OutIsASequence' /\ ListsAreCurrent'
      BY <1>1, <3>1, <3>2, OutAppended, ListsAfterReply DEF ToolsInv
    <3> QED
      BY <1>5, <2>2, <3>5, <3>6 DEF ToolsInv
  <2> QED
    BY <2>4, <2>5
<1> QED
  BY <1>6, <1>7

LEMMA RenderedSays ==
  ASSUME NEW c, NEW outcome, NEW r, r = T!Rendered(c, outcome)
  PROVE  r.id = c.id /\ r.says = "tool"
<1> DEFINE failed == T!ToolError(c.id, c.version)
<1>1. failed.id = c.id /\ failed.says = "tool"
  BY ToolErrorSays
<1>2. {"id", "says"} \subseteq DOMAIN failed
  BY DEF T!ToolError, T!Reply
<1>3. \/ r = failed
      \/ \E text, exit, is_error :
           r = [failed EXCEPT !.text = text, !.exit = exit, !.is_error = is_error]
  BY DEF T!Rendered
<1> HIDE DEF failed
<1> QED
  BY <1>1, <1>2, <1>3

\* The call ends, and its request has its reply.
LEMMA CallEndsInv == ASSUME ToolsInv, T!CallEnds PROVE ToolsInv'
<1>1. PICK outcome \in Outcomes : out' = Append(out, T!Rendered(calling, outcome))
  BY DEF T!CallEnds
<1>2. /\ calling # None /\ calling' = None
      /\ UNCHANGED <<granted, views, tools, services, written, unread>>
  BY DEF T!CallEnds, T!feed
<1>3. PICK h \in Nat : h = T!Handled /\ h \in 1..Len(written) /\ (T!Handled)' = h
  BY <1>2, HandledIs DEF ToolsInv, LinesAreRead, T!Handled
<1>4. calling.id = h /\ written[h].is = "call"
  BY <1>2, <1>3 DEF ToolsInv, LinesAreRead
<1> DEFINE r == T!Rendered(calling, outcome)
<1>5. r.id = h /\ r.says = "tool"
  BY <1>4, RenderedSays
<1> HIDE DEF r
<1>6. out' = Append(out, r) /\ r.id # T!NoteId /\ r.id = T!AnsweredAs(h)'
  BY <1>1, <1>2, <1>3, <1>4, <1>5 DEF r, T!AnsweredAs, T!NoteId
<1>7. /\ T!Answered = {k \in 1..(h - 1) : written[k].is \notin {"blank", "notification"}}
      /\ (T!Answered)' = {k \in 1..h : written[k].is \notin {"blank", "notification"}}
      /\ \A k \in T!Answered : T!AnsweredAs(k)' = T!AnsweredAs(k)
  <2>1. h - 0 = h
    OBVIOUS
  <2> QED
    BY <1>2, <1>3, <2>1 DEF T!Answered, T!AnsweredAs
<1>8. (T!Answered)' = T!Answered \cup {h} /\ \A k \in T!Answered : k \in Nat /\ k < h
  <2>1. \A k : k \in 1..h <=> k \in 1..(h - 1) \/ k = h
    BY <1>3
  <2> QED
    BY <1>4, <1>7, <2>1
<1>9. (T!OneReplyEach)'
  BY <1>6, <1>7, <1>8, OneMoreAnswer DEF ToolsInv
<1>10. OutIsASequence' /\ ListsAreCurrent'
  BY <1>2, <1>5, <1>6, OutAppended, ListsAfterReply DEF ToolsInv
<1>11. ViewsFlow' /\ LinesAreRead'
  BY <1>2 DEF ToolsInv, ViewsFlow, LinesAreRead, T!Handled
<1> QED
  BY <1>9, <1>10, <1>11 DEF ToolsInv

LEMMA ToolsStepInv == ToolsInv /\ [T!Next]_(T!vars) => ToolsInv'
BY FeedInv, TakeToolsInv, HandleLineInv, CallEndsInv, WritesInv, QuietInv DEF T!Next

LEMMA ToolsInvTells == ToolsInv => T!ToldOfChanges
BY DEF ToolsInv, ViewsFlow, ListsAreCurrent, IsLatestList, T!ToldOfChanges

-----------------------------------------------------------------------------
(* What is cut of an output, and what is printed of it. *)

\* A set of numbers with a member has a least one.
LEMMA LeastNumber ==
  ASSUME NEW ns \in SUBSET Nat, ns # {} PROVE \E n \in ns : \A k \in ns : n <= k
<1> DEFINE R == OpToRel(<, Nat)
<1>1. IsWellFoundedOn(R, Nat)
  BY NatLessThanWellFounded
<1>2. PICK n \in ns : \A k \in ns : <<k, n>> \notin R
  <2> HIDE DEF R
  <2> QED
    BY <1>1, WFMin
<1>3. \A k \in ns : ~ (k < n)
  BY <1>2 DEF OpToRel
<1> QED
  BY <1>3

Upto(ns, k) == {j \in ns : j <= k}

\* Of a set with n numbers, one is the n-th.
LEMMA NthNumber ==
  ASSUME NEW m \in Nat, NEW ns \in SUBSET (1..m), NEW n \in Nat \ {0}, n <= Cardinality(ns)
  PROVE  \E i \in ns : Cardinality(Upto(ns, i)) = n
<1>0. \A i \in ns : i \in Nat /\ 1 <= i /\ i <= m
  OBVIOUS
<1>1. IsFiniteSet(ns) /\ Cardinality(ns) \in Nat
  <2>1. IsFiniteSet(1..m) /\ ns \subseteq 1..m
    BY FS_Interval
  <2> QED
    BY <2>1, FS_Subset, FS_CardinalityType
<1>2. \A k \in Nat : IsFiniteSet(Upto(ns, k)) /\ Cardinality(Upto(ns, k)) \in Nat
  BY <1>1, FS_Subset, FS_CardinalityType DEF Upto
<1> DEFINE enough == {k \in 0..m : Cardinality(Upto(ns, k)) >= n}
<1>3. m \in enough
  <2>1. Upto(ns, m) = ns
    BY <1>0 DEF Upto
  <2> QED
    BY <1>1, <2>1
<1>4. PICK k \in enough : \A j \in enough : k <= j
  <2>1. enough \in SUBSET Nat /\ enough # {}
    BY <1>3
  <2> HIDE DEF enough
  <2> QED
    BY <2>1, LeastNumber
<1>5. k # 0
  <2>1. Upto(ns, 0) = {}
    <3>1. \A j \in ns : ~ (j <= 0)
      BY <1>0
    <3> QED
      BY <3>1 DEF Upto
  <2> QED
    BY <1>4, <2>1, FS_EmptySet
<1>6. k - 1 \in Nat /\ Cardinality(Upto(ns, k - 1)) < n
  <2>1. k - 1 \in 0..m /\ k - 1 \notin enough
    BY <1>4, <1>5
  <2> QED
    BY <1>2, <2>1
<1>7. \A j \in ns : j <= k <=> j <= k - 1 \/ j = k
  <2> SUFFICES ASSUME NEW j \in ns PROVE j <= k <=> j <= k - 1 \/ j = k
    OBVIOUS
  <2>1. j \in Nat /\ k \in Nat
    BY <1>0, <1>4
  <2> QED
    BY <2>1
<1>8. ~ (k <= k - 1)
  BY <1>4
<1>9. k \in ns /\ Upto(ns, k) = Upto(ns, k - 1) \cup {k} /\ k \notin Upto(ns, k - 1)
  <2>1. CASE k \notin ns
    <3>1. Upto(ns, k) = Upto(ns, k - 1)
      BY <1>7, <2>1 DEF Upto
    <3> QED
      BY <1>2, <1>4, <1>6, <3>1
  <2>2. CASE k \in ns
    BY <1>7, <1>8, <2>2 DEF Upto
  <2> QED
    BY <2>1, <2>2
<1>10. Cardinality(Upto(ns, k)) = Cardinality(Upto(ns, k - 1)) + 1
  BY <1>2, <1>6, <1>9, FS_AddElement
<1> QED
  BY <1>2, <1>4, <1>6, <1>9, <1>10

LEMMA SameCardinality == \A s : T!Cardinality(s) = Cardinality(s)
BY DEF T!Cardinality, Cardinality

Texts == {bytes \in Seq(T!Bytes) : T!IsText(bytes)}

\* What begins a text, and what follows a newline, is a character of its own.
LEMMA TextBreaks ==
  ASSUME NEW b \in Texts
  PROVE  /\ Len(b) \in Nat
         /\ Len(b) > 0 => b[1] # "rest"
         /\ \A i \in 1..Len(b) : b[i] = "newline" /\ i < Len(b) => b[i + 1] # "rest"
<1>1. PICK len \in Nat : len = Len(b)
  BY DEF Texts
<1>2. \A i \in 1..len : b[i] = "rest" =>
        \E j \in 1..(i - 1) : i - j <= 3 /\ b[j] = "first" /\ \A m \in (j + 1)..i : b[m] = "rest"
  BY <1>1 DEF Texts, T!IsText
<1>3. len > 0 => b[1] # "rest"
  BY <1>2
<1>4. ASSUME NEW i \in 1..len, b[i] = "newline", i < len PROVE b[i + 1] # "rest"
  <2> SUFFICES ASSUME b[i + 1] = "rest" PROVE FALSE
    OBVIOUS
  <2>1. i + 1 \in 1..len
    BY <1>4
  <2>2. PICK j \in 1..i : b[j] = "first" /\ \A m \in (j + 1)..(i + 1) : b[m] = "rest"
    BY <1>2, <2>1
  <2>3. j # i
    BY <1>4, <2>2
  <2>4. i \in (j + 1)..(i + 1)
    BY <2>3
  <2> QED
    BY <1>4, <2>2, <2>4
<1> QED
  BY <1>1, <1>3, <1>4

\* Whatever is cut off its end, a text stays one.
LEMMA TextCut ==
  ASSUME NEW b \in Texts, NEW len \in 0..Len(b)
  PROVE  LET cut == SubSeq(b, 1, len)
         IN /\ cut \in Texts /\ Len(cut) = len /\ \A i \in 1..len : cut[i] = b[i]
            /\ T!Newlines(cut) = Upto(T!Newlines(b), len)
<1> DEFINE cut == SubSeq(b, 1, len)
<1>1. PICK all \in Nat : all = Len(b) /\ b \in Seq(T!Bytes)
  BY DEF Texts
<1>2. len \in Nat /\ len <= all
  BY <1>1
<1>3. cut \in Seq(T!Bytes) /\ Len(cut) = len /\ \A i \in 1..len : cut[i] = b[i]
  BY <1>1, <1>2
<1> HIDE DEF cut
<1>4. T!IsText(cut)
  <2> SUFFICES ASSUME NEW i \in 1..len, cut[i] = "rest"
               PROVE  \E j \in 1..(i - 1) : /\ i - j <= 3 /\ cut[j] = "first"
                                            /\ \A m \in (j + 1)..i : cut[m] = "rest"
    BY <1>3 DEF T!IsText
  <2>1. b[i] = "rest" /\ i \in 1..Len(b)
    BY <1>1, <1>2, <1>3
  <2>2. PICK j \in 1..(i - 1) :
          i - j <= 3 /\ b[j] = "first" /\ \A m \in (j + 1)..i : b[m] = "rest"
    BY <2>1 DEF Texts, T!IsText
  <2>3. j \in 1..len /\ \A m \in (j + 1)..i : m \in 1..len
    BY <1>2, <2>2
  <2> QED
    BY <1>3, <2>2, <2>3
<1>5. T!Newlines(cut) = Upto(T!Newlines(b), len)
  BY <1>1, <1>2, <1>3 DEF T!Newlines, Upto
<1> QED
  BY <1>3, <1>4, <1>5 DEF Texts, cut

\* A number of lines: whole ones, and no more than asked for.
LEMMA HeadLenCuts ==
  ASSUME NEW b \in Texts, NEW n \in Nat
  PROVE  /\ T!HeadLen(b, n) \in 0..Len(b)
         /\ T!HeadLen(b, n) = Len(b) \/ b[T!HeadLen(b, n) + 1] # "rest"
         /\ Cardinality(Upto(T!Newlines(b), T!HeadLen(b, n))) <= n
<1>1. PICK all \in Nat : all = Len(b)
  BY TextBreaks
<1> DEFINE ns == T!Newlines(b)
<1>2. ns \in SUBSET (1..all) /\ \A i \in ns : b[i] = "newline"
  BY <1>1 DEF T!Newlines
<1>3. IsFiniteSet(ns) /\ Cardinality(ns) \in Nat
  <2>1. IsFiniteSet(1..all)
    BY FS_Interval
  <2> QED
    BY <1>2, <2>1, FS_Subset, FS_CardinalityType
<1>4. T!HeadLen(b, n) = IF n = 0 THEN 0 ELSE IF Cardinality(ns) < n THEN all
                        ELSE CHOOSE i \in ns : Cardinality(Upto(ns, i)) = n
  <2>1. \A i : T!Cardinality({j \in ns : j <= i}) = Cardinality(Upto(ns, i))
    BY SameCardinality DEF Upto
  <2>2. T!Cardinality(ns) = Cardinality(ns)
    BY SameCardinality
  <2>3. T!HeadLen(b, n) = IF n = 0 THEN 0 ELSE IF T!Cardinality(ns) < n THEN Len(b)
                          ELSE CHOOSE i \in ns : T!Cardinality({j \in ns : j <= i}) = n
    BY DEF T!HeadLen
  <2>4. (CHOOSE i \in ns : T!Cardinality({j \in ns : j <= i}) = n)
        = (CHOOSE i \in ns : Cardinality(Upto(ns, i)) = n)
    BY <2>1
  <2> QED
    BY <1>1, <2>2, <2>3, <2>4
<1> HIDE DEF ns
<1>5. CASE n = 0
  <2>1. Upto(ns, 0) = {}
    <3>1. \A i \in ns : ~ (i <= 0)
      BY <1>2
    <3> QED
      BY <3>1 DEF Upto
  <2>2. T!HeadLen(b, n) = 0
    BY <1>4, <1>5
  <2> QED
    <3>1. all = 0 \/ b[1] # "rest"
      BY <1>1, TextBreaks
    <3>2. Cardinality(Upto(ns, 0)) = 0
      BY <2>1, FS_EmptySet
    <3> QED
      BY <1>1, <1>5, <2>2, <3>1, <3>2 DEF ns
<1>6. CASE n # 0 /\ Cardinality(ns) < n
  <2>1. Upto(ns, all) = ns
    <3>1. \A i \in ns : i <= all
      BY <1>2
    <3> QED
      BY <3>1 DEF Upto
  <2>2. T!HeadLen(b, n) = all
    BY <1>4, <1>6
  <2> QED
    BY <1>1, <1>3, <1>6, <2>1, <2>2 DEF ns
<1>7. CASE n # 0 /\ ~ (Cardinality(ns) < n)
  <2>1. n <= Cardinality(ns) /\ n \in Nat \ {0}
    BY <1>3, <1>7
  <2>2. \E i \in ns : Cardinality(Upto(ns, i)) = n
    BY <1>2, <2>1, NthNumber
  <2>3. PICK i \in ns : i = T!HeadLen(b, n) /\ Cardinality(Upto(ns, i)) = n
    BY <1>4, <1>7, <2>2
  <2>4. i \in 1..all /\ b[i] = "newline"
    BY <1>2
  <2>5. i = all \/ b[i + 1] # "rest"
    BY <1>1, <2>4, TextBreaks
  <2> QED
    BY <1>1, <2>3, <2>4, <2>5 DEF ns
<1> QED
  BY <1>5, <1>6, <1>7

\* A number of bytes: the cut that splits no character and keeps the most.
LEMMA CharFloorCuts ==
  ASSUME NEW b \in Texts, NEW n \in Nat, n < Len(b)
  PROVE  /\ T!CharFloor(b, n) \in 0..n /\ b[T!CharFloor(b, n) + 1] # "rest"
         /\ \A k \in (T!CharFloor(b, n) + 1)..n : b[k + 1] = "rest"
<1>1. PICK all \in Nat : all = Len(b)
  BY TextBreaks
<1> DEFINE lo == IF n > 3 THEN n - 3 ELSE 0
           cuts == {k \in lo..n : b[k + 1] # "rest"}
<1>2. \E k \in cuts : \A j \in (k + 1)..n : b[j + 1] = "rest"
  <2>1. CASE b[n + 1] # "rest"
    <3>1. n \in cuts
      BY <2>1
    <3> QED
      BY <3>1
  <2>2. CASE b[n + 1] = "rest"
    <3>1. n + 1 \in 1..Len(b)
      BY <1>1
    <3>2. PICK j \in 1..n : /\ (n + 1) - j <= 3 /\ b[j] = "first"
                            /\ \A m \in (j + 1)..(n + 1) : b[m] = "rest"
      BY <2>2, <3>1 DEF Texts, T!IsText
    <3>3. j - 1 \in lo..n /\ (j - 1) + 1 = j
      BY <3>2
    <3>4. j - 1 \in cuts
      BY <3>2, <3>3
    <3>5. \A k \in ((j - 1) + 1)..n : k + 1 \in (j + 1)..(n + 1)
      BY <3>3
    <3> QED
      BY <3>2, <3>4, <3>5
  <2> QED
    BY <2>1, <2>2
<1>3. PICK k \in cuts : \A j \in (k + 1)..n : b[j + 1] = "rest"
  BY <1>2
<1>4. cuts \subseteq 0..n /\ \A j \in cuts : k >= j
  <2>1. lo \in Nat
    OBVIOUS
  <2>2. \A j \in cuts : j \in Nat /\ j <= n /\ j \notin (k + 1)..n
    BY <1>3, <2>1
  <2> QED
    BY <1>3, <2>1, <2>2
<1>5. T!Max(cuts) = k
  <2>1. \A j \in cuts : (\A i \in cuts : j >= i) => j = k
    BY <1>3, <1>4
  <2> HIDE DEF cuts
  <2> QED
    BY <1>3, <1>4, <2>1 DEF T!Max
<1>6. T!CharFloor(b, n) = k
  <2>1. ~ (n >= Len(b))
    BY <1>1
  <2>2. cuts # {}
    BY <1>3
  <2> QED
    BY <1>5, <2>1, <2>2 DEF T!CharFloor
<1> QED
  BY <1>3, <1>4, <1>6

\* A cut that splits no character.
LEMMA CutIsWhole ==
  ASSUME NEW b \in Texts, NEW len \in 0..Len(b), len = Len(b) \/ b[len + 1] # "rest"
  PROVE  T!Whole(SubSeq(b, 1, len), b)
<1>1. Len(SubSeq(b, 1, len)) = len
  BY TextCut
<1> QED
  BY <1>1 DEF T!Whole

LEMMA WholeOfWhole ==
  ASSUME NEW b \in Texts, NEW len \in 0..Len(b), NEW c, c = SubSeq(b, 1, len), T!Whole(c, b),
         NEW m \in 0..len, NEW d, d = SubSeq(c, 1, m), T!Whole(d, c)
  PROVE  T!Whole(d, b)
<1>1. PICK all \in Nat : all = Len(b) /\ b \in Seq(T!Bytes)
  BY DEF Texts
<1>2. len \in Nat /\ len <= all /\ m \in Nat /\ m <= len
  BY <1>1
<1>3. c \in Texts /\ Len(c) = len /\ \A i \in 1..len : c[i] = b[i]
  BY TextCut
<1>4. Len(d) = m
  BY <1>3, TextCut
<1>5. d = SubSeq(b, 1, m)
  BY <1>1, <1>2
<1>6. m = all \/ b[m + 1] # "rest"
  <2>1. CASE m = len
    BY <1>1, <1>2, <1>3, <2>1 DEF T!Whole
  <2>2. CASE m # len
    <3>1. c[m + 1] # "rest" /\ m + 1 \in 1..len
      BY <1>2, <1>3, <1>4, <2>2 DEF T!Whole
    <3> QED
      BY <1>3, <3>1
  <2> QED
    BY <2>1, <2>2
<1> QED
  BY <1>1, <1>4, <1>5, <1>6 DEF T!Whole

\* The number of lines, as `head` has it.
LEMMA HeadStage ==
  ASSUME NEW b \in Texts, NEW n \in Nat
  PROVE  LET c == SubSeq(b, 1, T!HeadLen(b, n))
         IN c \in Texts /\ T!Whole(c, b) /\ Cardinality(T!Newlines(c)) <= n
<1> DEFINE len == T!HeadLen(b, n)
<1>1. /\ len \in 0..Len(b) /\ (len = Len(b) \/ b[len + 1] # "rest")
      /\ Cardinality(Upto(T!Newlines(b), len)) <= n
  BY HeadLenCuts
<1> HIDE DEF len
<1>2. /\ SubSeq(b, 1, len) \in Texts
      /\ T!Newlines(SubSeq(b, 1, len)) = Upto(T!Newlines(b), len)
  BY <1>1, TextCut
<1>3. T!Whole(SubSeq(b, 1, len), b)
  BY <1>1, CutIsWhole
<1> QED
  BY <1>1, <1>2, <1>3 DEF len

\* The stages of Apply: each cuts what the one before left.
LEMMA ApplySays ==
  ASSUME NEW b \in Texts, NEW shape, shape.head \in Nat \cup {None},
         shape.max \in Nat \cup {None}, NEW res, res = T!Apply(shape, b).stdout
  PROVE  /\ T!Whole(res, b) /\ Len(res) \in Nat
         /\ shape.max # None => Len(res) <= shape.max
         /\ shape.head # None => Cardinality(T!Newlines(res)) <= shape.head
         /\ \/ Len(res) = Len(b) \/ shape.head # None \/ shape.jq = "stops"
            \/ \A k \in (Len(res) + 1)..shape.max : ~T!Whole(SubSeq(b, 1, k), b)
<1> DEFINE f == T!JqRun(shape.jq, b)
           h == IF shape.head = None THEN f ELSE SubSeq(f, 1, T!HeadLen(f, shape.head))
           cuts == shape.max # None /\ Len(h) > shape.max
<1>1. res = IF cuts THEN SubSeq(h, 1, T!CharFloor(h, shape.max)) ELSE h
  BY DEF T!Apply
<1>2. PICK all \in Nat : all = Len(b) /\ b \in Seq(T!Bytes)
  BY DEF Texts
<1>3. PICK len \in 0..Len(b) :
        f = SubSeq(b, 1, len) /\ T!Whole(f, b) /\ (shape.jq # "stops" => f = b)
  <2>1. CASE shape.jq = "stops"
    <3>1. T!HeadLen(b, 1) \in 0..Len(b) /\ T!Whole(SubSeq(b, 1, T!HeadLen(b, 1)), b)
      BY HeadLenCuts, HeadStage
    <3> QED
      BY <2>1, <3>1 DEF T!JqRun
  <2>2. CASE shape.jq # "stops"
    <3>1. SubSeq(b, 1, all) = b
      BY <1>2
    <3>2. T!Whole(b, b)
      BY <1>2, <3>1 DEF T!Whole
    <3>3. all \in 0..Len(b)
      BY <1>2
    <3> QED
      BY <2>2, <3>1, <3>2, <3>3 DEF T!JqRun
  <2> QED
    BY <2>1, <2>2
<1>4. f \in Texts /\ Len(f) = len
  BY <1>3, TextCut
<1> HIDE DEF f
<1>5. PICK m \in 0..len :
        /\ h = SubSeq(f, 1, m) /\ T!Whole(h, f) /\ (shape.head = None => h = f)
        /\ shape.head # None => Cardinality(T!Newlines(h)) <= shape.head
  <2>1. CASE shape.head = None
    <3>1. SubSeq(f, 1, len) = f
      BY <1>4 DEF Texts
    <3>2. T!Whole(f, f)
      BY <1>4, <3>1 DEF T!Whole
    <3>3. len \in 0..len
      BY <1>2
    <3> QED
      BY <2>1, <3>1, <3>2, <3>3
  <2>2. CASE shape.head # None
    <3>1. shape.head \in Nat
      BY <2>2
    <3>2. T!HeadLen(f, shape.head) \in 0..len
      BY <1>4, <3>1, HeadLenCuts
    <3>3. h = SubSeq(f, 1, T!HeadLen(f, shape.head))
      BY <2>2
    <3>4. T!Whole(h, f) /\ Cardinality(T!Newlines(h)) <= shape.head
      BY <1>4, <3>1, <3>3, HeadStage
    <3> QED
      BY <2>2, <3>2, <3>3, <3>4
  <2> QED
    BY <2>1, <2>2
<1> HIDE DEF h
<1>6. h \in Texts /\ Len(h) = m /\ m \in Nat /\ m <= all
  <2>1. m \in 0..Len(f) /\ len \in Nat /\ len <= all
    BY <1>2, <1>3, <1>4, <1>5
  <2>2. h \in Texts /\ Len(h) = m
    BY <1>4, <1>5, <2>1, TextCut
  <2> QED
    BY <1>4, <2>1, <2>2
<1>7. T!Whole(h, b) /\ h = SubSeq(b, 1, m) /\ m \in 0..Len(b)
  <2>1. T!Whole(h, b)
    BY <1>3, <1>5, WholeOfWhole
  <2>2. h = SubSeq(b, 1, m)
    BY <1>6, <2>1 DEF T!Whole
  <2>3. m \in 0..Len(b)
    BY <1>2, <1>6
  <2> QED
    BY <2>1, <2>2, <2>3
<1>8. CASE ~cuts
  <2>1. res = h /\ (shape.max # None => Len(h) <= shape.max)
    BY <1>1, <1>6, <1>8
  <2>2. shape.head # None \/ shape.jq = "stops" \/ Len(h) = Len(b)
    BY <1>3, <1>5
  <2> QED
    BY <1>5, <1>6, <1>7, <2>1, <2>2
<1>9. CASE cuts
  <2>1. PICK n \in Nat : n = shape.max /\ n < m
    BY <1>6, <1>9
  <2>2. PICK c \in 0..n : /\ c = T!CharFloor(h, n) /\ h[c + 1] # "rest"
                          /\ \A k \in (c + 1)..n : h[k + 1] = "rest"
    BY <1>6, <2>1, CharFloorCuts
  <2>3. res = SubSeq(h, 1, c) /\ c \in 0..m
    BY <1>1, <1>9, <2>1, <2>2
  <2>4. /\ Len(res) = c /\ T!Newlines(res) = Upto(T!Newlines(h), c)
        /\ T!Whole(res, h)
    BY <1>6, <2>2, <2>3, TextCut, CutIsWhole
  <2>5. T!Whole(res, b)
    BY <1>7, <2>3, <2>4, WholeOfWhole
  <2>6. Len(res) \in Nat /\ Len(res) <= shape.max
    BY <2>1, <2>2, <2>4
  <2>7. shape.head # None => Cardinality(T!Newlines(res)) <= shape.head
    <3>1. T!Newlines(res) \subseteq T!Newlines(h)
      BY <2>4 DEF Upto
    <3>2. IsFiniteSet(T!Newlines(h))
      <4>1. T!Newlines(h) \subseteq 1..m /\ IsFiniteSet(1..m)
        BY <1>6, FS_Interval DEF T!Newlines
      <4> QED
        BY <4>1, FS_Subset
    <3>3. Cardinality(T!Newlines(res)) <= Cardinality(T!Newlines(h))
      BY <3>1, <3>2, FS_Subset
    <3>4. Cardinality(T!Newlines(res)) \in Nat /\ Cardinality(T!Newlines(h)) \in Nat
      BY <3>1, <3>2, FS_Subset, FS_CardinalityType
    <3> QED
      BY <1>5, <3>3, <3>4
  <2>8. \/ shape.head # None \/ shape.jq = "stops"
        \/ \A k \in (Len(res) + 1)..shape.max : ~T!Whole(SubSeq(b, 1, k), b)
    <3> SUFFICES ASSUME shape.head = None, shape.jq # "stops", NEW k \in (c + 1)..n
                 PROVE  ~T!Whole(SubSeq(b, 1, k), b)
      BY <2>1, <2>4
    <3>1. h = b /\ m = all
      BY <1>2, <1>3, <1>5, <1>6
    <3>2. k \in 0..all /\ k # all /\ b[k + 1] = "rest"
      BY <2>1, <2>2, <3>1
    <3>3. Len(SubSeq(b, 1, k)) = k
      BY <1>2, <3>2, TextCut
    <3> QED
      BY <1>2, <3>2, <3>3 DEF T!Whole
  <2> QED
    BY <2>5, <2>6, <2>7, <2>8
<1> QED
  BY <1>8, <1>9

\* A command that dialed: what it came to, and what it says of it.
LEMMA CallCmdSays ==
  ASSUME NEW c \in Commands, NEW o \in Outcomes, NEW r, r = T!CallCmd(c, o), r.dialed,
         o.is # "unreached"
  PROVE  /\ r.cmd = c /\ r.outcome = o
         /\ \/ o.is = "denied" /\ r.code = T!EXIT_DENIED
            \/ /\ o.is = "exited" /\ r.stdout = T!Apply(c.shape, o.stdout).stdout
               /\ r.code = T!ExitCode(T!OwnExit(o.exit), T!Apply(c.shape, o.stdout))
<1> DEFINE Ends(code, dialed, stdout, forwarded) ==
             [cmd |-> c, outcome |-> o, code |-> code, dialed |-> dialed, stdout |-> stdout,
              forwarded |-> forwarded]
           shaped == T!Apply(c.shape, o.stdout)
<1>1. o.is \in {"denied", "exited"}
  BY CallsAssumption DEF T!ToolsAssumption
<1>2. \E fwd :
        \/ \E code : r = Ends(code, FALSE, <<>>, fwd)
        \/ o.is = "denied" /\ r = Ends(T!EXIT_DENIED, TRUE, <<>>, fwd)
        \/ /\ o.is = "exited"
           /\ r = Ends(T!ExitCode(T!OwnExit(o.exit), shaped), TRUE, shaped.stdout, fwd)
  BY <1>1 DEF T!CallCmd
<1> QED
  BY <1>2

LEMMA ExitSays ==
  ASSUME NEW exit \in Nat, NEW shape, NEW b, NEW code,
         code = T!ExitCode(T!OwnExit(exit), T!Apply(shape, b))
  PROVE  /\ code # T!EXIT_DENIED
         /\ exit = 0 => ((code = 0) <=> (shape.jq # "stops"))
         /\ exit # 0 => code = T!OwnExit(exit)
<1>1. T!Apply(shape, b).error <=> shape.jq = "stops"
  BY DEF T!Apply
<1> QED
  BY <1>1 DEF T!ExitCode, T!OwnExit, T!EXIT_DENIED, T!EXIT_SHAPE

\* The last `wires call` is one that was made, to an end it could have.
RanWasMade ==
  ran # None => \E c \in Commands, o \in Outcomes : ran = T!CallCmd(c, o)

LEMMA RanSays == RanWasMade => T!SaysWhatHappened
<1> SUFFICES ASSUME RanWasMade, ran # None, ran.dialed, ran.outcome.is # "unreached"
             PROVE  LET shape == ran.cmd.shape
                        sent  == ran.outcome.stdout
                        size  == Len(ran.stdout)
                    IN /\ (ran.code = T!EXIT_DENIED) <=> (ran.outcome.is = "denied")
                       /\ ran.outcome.is = "exited" =>
                            /\ T!Whole(ran.stdout, sent)
                            /\ shape.max # None => size <= shape.max
                            /\ shape.head # None =>
                                 T!Cardinality(T!Newlines(ran.stdout)) <= shape.head
                            /\ \/ size = Len(sent) \/ shape.head # None \/ shape.jq = "stops"
                               \/ \A k \in (size + 1)..shape.max :
                                    ~T!Whole(SubSeq(sent, 1, k), sent)
                            /\ IF ran.outcome.exit = 0
                               THEN (ran.code = 0) <=> (shape.jq # "stops")
                               ELSE ran.code = T!OwnExit(ran.outcome.exit)
  BY DEF T!SaysWhatHappened
<1>1. PICK c \in Commands, o \in Outcomes : ran = T!CallCmd(c, o)
  BY DEF RanWasMade
<1>2. ran.outcome = o
  BY <1>1 DEF T!CallCmd
<1>3. /\ ran.cmd = c
      /\ \/ o.is = "denied" /\ ran.code = T!EXIT_DENIED
         \/ /\ o.is = "exited" /\ ran.stdout = T!Apply(c.shape, o.stdout).stdout
            /\ ran.code = T!ExitCode(T!OwnExit(o.exit), T!Apply(c.shape, o.stdout))
  BY <1>1, <1>2, CallCmdSays
<1>4. CASE o.is = "denied"
  BY <1>2, <1>3, <1>4
<1>5. CASE o.is = "exited"
  <2>1. /\ ran.stdout = T!Apply(c.shape, o.stdout).stdout
        /\ ran.code = T!ExitCode(T!OwnExit(o.exit), T!Apply(c.shape, o.stdout))
    BY <1>3, <1>5
  <2>2. o.stdout \in Texts /\ o.exit \in Nat
    BY <1>5, CallsAssumption DEF T!ToolsAssumption, Texts
  <2>3. c.shape.head \in Nat \cup {None} /\ c.shape.max \in Nat \cup {None}
    BY CallsAssumption DEF T!ToolsAssumption
  <2>4. /\ T!Whole(ran.stdout, o.stdout)
        /\ c.shape.max # None => Len(ran.stdout) <= c.shape.max
        /\ c.shape.head # None => Cardinality(T!Newlines(ran.stdout)) <= c.shape.head
        /\ \/ Len(ran.stdout) = Len(o.stdout) \/ c.shape.head # None \/ c.shape.jq = "stops"
           \/ \A k \in (Len(ran.stdout) + 1)..c.shape.max :
                ~T!Whole(SubSeq(o.stdout, 1, k), o.stdout)
    BY <2>1, <2>2, <2>3, ApplySays
  <2>5. /\ ran.code # T!EXIT_DENIED
        /\ o.exit = 0 => ((ran.code = 0) <=> (c.shape.jq # "stops"))
        /\ o.exit # 0 => ran.code = T!OwnExit(o.exit)
    BY <2>1, <2>2, ExitSays
  <2> QED
    BY <1>2, <1>3, <1>5, <2>4, <2>5, SameCardinality
<1> QED
  BY <1>3, <1>4, <1>5

LEMMA RanStepInv == RanWasMade /\ [T!Next]_(T!vars) => RanWasMade'
<1>1. [T!Next]_(T!vars) => ran' = ran \/ T!Call
  BY DEF T!Next, T!vars, T!Grant, T!Poll, T!MapView, T!TakeTools, T!HandleLine, T!CallEnds,
         T!Writes, T!Closes
<1>2. T!Call => RanWasMade'
  BY DEF T!Call, RanWasMade
<1> QED
  BY <1>1, <1>2 DEF RanWasMade

-----------------------------------------------------------------------------
(* What MCCalls tells, whichever part of it moves. *)

LEMMA ToolsPart ==
  [MCNext]_<<allVars, called, served, commanded, part>> => [T!Next]_(T!vars)
<1> SUFFICES ASSUME [MCNext]_<<allVars, called, served, commanded, part>>
             PROVE  T!Next \/ UNCHANGED served
  BY DEF served, T!vars
<1> QED
  BY DEF MCNext

LEMMA CommandsPart ==
  [MCNext]_<<allVars, called, served, commanded, part>> => [W!Next]_(W!vars)
<1> SUFFICES ASSUME [MCNext]_<<allVars, called, served, commanded, part>>
             PROVE  W!Next \/ UNCHANGED commanded
  BY DEF commanded, W!vars
<1> QED
  BY DEF MCNext

\* For any views, lines and thresholds, however the edits, the poll, the mapper and
\* the client interleave: a client whose last list of tools is not what the poll saw
\* has been told so, or a newer view is on its way to it (mcp.rs: serve_following).
THEOREM ChangesAreTold == MCSpec => []ToldOfChanges
<1>1. MCInit => ToolsInv
  BY InitToolsInv DEF MCInit
<1>2. ToolsInv /\ [MCNext]_<<allVars, called, served, commanded, part>> => ToolsInv'
  BY ToolsPart, ToolsStepInv
<1>3. ToolsInv => ToldOfChanges
  BY ToolsInvTells DEF ToldOfChanges
<1> QED
  BY <1>1, <1>2, <1>3, PTL DEF MCSpec

\* For any of them, any output that is text, and any commands, calls and policies:
\* each request of a client has one reply, in order; `wires call` prints whole
\* characters and as many as fit, and exits 77 only where the host refused (mcp.rs,
\* shape.rs, call.rs); and a push's command exits with what became of its message,
\* which only the caller of its call can have (push.rs, control.rs).
THEOREM WhatIsToldIsTrue == MCSpec => []RepliesAreTrue
<1> DEFINE AllInv == ToolsInv /\ RanWasMade /\ CommandsInv
<1>1. MCInit => AllInv
  <2>1. T!Init => RanWasMade
    BY DEF T!Init, RanWasMade
  <2> QED
    BY <2>1, InitToolsInv, InitCommandsInv DEF MCInit
<1>2. AllInv /\ [MCNext]_<<allVars, called, served, commanded, part>> => AllInv'
  BY ToolsPart, CommandsPart, ToolsStepInv, RanStepInv, CommandsStepInv
<1>3. AllInv => RepliesAreTrue
  BY RanSays, CommandsInvTells DEF ToolsInv, RepliesAreTrue, T!RepliesAreTrue
<1> QED
  BY <1>1, <1>2, <1>3, PTL DEF MCSpec
=============================================================================
