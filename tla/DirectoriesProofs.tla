-------------------------- MODULE DirectoriesProofs --------------------------
(***************************************************************************)
(* Theorems about Directories, for every network, clock and bound.         *)
(*                                                                         *)
(* Inv is inductive: a directory's store covers the head it serves, that   *)
(* head covers every word it ever announced, and one writer at a time      *)
(* holds what it is about to announce; who holds policy.json.lock holds a  *)
(* head still newer than the file.                                         *)
(***************************************************************************)
EXTENDS Directories, TLAPS

-----------------------------------------------------------------------------
(* The order of heads, and the words signed for them. *)

LEMMA CoversTransitive ==
  ASSUME NEW f \in Heads \cup {NoHead}, NEW g \in Heads \cup {NoHead},
         NEW h \in Heads \cup {NoHead}, Covers(h, g), Covers(g, f)
  PROVE  Covers(h, f)
BY DEF Covers, IsNewer, Heads, NoHead

LEMMA NewerCovers ==
  ASSUME NEW f \in Heads \cup {NoHead}, NEW g \in Heads \cup {NoHead},
         NEW h \in Heads \cup {NoHead}, IsNewer(h, g), Covers(g, f)
  PROVE  Covers(h, f)
BY CoversTransitive DEF Covers

LEMMA NextHeadIsNewer ==
  ASSUME NEW base \in Heads, NEW ds \in SUBSET Nodes, NEW hs \in SUBSET Hosts,
         NEW t \in Nat
  PROVE  /\ NextHead(base, ds, hs, t) \in Heads
         /\ IsNewer(NextHead(base, ds, hs, t), base)
BY PoliciesAssumption DEF NextHead, Heads, IsNewer

LEMMA SignFreshIsForItsHead ==
  ASSUME NEW d \in Nodes, NEW h \in Heads \cup {NoHead}, NEW t \in Nat
  PROVE  /\ SignFresh(d, h, t) \subseteq Words
         /\ \A w \in SignFresh(d, h, t) : w.directory = d /\ w.head = h
BY PoliciesAssumption DEF SignFresh, WordOf, Words, Heads, NoHead

LEMMA ClockIsNat == TypeOK => \A n \in Nodes : Clock(n) \in Nat
BY PoliciesAssumption DEF TypeOK, Clock

LEMMA NoBeatHasNoWords == NoBeat.fresh = {} /\ NoBeat.head = NoHead
BY DEF NoBeat

\* While nobody touches policy.json or its lock, a comparison stays true.
LEMMA StoresFrame ==
  ASSUME Inv, UNCHANGED <<disk, storing>>, signed \subseteq signed'
  PROVE  StoresWhatIsNewer'
BY DEF Inv, StoresWhatIsNewer

-----------------------------------------------------------------------------
(* Inv holds at first, and every step keeps it. *)

LEMMA InitInv == Init => Inv
<1> SUFFICES ASSUME Init PROVE Inv
  OBVIOUS
<1>1. TypeOK
  BY PoliciesAssumption DEF Init, TypeOK, FirstHead, NoBeat, Heads, NoHead
<1>2. ServesWhatItStored /\ HeldCoversWords /\ DownHoldsNothing
  BY DEF Init, ServesWhatItStored, HeldCoversWords, DownHoldsNothing
<1>3. CopiesAreSigned
  BY DEF Init, CopiesAreSigned, Covers
<1>4. OneWriter /\ StoresWhatIsNewer
  BY DEF Init, OneWriter, NoBeat, StoresWhatIsNewer
<1> QED
  BY <1>1, <1>2, <1>3, <1>4 DEF Inv

\* Time only forgets words, and lets what was signed before stay so.
LEMMA TickInv == Inv /\ Tick => Inv'
<1> SUFFICES ASSUME Inv, Tick PROVE Inv'
  OBVIOUS
<1> USE DEF Inv
<1>1. /\ now' = now + 1 /\ words' \subseteq words
      /\ UNCHANGED <<signed, admin, string, disk, serving, mem, fresh, beating, accepting,
                     storing>>
  BY DEF Tick, Remembered
<1>2. TypeOK'
  BY <1>1 DEF TypeOK
<1>3. ServesWhatItStored' /\ CopiesAreSigned' /\ DownHoldsNothing'
  BY <1>1 DEF ServesWhatItStored, CopiesAreSigned, DownHoldsNothing
<1>4. HeldCoversWords'
  BY <1>1 DEF HeldCoversWords, Held
<1>5. OneWriter'
  <2> SUFFICES ASSUME NEW n \in Nodes
               PROVE  /\ beating[n] = NoBeat \/ accepting[n] = {}
                      /\ beating[n].fresh = {} \/ \E at \in 0 .. Clock(n)' :
                           beating[n].fresh = SignFresh(n, beating[n].head, at)
                      /\ accepting[n] = {} \/ \E at \in 0 .. Clock(n)' : accepting[n] = {at}
    BY <1>1 DEF OneWriter
  <2>1. 0 .. Clock(n) \subseteq 0 .. Clock(n)'
    BY <1>1, ClockIsNat, PoliciesAssumption DEF Clock, TypeOK
  <2> QED
    BY <2>1 DEF OneWriter
<1>9. StoresWhatIsNewer'
  BY <1>1, StoresFrame
<1> QED
  BY <1>2, <1>3, <1>4, <1>5, <1>9

\* What the admin does to its own copy.
LEMMA SignInv ==
  ASSUME Inv, NEW ds \in SUBSET Nodes, NEW hs \in SUBSET Hosts, Sign(ds, hs)
  PROVE  Inv'
<1> USE DEF Inv
<1>1. /\ admin' = NextHead(admin, ds, hs, now) /\ signed' = signed \cup {admin'}
      /\ UNCHANGED <<now, string, disk, serving, mem, fresh, beating, accepting, storing,
                     words>>
  BY DEF Sign
<1>2. admin' \in Heads /\ IsNewer(admin', admin)
  BY <1>1, NextHeadIsNewer DEF TypeOK
<1>3. TypeOK'
  BY <1>1, <1>2 DEF TypeOK
<1>4. ServesWhatItStored' /\ HeldCoversWords' /\ DownHoldsNothing' /\ OneWriter'
  BY <1>1 DEF ServesWhatItStored, HeldCoversWords, Held, DownHoldsNothing, OneWriter, Clock
<1>5. CopiesAreSigned'
  <2>1. \A h \in signed : Covers(admin, h) => Covers(admin', h)
    BY <1>2, NewerCovers DEF TypeOK
  <2> QED
    BY <1>1, <2>1 DEF CopiesAreSigned, Covers
<1>9. StoresWhatIsNewer'
  BY <1>1, StoresFrame
<1> QED
  BY <1>3, <1>4, <1>5, <1>9

LEMMA EditInv == Inv /\ Edit => Inv'
<1> SUFFICES ASSUME Inv, Edit PROVE Inv'
  OBVIOUS
<1>1. admin.directories \subseteq Nodes /\ admin.hosts \subseteq Hosts
  BY DEF Inv, TypeOK, Heads
<1>2. ASSUME NEW n \in Nodes, AddDirectory(n) \/ RemoveDirectory(n)
      PROVE  \E ds \in SUBSET Nodes, hs \in SUBSET Hosts : Sign(ds, hs)
  BY <1>1, <1>2 DEF AddDirectory, RemoveDirectory
<1>3. ASSUME NEW n \in Hosts, AssignHost(n) \/ UnassignHost(n) \/ RemoveNode(n)
      PROVE  \E ds \in SUBSET Nodes, hs \in SUBSET Hosts : Sign(ds, hs)
  BY <1>1, <1>3 DEF AssignHost, UnassignHost, RemoveNode
<1> QED
  BY <1>2, <1>3, SignInv DEF Edit

LEMMA RecoverAdminInv == ASSUME Inv, NEW n \in Nodes, RecoverAdmin(n) PROVE Inv'
<1> USE DEF Inv
<1>1. /\ admin' = disk[n] /\ disk[n] # NoHead /\ CanLoseAdmin
      /\ UNCHANGED <<now, signed, string, disk, serving, mem, fresh, beating, accepting,
                     storing, words>>
  BY DEF RecoverAdmin
<1>2. TypeOK' /\ CopiesAreSigned'
  BY <1>1 DEF TypeOK, CopiesAreSigned
<1>3. ServesWhatItStored' /\ HeldCoversWords' /\ DownHoldsNothing' /\ OneWriter'
  BY <1>1 DEF ServesWhatItStored, HeldCoversWords, Held, DownHoldsNothing, OneWriter, Clock
<1>9. StoresWhatIsNewer'
  BY <1>1, StoresFrame
<1> QED
  BY <1>2, <1>3, <1>9

LEMMA JoinInv == ASSUME Inv, NEW n \in Nodes, Join(n) PROVE Inv'
<1> USE DEF Inv
<1>1. UNCHANGED <<now, signed, admin, disk, serving, mem, fresh, beating, accepting, storing,
                  words>>
  BY DEF Join
<1>2. string' \in [Nodes -> SUBSET Nodes]
  BY DEF Join, NetworkString, TypeOK, Heads
<1>3. ServesWhatItStored' /\ HeldCoversWords' /\ CopiesAreSigned' /\ DownHoldsNothing' /\ OneWriter'
  BY <1>1 DEF ServesWhatItStored, HeldCoversWords, Held, CopiesAreSigned, DownHoldsNothing,
              OneWriter, Clock
<1>9. StoresWhatIsNewer'
  BY <1>1, StoresFrame
<1> QED
  BY <1>1, <1>2, <1>3, <1>9 DEF TypeOK

-----------------------------------------------------------------------------
(* What directory n does.  Steady says that the admin's part stands still; *)
(* each lemma looks at n alone, since the other nodes' parts do.           *)

LEMMA StartInv == ASSUME Inv, NEW n \in Nodes, Start(n) PROVE Inv'
<1> USE DEF Inv
<1> DEFINE signs == SignFresh(n, disk[n], Clock(n))
<1>1. /\ ~serving[n]
      /\ fresh' = [fresh EXCEPT ![n] = signs]
      /\ words' = words \cup signs
      /\ mem' = [mem EXCEPT ![n] = disk[n]]
      /\ serving' = [serving EXCEPT ![n] = TRUE]
      /\ UNCHANGED <<disk, beating, accepting, now, signed, admin, string, storing>>
  BY DEF Start, Steady
<1>2. signs \subseteq Words /\ \A w \in signs : w.directory = n /\ w.head = disk[n]
  BY ClockIsNat, SignFreshIsForItsHead DEF TypeOK
<1> HIDE DEF signs
<1>3. TypeOK'
  BY <1>1, <1>2 DEF TypeOK
<1>4. ServesWhatItStored'
  BY <1>1, <1>2 DEF ServesWhatItStored, DownHoldsNothing, TypeOK, Covers
<1>5. HeldCoversWords'
  BY <1>1, <1>2 DEF HeldCoversWords, Held, TypeOK, Covers, Words
<1>6. CopiesAreSigned' /\ DownHoldsNothing' /\ OneWriter'
  BY <1>1 DEF CopiesAreSigned, DownHoldsNothing, OneWriter, TypeOK, Clock
<1>9. StoresWhatIsNewer'
  BY <1>1, StoresFrame
<1> QED
  BY <1>3, <1>4, <1>5, <1>6, <1>9

LEMMA BeginBeatInv == ASSUME Inv, NEW n \in Nodes, BeginBeat(n) PROVE Inv'
<1> USE DEF Inv
<1> DEFINE signs == SignFresh(n, mem[n], Clock(n))
<1>1. /\ serving[n] /\ accepting[n] = {}
      /\ beating' = [beating EXCEPT ![n] = [head |-> mem[n], fresh |-> signs]]
      /\ UNCHANGED <<disk, serving, mem, fresh, accepting, words, now, signed, admin, string, storing>>
  BY DEF BeginBeat, LockFree, Steady
<1>2. signs \subseteq Words
  BY ClockIsNat, SignFreshIsForItsHead DEF TypeOK
<1>3. TypeOK'
  <2> HIDE DEF signs
  <2> QED
    BY <1>1, <1>2 DEF TypeOK
<1>4. ServesWhatItStored' /\ HeldCoversWords' /\ CopiesAreSigned' /\ DownHoldsNothing'
  <2> HIDE DEF signs
  <2> QED
    BY <1>1 DEF ServesWhatItStored, HeldCoversWords, Held, CopiesAreSigned, DownHoldsNothing, TypeOK
<1>5. OneWriter'
  <2> SUFFICES ASSUME NEW m \in Nodes PROVE OneWriter!(m)'
    BY DEF OneWriter
  <2>1. CASE m = n
    BY <1>1, <2>1, ClockIsNat DEF TypeOK, Clock
  <2>2. CASE m # n
    BY <1>1, <2>2 DEF OneWriter, TypeOK, Clock
  <2> QED
    BY <2>1, <2>2
<1>9. StoresWhatIsNewer'
  BY <1>1, StoresFrame
<1> QED
  BY <1>3, <1>4, <1>5, <1>9

LEMMA AnnounceBeatInv == ASSUME Inv, NEW n \in Nodes, AnnounceBeat(n) PROVE Inv'
<1> USE DEF Inv
<1> DEFINE signs == beating[n].fresh
<1>1. /\ beating[n] # NoBeat
      /\ mem' = [mem EXCEPT ![n] = beating[n].head]
      /\ fresh' = [fresh EXCEPT ![n] = signs]
      /\ words' = words \cup signs
      /\ beating' = [beating EXCEPT ![n] = NoBeat]
      /\ UNCHANGED <<disk, serving, accepting, now, signed, admin, string, storing>>
  BY DEF AnnounceBeat, Steady
<1>2. serving[n] /\ beating[n].head = mem[n]
  BY <1>1 DEF DownHoldsNothing, ServesWhatItStored
<1>3. mem' = mem
  BY <1>1, <1>2 DEF TypeOK
<1>4. signs \subseteq Words /\ \A w \in signs : w.directory = n /\ w.head = mem[n]
  <2>1. CASE signs = {}
    BY <2>1
  <2>2. CASE signs # {}
    <3>1. PICK at \in 0 .. Clock(n) : signs = SignFresh(n, mem[n], at)
      BY <1>2, <2>2 DEF OneWriter
    <3>2. at \in Nat /\ mem[n] \in Heads \cup {NoHead}
      BY ClockIsNat DEF TypeOK
    <3> QED
      BY <3>1, <3>2, SignFreshIsForItsHead
  <2> QED
    BY <2>1, <2>2
<1> HIDE DEF signs
<1>5. TypeOK'
  BY <1>1, <1>3, <1>4 DEF TypeOK, NoBeat
<1>6. ServesWhatItStored'
  BY <1>1, <1>2, <1>3, <1>4 DEF ServesWhatItStored, TypeOK
<1>7. HeldCoversWords'
  BY <1>1, <1>2, <1>3, <1>4 DEF HeldCoversWords, Held, Covers
<1>8. CopiesAreSigned' /\ DownHoldsNothing' /\ OneWriter'
  <2>1. CopiesAreSigned' /\ DownHoldsNothing'
    BY <1>1, <1>2, <1>3 DEF CopiesAreSigned, DownHoldsNothing, TypeOK
  <2>2. OneWriter'
    BY <1>1, NoBeatHasNoWords DEF OneWriter, TypeOK, Clock
  <2> QED
    BY <2>1, <2>2
<1>9. StoresWhatIsNewer'
  BY <1>1, StoresFrame
<1> QED
  BY <1>5, <1>6, <1>7, <1>8, <1>9

LEMMA BeginAcceptInv ==
  ASSUME Inv, NEW n \in Nodes, NEW h \in signed, BeginAccept(n, h)
  PROVE  Inv'
<1> USE DEF Inv
<1>1. /\ serving[n] /\ beating[n] = NoBeat /\ storing[n] = {}
      /\ disk' = IF IsNewer(h, disk[n]) THEN [disk EXCEPT ![n] = h] ELSE disk
      /\ accepting' = [accepting EXCEPT ![n] = {Clock(n)}]
      /\ UNCHANGED <<serving, mem, fresh, beating, words, now, signed, admin, string, storing>>
  BY DEF BeginAccept, LockFree, FileFree, Steady
<1>2. Clock(n) \in Nat /\ Clock(n)' = Clock(n)
  BY <1>1, ClockIsNat DEF Clock
<1>3. TypeOK'
  BY <1>1, <1>2 DEF TypeOK
<1>4. \A m \in Nodes : Covers(disk'[m], disk[m]) /\ disk'[m] \in Heads \cup {NoHead}
  BY <1>1 DEF TypeOK, Covers
<1>5. ServesWhatItStored'
  BY <1>1, <1>4, CoversTransitive DEF ServesWhatItStored, TypeOK
<1>6. HeldCoversWords' /\ CopiesAreSigned' /\ DownHoldsNothing'
  <2>1. \A w \in words : w.directory \in Nodes /\ w.head \in Heads
    BY DEF TypeOK, Words
  <2>2. \A w \in words : Covers(Held(w.directory)', w.head)
    BY <1>1, <1>4, <2>1, CoversTransitive DEF HeldCoversWords, Held, TypeOK
  <2> QED
    BY <1>1, <2>2 DEF HeldCoversWords, CopiesAreSigned, DownHoldsNothing, TypeOK
<1>7. OneWriter'
  <2>1. \E at \in 0 .. Clock(n) : accepting'[n] = {at}
    BY <1>1, <1>2 DEF TypeOK
  <2> QED
    BY <1>1, <2>1, NoBeatHasNoWords DEF OneWriter, TypeOK, Clock
<1>8. StoresWhatIsNewer'
  BY <1>1 DEF StoresWhatIsNewer, TypeOK
<1> QED
  BY <1>3, <1>5, <1>6, <1>7, <1>8

LEMMA AnnounceAcceptedInv == ASSUME Inv, NEW n \in Nodes, AnnounceAccepted(n) PROVE Inv'
<1> USE DEF Inv
<1>1. /\ accepting[n] # {} /\ accepting' = [accepting EXCEPT ![n] = {}]
      /\ UNCHANGED <<disk, serving, beating, now, signed, admin, string, storing>>
  BY DEF AnnounceAccepted, Steady
<1>2. serving[n] /\ beating[n] = NoBeat
  BY <1>1 DEF DownHoldsNothing, OneWriter
<1>3. StoresWhatIsNewer'
  BY <1>1, StoresFrame
<1>4. CASE ~IsNewer(disk[n], mem[n])
  <2>1. UNCHANGED <<mem, fresh, words>>
    BY <1>4 DEF AnnounceAccepted
  <2>2. TypeOK' /\ ServesWhatItStored' /\ HeldCoversWords' /\ CopiesAreSigned'
    BY <1>1, <2>1 DEF TypeOK, ServesWhatItStored, HeldCoversWords, Held, CopiesAreSigned
  <2>3. DownHoldsNothing' /\ OneWriter'
    BY <1>1, <1>2, <2>1 DEF DownHoldsNothing, OneWriter, TypeOK, Clock
  <2> QED
    BY <1>3, <2>2, <2>3
<1>5. CASE IsNewer(disk[n], mem[n])
  <2>1. PICK t \in accepting[n] :
           /\ mem' = [mem EXCEPT ![n] = disk[n]]
           /\ fresh' = [fresh EXCEPT ![n] = SignFresh(n, disk[n], t)]
           /\ words' = words \cup SignFresh(n, disk[n], t)
    BY <1>5 DEF AnnounceAccepted
  <2> DEFINE signs == SignFresh(n, disk[n], t)
  <2>2. signs \subseteq Words /\ \A w \in signs : w.directory = n /\ w.head = disk[n]
    BY SignFreshIsForItsHead DEF TypeOK
  <2>3. /\ mem' = [mem EXCEPT ![n] = disk[n]]
        /\ fresh' = [fresh EXCEPT ![n] = signs]
        /\ words' = words \cup signs
    BY <2>1
  <2> HIDE DEF signs
  <2>4. TypeOK'
    BY <1>1, <2>2, <2>3 DEF TypeOK
  <2>5. ServesWhatItStored'
    BY <1>1, <1>2, <2>2, <2>3 DEF ServesWhatItStored, TypeOK, Covers
  <2>6. HeldCoversWords'
    <3>1. ASSUME NEW w \in words PROVE Covers(Held(w.directory)', w.head)
      <4>1. w.directory \in Nodes /\ w.head \in Heads
        BY DEF TypeOK, Words
      <4> QED
        BY <1>1, <1>2, <1>5, <2>3, <4>1, NewerCovers DEF HeldCoversWords, Held, TypeOK
    <3>2. ASSUME NEW w \in signs PROVE Covers(Held(w.directory)', w.head)
      BY <1>1, <1>2, <2>2, <2>3 DEF Held, TypeOK, Covers
    <3> QED
      BY <2>3, <3>1, <3>2 DEF HeldCoversWords
  <2>7. CopiesAreSigned' /\ DownHoldsNothing' /\ OneWriter'
    <3>1. CopiesAreSigned'
      BY <1>1, <2>3 DEF CopiesAreSigned, TypeOK
    <3>2. DownHoldsNothing'
      BY <1>1, <1>2, <2>3 DEF DownHoldsNothing, TypeOK
    <3>3. UNCHANGED <<beating, now>> /\ \A m \in Nodes : accepting'[m] \in {accepting[m], {}}
      BY <1>1 DEF TypeOK
    <3>4. OneWriter'
      BY <3>3 DEF OneWriter, Clock
    <3> QED
      BY <3>1, <3>2, <3>4
  <2> QED
    BY <1>3, <2>4, <2>5, <2>6, <2>7
<1> QED
  BY <1>4, <1>5

LEMMA CrashInv == ASSUME Inv, NEW n \in Nodes, Crash(n) PROVE Inv'
<1> USE DEF Inv
<1>1. /\ serving[n]
      /\ serving' = [serving EXCEPT ![n] = FALSE]
      /\ mem' = [mem EXCEPT ![n] = NoHead]
      /\ fresh' = [fresh EXCEPT ![n] = {}]
      /\ beating' = [beating EXCEPT ![n] = NoBeat]
      /\ accepting' = [accepting EXCEPT ![n] = {}]
      /\ UNCHANGED <<disk, words, now, signed, admin, string, storing>>
  BY DEF Crash, Steady
<1>2. TypeOK'
  BY <1>1 DEF TypeOK, NoBeat
<1>3. ServesWhatItStored' /\ CopiesAreSigned' /\ DownHoldsNothing'
  BY <1>1 DEF ServesWhatItStored, CopiesAreSigned, DownHoldsNothing, TypeOK
<1>4. HeldCoversWords'
  <2> SUFFICES ASSUME NEW w \in words PROVE Covers(Held(w.directory)', w.head)
    BY <1>1 DEF HeldCoversWords
  <2>1. w.directory \in Nodes /\ w.head \in Heads
    BY DEF TypeOK, Words
  <2> QED
    BY <1>1, <2>1, CoversTransitive DEF HeldCoversWords, ServesWhatItStored, Held, TypeOK
<1>5. OneWriter'
  BY <1>1, NoBeatHasNoWords DEF OneWriter, TypeOK, Clock
<1>9. StoresWhatIsNewer'
  BY <1>1, StoresFrame
<1> QED
  BY <1>2, <1>3, <1>4, <1>5, <1>9

\* The three steps of another process under policy.json.lock.
LEMMA BeginAdoptInv ==
  ASSUME Inv, NEW n \in Nodes, NEW h \in signed, BeginAdopt(n, h)
  PROVE  Inv'
<1> USE DEF Inv
<1>1. /\ IsNewer(h, disk[n]) /\ storing' = [storing EXCEPT ![n] = {h}]
      /\ UNCHANGED <<now, signed, admin, string, disk, serving, mem, fresh, beating,
                     accepting, words>>
  BY DEF BeginAdopt
<1>2. TypeOK' /\ StoresWhatIsNewer'
  BY <1>1 DEF TypeOK, StoresWhatIsNewer
<1>3. /\ ServesWhatItStored' /\ HeldCoversWords' /\ CopiesAreSigned' /\ DownHoldsNothing'
      /\ OneWriter'
  BY <1>1 DEF ServesWhatItStored, HeldCoversWords, Held, CopiesAreSigned, DownHoldsNothing,
              OneWriter, Clock
<1> QED
  BY <1>2, <1>3

LEMMA AbandonAdoptInv == ASSUME Inv, NEW n \in Nodes, AbandonAdopt(n) PROVE Inv'
<1> USE DEF Inv
<1>1. /\ storing' = [storing EXCEPT ![n] = {}]
      /\ UNCHANGED <<now, signed, admin, string, disk, serving, mem, fresh, beating,
                     accepting, words>>
  BY DEF AbandonAdopt
<1>2. TypeOK' /\ StoresWhatIsNewer'
  BY <1>1 DEF TypeOK, StoresWhatIsNewer
<1>3. /\ ServesWhatItStored' /\ HeldCoversWords' /\ CopiesAreSigned' /\ DownHoldsNothing'
      /\ OneWriter'
  BY <1>1 DEF ServesWhatItStored, HeldCoversWords, Held, CopiesAreSigned, DownHoldsNothing,
              OneWriter, Clock
<1> QED
  BY <1>2, <1>3

LEMMA EndAdoptInv == ASSUME Inv, NEW n \in Nodes, EndAdopt(n) PROVE Inv'
<1> USE DEF Inv
<1>1. PICK h \in storing[n] : disk' = [disk EXCEPT ![n] = h]
  BY DEF EndAdopt
<1>2. /\ storing' = [storing EXCEPT ![n] = {}]
      /\ UNCHANGED <<now, signed, admin, string, serving, mem, fresh, beating, accepting, words>>
  BY DEF EndAdopt
<1>3. h \in signed /\ IsNewer(h, disk[n])
  BY DEF StoresWhatIsNewer
<1>4. \A m \in Nodes : Covers(disk'[m], disk[m]) /\ disk'[m] \in Heads \cup {NoHead}
  BY <1>1, <1>3 DEF TypeOK, Covers
<1>5. TypeOK' /\ CopiesAreSigned' /\ DownHoldsNothing' /\ OneWriter'
  BY <1>1, <1>2, <1>3 DEF TypeOK, CopiesAreSigned, DownHoldsNothing, OneWriter, Clock
<1>6. ServesWhatItStored'
  BY <1>2, <1>4, CoversTransitive DEF ServesWhatItStored, TypeOK
<1>7. HeldCoversWords'
  <2>1. \A w \in words : w.directory \in Nodes /\ w.head \in Heads
    BY DEF TypeOK, Words
  <2> QED
    BY <1>2, <1>4, <2>1, CoversTransitive DEF HeldCoversWords, Held, TypeOK
<1>8. StoresWhatIsNewer'
  BY <1>1, <1>2 DEF StoresWhatIsNewer, TypeOK
<1> QED
  BY <1>5, <1>6, <1>7, <1>8

LEMMA StutterInv == Inv /\ UNCHANGED vars => Inv'
BY DEF vars, Inv, TypeOK, ServesWhatItStored, HeldCoversWords, Held, CopiesAreSigned,
       DownHoldsNothing, OneWriter, StoresWhatIsNewer, Clock

\* Inv is inductive: one lemma for each action of Next.
LEMMA StepInv == Inv /\ [Next]_vars => Inv'
<1> SUFFICES ASSUME Inv, Next PROVE Inv'
  BY StutterInv
<1>1. CASE Tick
  BY <1>1, TickInv
<1>2. CASE Edit
  BY <1>2, EditInv
<1>3. ASSUME NEW n \in Nodes, RecoverAdmin(n) \/ Join(n) PROVE Inv'
  BY <1>3, RecoverAdminInv, JoinInv
<1>4. ASSUME NEW n \in Nodes, Run(n) PROVE Inv'
  BY <1>4, StartInv, BeginBeatInv, AnnounceBeatInv, BeginAcceptInv, AnnounceAcceptedInv,
     CrashInv, BeginAdoptInv, EndAdoptInv, AbandonAdoptInv DEF Run
<1> QED
  BY <1>1, <1>2, <1>3, <1>4 DEF Next

-----------------------------------------------------------------------------
(* Theorems. *)

\* Every reachable state of the admin and the directories (Directory::accept,
\* beat, open; edit_policy; adopt_if_newer) satisfies the inductive invariant,
\* its type invariant included.
THEOREM Invariance == Spec => []Inv
BY InitInv, StepInv, PTL DEF Spec

\* What a running directory serves is what it stored, whatever its two-step
\* accepts and beats interleave with.
THEOREM ServingIsStored == Spec => []ServesWhatItStored
<1>1. Inv => ServesWhatItStored
  BY DEF Inv
<1> QED
  BY <1>1, Invariance, PTL

\* accept stores before it announces: a crash between two steps loses no head
\* a directory vouched for.
THEOREM StoreCoversEveryWord == Spec => []StoreCoversWords
<1>1. Inv => StoreCoversWords
  <2> SUFFICES ASSUME Inv, NEW w \in words PROVE Covers(disk[w.directory], w.head)
    BY DEF StoreCoversWords
  <2>1. w.directory \in Nodes /\ w.head \in Heads
    BY DEF Inv, TypeOK, Words
  <2> QED
    BY <2>1, CoversTransitive DEF Inv, HeldCoversWords, ServesWhatItStored, Held, TypeOK
<1> QED
  BY <1>1, Invariance, PTL

\* Whoever writes policy.json (a publish, a follower, a fetch), it is only
\* replaced by a strictly newer head: adopt_if_newer compares and writes in
\* several steps, and policy.json.lock keeps its comparison true.
THEOREM StoredCopiesOnlyGrow == Spec => CopiesOnlyGrow
<1>1. ASSUME Inv, Next, NEW n \in Nodes, disk'[n] # disk[n]
      PROVE  IsNewer(disk'[n], disk[n])
  <2>1. CASE Tick \/ Edit
    BY <1>1, <2>1 DEF Tick, Edit, AddDirectory, RemoveDirectory, AssignHost, UnassignHost,
                      RemoveNode, Sign
  <2>2. ASSUME NEW m \in Nodes,
               \/ RecoverAdmin(m) \/ Join(m) \/ Start(m) \/ BeginBeat(m)
               \/ AnnounceBeat(m) \/ AnnounceAccepted(m) \/ Crash(m) \/ AbandonAdopt(m)
        PROVE  disk' = disk
    BY <2>2 DEF RecoverAdmin, Join, Start, BeginBeat, AnnounceBeat, AnnounceAccepted, Crash,
                AbandonAdopt
  <2>3. ASSUME NEW m \in Nodes, NEW h \in signed, BeginAdopt(m, h)
        PROVE  disk' = disk
    BY <2>3 DEF BeginAdopt
  <2>4. ASSUME NEW m \in Nodes, NEW h \in signed, BeginAccept(m, h)
        PROVE  IsNewer(disk'[n], disk[n])
    BY <1>1, <2>4 DEF Inv, TypeOK, BeginAccept
  <2>5. ASSUME NEW m \in Nodes, EndAdopt(m)
        PROVE  IsNewer(disk'[n], disk[n])
    BY <1>1, <2>5 DEF Inv, TypeOK, EndAdopt, StoresWhatIsNewer
  <2> QED
    BY <1>1, <2>1, <2>2, <2>3, <2>4, <2>5 DEF Next, Run
<1>2. Inv /\ [Next]_vars => [\A n \in Nodes : disk'[n] # disk[n] => IsNewer(disk'[n], disk[n])]_vars
  BY <1>1
<1> QED
  BY <1>2, Invariance, PTL DEF Spec, CopiesOnlyGrow

\* The announcing steps: a word is announced only for the head its directory
\* answers for from then on, and no word is forgotten with it.
LEMMA NewWordsAreForTheHeldHead ==
  ASSUME Inv, Next, NEW w \in words' \ words
  PROVE  w.head = Held(w.directory)' /\ words \subseteq words'
<1> USE DEF Inv
<1>1. CASE Tick \/ Edit
  BY <1>1 DEF Tick, Remembered, Edit, AddDirectory, RemoveDirectory, AssignHost, UnassignHost,
              RemoveNode, Sign
<1>2. ASSUME NEW n \in Nodes, NEW h \in signed,
             \/ RecoverAdmin(n) \/ Join(n) \/ BeginBeat(n) \/ Crash(n) \/ BeginAccept(n, h)
             \/ BeginAdopt(n, h) \/ EndAdopt(n) \/ AbandonAdopt(n)
      PROVE  words' = words
  BY <1>2 DEF RecoverAdmin, Join, BeginBeat, Crash, BeginAccept, BeginAdopt, EndAdopt, AbandonAdopt
<1>3. ASSUME NEW n \in Nodes, Start(n)
      PROVE  w.head = Held(w.directory)' /\ words \subseteq words'
  <2>1. w \in SignFresh(n, disk[n], Clock(n))
    BY <1>3 DEF Start
  <2>2. w.directory = n /\ w.head = disk[n]
    BY <2>1, ClockIsNat, SignFreshIsForItsHead DEF TypeOK
  <2> QED
    BY <1>3, <2>2 DEF Start, Held, TypeOK
<1>4. ASSUME NEW n \in Nodes, AnnounceBeat(n)
      PROVE  w.head = Held(w.directory)' /\ words \subseteq words'
  <2>1. serving[n] /\ beating[n].head = mem[n]
    BY <1>4 DEF AnnounceBeat, DownHoldsNothing, ServesWhatItStored
  <2>2. w \in beating[n].fresh
    BY <1>4 DEF AnnounceBeat
  <2>3. PICK at \in 0 .. Clock(n) : beating[n].fresh = SignFresh(n, mem[n], at)
    BY <2>1, <2>2 DEF OneWriter
  <2>4. w.directory = n /\ w.head = mem[n]
    <3>1. at \in Nat /\ mem[n] \in Heads \cup {NoHead}
      BY ClockIsNat DEF TypeOK
    <3> QED
      BY <2>2, <2>3, <3>1, SignFreshIsForItsHead
  <2> QED
    BY <1>4, <2>1, <2>4 DEF AnnounceBeat, Held, TypeOK
<1>5. ASSUME NEW n \in Nodes, AnnounceAccepted(n)
      PROVE  w.head = Held(w.directory)' /\ words \subseteq words'
  <2>1. serving[n]
    BY <1>5 DEF AnnounceAccepted, DownHoldsNothing
  <2>2. PICK t \in accepting[n] :
           /\ mem' = [mem EXCEPT ![n] = disk[n]]
           /\ words' = words \cup SignFresh(n, disk[n], t)
    BY <1>5 DEF AnnounceAccepted
  <2>3. w.directory = n /\ w.head = disk[n]
    BY <2>2, SignFreshIsForItsHead DEF TypeOK
  <2> QED
    BY <1>5, <2>1, <2>2, <2>3 DEF AnnounceAccepted, Held, TypeOK
<1>6. signed # {}
  BY DEF CopiesAreSigned
<1> QED
  BY <1>1, <1>2, <1>3, <1>4, <1>5, <1>6 DEF Next, Run

\* No directory announces a word for a head older than one it announced a
\* word for before, across beats, accepts, crashes and restarts.
THEOREM VouchingNeverGoesBack == Spec => NeverVouchesBackwards
<1> DEFINE Forward == \A w \in words' \ words, v \in words :
                        w.directory = v.directory => Covers(w.head, v.head)
<1>1. Inv /\ Inv' /\ [Next]_vars => [Forward]_vars
  BY NewWordsAreForTheHeldHead DEF Inv, HeldCoversWords
<1> QED
  BY <1>1, Invariance, PTL DEF Spec, NeverVouchesBackwards

\* While a directory runs, the head it serves never goes back: beat holds
\* Directory.write, so it announces no head older than an accept's.
THEOREM ServingOnlyGrows == Spec => ServedOnlyGrows
<1>1. ASSUME Inv, Next, NEW n \in Nodes, serving[n], serving'[n]
      PROVE  Covers(mem'[n], mem[n])
  <2> USE DEF Inv, Covers
  <2>1. CASE Tick \/ Edit
    BY <2>1 DEF Tick, Edit, AddDirectory, RemoveDirectory, AssignHost, UnassignHost,
                RemoveNode, Sign
  <2>2. ASSUME NEW m \in Nodes, NEW h \in signed,
               \/ RecoverAdmin(m) \/ Join(m) \/ BeginBeat(m) \/ BeginAccept(m, h)
               \/ BeginAdopt(m, h) \/ EndAdopt(m) \/ AbandonAdopt(m)
        PROVE  mem' = mem
    BY <2>2 DEF RecoverAdmin, Join, BeginBeat, BeginAccept, BeginAdopt, EndAdopt, AbandonAdopt
  <2>3. ASSUME NEW m \in Nodes, Start(m) \/ Crash(m) PROVE Covers(mem'[n], mem[n])
    BY <1>1, <2>3 DEF Start, Crash, TypeOK
  <2>4. ASSUME NEW m \in Nodes, AnnounceBeat(m) PROVE Covers(mem'[n], mem[n])
    BY <1>1, <2>4 DEF AnnounceBeat, DownHoldsNothing, ServesWhatItStored, TypeOK
  <2>5. ASSUME NEW m \in Nodes, AnnounceAccepted(m) PROVE Covers(mem'[n], mem[n])
    BY <1>1, <2>5 DEF AnnounceAccepted, TypeOK
  <2>6. signed # {}
    BY <1>1 DEF CopiesAreSigned
  <2> QED
    BY <1>1, <2>1, <2>2, <2>3, <2>4, <2>5, <2>6 DEF Next, Run
<1>2. Inv /\ [Next]_vars =>
        [\A n \in Nodes : serving[n] /\ serving'[n] => Covers(mem'[n], mem[n])]_vars
  BY <1>1
<1> QED
  BY <1>2, Invariance, PTL DEF Spec, ServedOnlyGrows

-----------------------------------------------------------------------------
(* Directories implements Witnesses. *)

\* The checks of the abstract specification are this module's.
LEMMA SameChecks ==
  /\ Promise!FirstHead = FirstHead /\ Promise!NoHead = NoHead
  /\ \A g, h : Promise!IsNewer(g, h) <=> IsNewer(g, h)
  /\ \A g, h : Promise!Covers(g, h) <=> Covers(g, h)
  /\ \A base, ds, hs, t : Promise!NextHead(base, ds, hs, t) = NextHead(base, ds, hs, t)
  /\ \A base, ds : Promise!KeepsADirectory(base, ds) <=> KeepsADirectory(base, ds)
  /\ \A d, h, t : Promise!SignFresh(d, h, t) = SignFresh(d, h, t)
  /\ \A n : Promise!Clock(n) = Clock(n)
  /\ \A ws, t : Promise!Remembered(ws, t) = Remembered(ws, t)
BY DEF Promise!FirstHead, FirstHead, Promise!NoHead, NoHead, Promise!IsNewer, IsNewer,
       Promise!Covers, Covers, Promise!NextHead, NextHead, Promise!KeepsADirectory,
       KeepsADirectory, Promise!SignFresh, SignFresh, Promise!Unexpired, Unexpired,
       Promise!WordOf, WordOf, Promise!Clock, Clock, Promise!Remembered, Remembered

\* How the steps that matter outside map: a tick, an edit, a directory that
\* comes to hold a newer head, and one that announces a word.
LEMMA AbstractTick == Inv /\ Tick => Promise!Tick
BY SameChecks DEF Tick, Promise!Tick, Held

LEMMA AbstractSign ==
  ASSUME Inv, NEW ds \in SUBSET Nodes, NEW hs \in SUBSET Hosts, Sign(ds, hs)
  PROVE  Promise!Next
<1>1. Promise!Issue(admin, ds, hs)
  BY SameChecks DEF Sign, Promise!Issue, Held, Inv, CopiesAreSigned
<1> QED
  BY <1>1 DEF Promise!Next, Inv, CopiesAreSigned

LEMMA AbstractTake ==
  ASSUME Inv, NEW n \in Nodes, NEW h \in signed, IsNewer(h, Held(n)),
         [m \in Nodes |-> Held(m)]' = [[m \in Nodes |-> Held(m)] EXCEPT ![n] = h],
         UNCHANGED <<now, signed, words>>
  PROVE  Promise!Next
<1>1. Promise!Take(n, h)
  BY SameChecks DEF Promise!Take
<1> QED
  BY <1>1 DEF Promise!Next

LEMMA AbstractVouch ==
  ASSUME Inv, NEW n \in Nodes, NEW h \in signed, NEW at \in 0 .. Clock(n),
         Covers(h, Held(n)), SignFresh(n, h, at) # {},
         [m \in Nodes |-> Held(m)]' = [[m \in Nodes |-> Held(m)] EXCEPT ![n] = h],
         words' = words \cup SignFresh(n, h, at),
         UNCHANGED <<now, signed>>
  PROVE  Promise!Next
<1>1. at <= Clock(n) /\ at \in 0 .. Promise!Clock(n)
  BY ClockIsNat, SameChecks DEF Inv, TypeOK
<1>2. Promise!Vouch(n, h, at)
  BY <1>1, SameChecks DEF Promise!Vouch
<1> QED
  BY <1>1, <1>2 DEF Promise!Next

\* A step that changes neither the head n answers for nor anything the
\* abstract specification sees.
LEMMA AbstractStutter ==
  ASSUME UNCHANGED <<now, signed, words>>, \A n \in Nodes : Held(n)' = Held(n)
  PROVE  UNCHANGED Promise!vars
BY DEF Promise!vars

\* The same, of the steps of a directory: Start and the two announcements vouch
\* (or, with no word to announce, take or stutter), a crash takes what the
\* store has over what was served, an adopted head is taken when down.
LEMMA StartImplements ==
  ASSUME Inv, NEW n \in Nodes, Start(n)
  PROVE  Promise!Next \/ UNCHANGED Promise!vars
<1> USE DEF Inv
<1>1. /\ ~serving[n] /\ mem' = [mem EXCEPT ![n] = disk[n]]
      /\ serving' = [serving EXCEPT ![n] = TRUE]
      /\ words' = words \cup SignFresh(n, disk[n], Clock(n))
      /\ UNCHANGED <<disk, now, signed>>
  BY DEF Start, Steady
<1>2. \A m \in Nodes : Held(m)' = Held(m)
  BY <1>1 DEF Held, TypeOK
<1>3. CASE SignFresh(n, disk[n], Clock(n)) = {}
  BY <1>1, <1>2, <1>3, AbstractStutter
<1>4. CASE SignFresh(n, disk[n], Clock(n)) # {}
  <2>1. disk[n] \in signed
    BY <1>4 DEF SignFresh, NoHead, CopiesAreSigned
  <2>2. Clock(n) \in 0 .. Clock(n) /\ Covers(disk[n], Held(n))
    BY <1>1, ClockIsNat DEF Held, Covers
  <2>3. [m \in Nodes |-> Held(m)]' = [[m \in Nodes |-> Held(m)] EXCEPT ![n] = disk[n]]
    BY <1>1, <1>2 DEF Held
  <2> QED
    BY <1>1, <1>4, <2>1, <2>2, <2>3, AbstractVouch
<1> QED
  BY <1>3, <1>4

LEMMA AnnounceBeatImplements ==
  ASSUME Inv, NEW n \in Nodes, AnnounceBeat(n)
  PROVE  Promise!Next \/ UNCHANGED Promise!vars
<1> USE DEF Inv
<1>1. /\ serving[n] /\ beating[n].head = mem[n] /\ mem' = mem
      /\ words' = words \cup beating[n].fresh
      /\ UNCHANGED <<disk, serving, now, signed>>
  BY DEF AnnounceBeat, Steady, DownHoldsNothing, ServesWhatItStored, TypeOK
<1>2. \A m \in Nodes : Held(m)' = Held(m)
  BY <1>1 DEF Held
<1>3. CASE beating[n].fresh = {}
  BY <1>1, <1>2, <1>3, AbstractStutter
<1>4. CASE beating[n].fresh # {}
  <2>1. PICK at \in 0 .. Clock(n) : beating[n].fresh = SignFresh(n, mem[n], at)
    BY <1>1, <1>4 DEF OneWriter
  <2>2. mem[n] \in signed
    BY <1>4, <2>1 DEF SignFresh, NoHead, CopiesAreSigned
  <2>3. [m \in Nodes |-> Held(m)]' = [[m \in Nodes |-> Held(m)] EXCEPT ![n] = mem[n]]
    BY <1>1, <1>2 DEF Held
  <2> QED
    BY <1>1, <1>4, <2>1, <2>2, <2>3, AbstractVouch DEF Held, Covers
<1> QED
  BY <1>3, <1>4

LEMMA AnnounceAcceptedImplements ==
  ASSUME Inv, NEW n \in Nodes, AnnounceAccepted(n)
  PROVE  Promise!Next \/ UNCHANGED Promise!vars
<1> USE DEF Inv
<1>1. serving[n] /\ UNCHANGED <<disk, serving, now, signed>>
  BY DEF AnnounceAccepted, Steady, DownHoldsNothing
<1>2. CASE ~IsNewer(disk[n], mem[n])
  BY <1>1, <1>2, AbstractStutter DEF AnnounceAccepted, Held
<1>3. CASE IsNewer(disk[n], mem[n])
  <2>1. PICK t \in accepting[n] :
           /\ mem' = [mem EXCEPT ![n] = disk[n]]
           /\ words' = words \cup SignFresh(n, disk[n], t)
    BY <1>3 DEF AnnounceAccepted
  <2>2. t \in 0 .. Clock(n)
    BY DEF OneWriter
  <2>3. disk[n] \in signed
    BY <1>3 DEF IsNewer, NoHead, CopiesAreSigned, TypeOK, Heads
  <2>4. IsNewer(disk[n], Held(n)) /\ Covers(disk[n], Held(n))
    BY <1>1, <1>3 DEF Held, Covers
  <2>5. [m \in Nodes |-> Held(m)]' = [[m \in Nodes |-> Held(m)] EXCEPT ![n] = disk[n]]
    BY <1>1, <2>1 DEF Held, TypeOK
  <2>6. CASE SignFresh(n, disk[n], t) = {}
    BY <1>1, <2>1, <2>3, <2>4, <2>5, <2>6, AbstractTake
  <2>7. CASE SignFresh(n, disk[n], t) # {}
    BY <1>1, <2>1, <2>2, <2>3, <2>4, <2>5, <2>7, AbstractVouch
  <2> QED
    BY <2>6, <2>7
<1> QED
  BY <1>2, <1>3

LEMMA CrashImplements ==
  ASSUME Inv, NEW n \in Nodes, Crash(n)
  PROVE  Promise!Next \/ UNCHANGED Promise!vars
<1> USE DEF Inv
<1>1. /\ serving[n] /\ serving' = [serving EXCEPT ![n] = FALSE]
      /\ mem' = [mem EXCEPT ![n] = NoHead]
      /\ UNCHANGED <<disk, words, now, signed>>
  BY DEF Crash, Steady
<1>2. Covers(disk[n], mem[n])
  BY <1>1 DEF ServesWhatItStored
<1>3. CASE disk[n] = mem[n]
  BY <1>1, <1>3, AbstractStutter DEF Held, TypeOK
<1>4. CASE IsNewer(disk[n], mem[n])
  <2>1. disk[n] \in signed
    BY <1>4 DEF IsNewer, NoHead, CopiesAreSigned, TypeOK, Heads
  <2>2. [m \in Nodes |-> Held(m)]' = [[m \in Nodes |-> Held(m)] EXCEPT ![n] = disk[n]]
    BY <1>1 DEF Held, TypeOK
  <2> QED
    BY <1>1, <1>4, <2>1, <2>2, AbstractTake DEF Held
<1> QED
  BY <1>2, <1>3, <1>4 DEF Covers

LEMMA EndAdoptImplements ==
  ASSUME Inv, NEW n \in Nodes, EndAdopt(n)
  PROVE  Promise!Next \/ UNCHANGED Promise!vars
<1> USE DEF Inv
<1>0. PICK h \in storing[n] : disk' = [disk EXCEPT ![n] = h]
  BY DEF EndAdopt
<1>1. /\ h \in signed /\ IsNewer(h, disk[n]) /\ disk' = [disk EXCEPT ![n] = h]
      /\ UNCHANGED <<serving, mem, words, now, signed>>
  BY <1>0 DEF EndAdopt, StoresWhatIsNewer
<1>2. CASE serving[n]
  BY <1>1, <1>2, AbstractStutter DEF Held, TypeOK
<1>3. CASE ~serving[n]
  <2>1. [m \in Nodes |-> Held(m)]' = [[m \in Nodes |-> Held(m)] EXCEPT ![n] = h]
    BY <1>1, <1>3 DEF Held, TypeOK
  <2> QED
    BY <1>1, <1>3, <2>1, AbstractTake DEF Held
<1> QED
  BY <1>2, <1>3

LEMMA HiddenSteps ==
  ASSUME Inv, NEW n \in Nodes, NEW h \in signed,
         \/ RecoverAdmin(n) \/ Join(n) \/ BeginBeat(n) \/ BeginAccept(n, h)
         \/ BeginAdopt(n, h) \/ AbandonAdopt(n)
  PROVE  UNCHANGED Promise!vars
<1>1. ASSUME RecoverAdmin(n) \/ Join(n) \/ BeginBeat(n) PROVE UNCHANGED Promise!vars
  BY <1>1, AbstractStutter DEF RecoverAdmin, Join, BeginBeat, Steady, Held
<1>2. ASSUME BeginAccept(n, h) PROVE UNCHANGED Promise!vars
  BY <1>2, AbstractStutter DEF BeginAccept, Steady, Held, Inv, TypeOK
<1>3. ASSUME BeginAdopt(n, h) \/ AbandonAdopt(n) PROVE UNCHANGED Promise!vars
  BY <1>3, AbstractStutter DEF BeginAdopt, AbandonAdopt, Held
<1> QED
  BY <1>1, <1>2, <1>3

LEMMA EditImplements == Inv /\ Edit => Promise!Next
<1> SUFFICES ASSUME Inv, Edit PROVE Promise!Next
  OBVIOUS
<1>1. admin.directories \subseteq Nodes /\ admin.hosts \subseteq Hosts
  BY DEF Inv, TypeOK, Heads
<1>2. \E ds \in SUBSET Nodes, hs \in SUBSET Hosts : Sign(ds, hs)
  BY <1>1 DEF Edit, AddDirectory, RemoveDirectory, AssignHost, UnassignHost, RemoveNode
<1> QED
  BY <1>2, AbstractSign

LEMMA StepImplements == Inv /\ [Next]_vars => [Promise!Next]_Promise!vars
<1> SUFFICES ASSUME Inv, [Next]_vars PROVE Promise!Next \/ UNCHANGED Promise!vars
  OBVIOUS
<1>1. CASE UNCHANGED vars
  BY <1>1 DEF vars, Promise!vars, Held
<1>2. CASE Tick
  BY <1>2, AbstractTick DEF Promise!Next
<1>3. CASE Edit
  BY <1>3, EditImplements
<1>4. signed # {}
  BY DEF Inv, CopiesAreSigned
<1>5. ASSUME NEW n \in Nodes, RecoverAdmin(n) \/ Join(n) \/ Run(n)
      PROVE  Promise!Next \/ UNCHANGED Promise!vars
  BY <1>4, <1>5, HiddenSteps, StartImplements, AnnounceBeatImplements,
     AnnounceAcceptedImplements, CrashImplements, EndAdoptImplements DEF Run
<1> QED
  BY <1>1, <1>2, <1>3, <1>5 DEF Next

\* A directory that stores policy.json, serves from memory, accepts and beats
\* in two steps each and crashes anywhere keeps the directories' promise: to
\* hold one signed head, moving only to newer ones, and to vouch only for it.
THEOREM Implementation == Spec => ImplementsWitnesses
<1>1. Init => Promise!Init
  BY SameChecks DEF Init, Promise!Init, Held
<1> QED
  BY <1>1, StepImplements, Invariance, PTL DEF Spec, ImplementsWitnesses, Promise!Spec
=============================================================================
