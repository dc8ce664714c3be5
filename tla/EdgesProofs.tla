----------------------------- MODULE EdgesProofs -----------------------------
(***************************************************************************)
(* Theorems about where strangers' input comes in, for any browsers,       *)
(* clients, keys, tokens and bounds: the web gateway (Gateway), the keys   *)
(* that tokens are verified with (SigningKeys), what bounds a flood of     *)
(* refusals or of requests (Floods), and the messages on a stream          *)
(* (Framing).                                                              *)
(*                                                                         *)
(* Of the gateway, RecentInv follows each view from the fetch that brought *)
(* it to the reply it was used for, and DueInv each authorization: it is   *)
(* at one stage at a time, under one number, in the hands of the browser   *)
(* that began it, and holds what a person confirmed.                       *)
(*                                                                         *)
(* KeysInv says of the sets of keys that one which lies about a key does   *)
(* not outlast the change by MAX_TTL; and of the requests and failures     *)
(* that are remembered, when each was asked for: so that a refetch which   *)
(* begins well after a key was published meets none of before it.          *)
(*                                                                         *)
(* ThrottleInv says that whoever is about to write a line moved the mark,  *)
(* EVERY_MS past any other that did; LimitInv, of a net that was not put   *)
(* out of the table, what it was let through in its window and in the time *)
(* of one before it, so that no stretch of that length meets more than two.*)
(*                                                                         *)
(* FrameInv says that there is a history of all the bytes that were        *)
(* written, cut where each message ends, and that what a reader has in     *)
(* hand and what is still on the stream follow one another in it, from     *)
(* where the messages it has read end: so it can take no length out of a   *)
(* body, nor a body out of two.                                            *)
(***************************************************************************)
EXTENDS MCEdges, FiniteSetTheorems, SequenceTheorems, WellFoundedInduction, TLAPS

-----------------------------------------------------------------------------
(* Functions on some of a set. *)

\* The functions on some of X, into Y.
Partials(X, Y) == UNION {[D -> Y] : D \in SUBSET X}

\* f, on some of its domain.
Only(f, ids) == [i \in ids |-> f[i]]

\* A function is one of them by its domain and its values.
LEMMA PartialsAre ==
  ASSUME NEW X, NEW Y, NEW f
  PROVE  f \in Partials(X, Y) <=> /\ DOMAIN f \in SUBSET X
                                  /\ f = [x \in DOMAIN f |-> f[x]]
                                  /\ \A x \in DOMAIN f : f[x] \in Y
<1>1. ASSUME f \in Partials(X, Y)
      PROVE  DOMAIN f \in SUBSET X /\ f = [x \in DOMAIN f |-> f[x]] /\ \A x \in DOMAIN f : f[x] \in Y
  <2>1. PICK D \in SUBSET X : f \in [D -> Y]
    BY <1>1 DEF Partials
  <2> QED BY <2>1
<1>2. ASSUME DOMAIN f \in SUBSET X, f = [x \in DOMAIN f |-> f[x]], \A x \in DOMAIN f : f[x] \in Y
      PROVE  f \in Partials(X, Y)
  <2>1. f \in [DOMAIN f -> Y]
    BY <1>2
  <2> QED BY <1>2, <2>1 DEF Partials
<1> QED BY <1>1, <1>2

\* What an operation on the store's maps leaves in them.
LEMMA PutIs ==
  ASSUME NEW f, NEW i, NEW v
  PROVE  /\ DOMAIN Put(f, i, v) = DOMAIN f \cup {i}
         /\ Put(f, i, v)[i] = v
         /\ \A j \in DOMAIN f : j # i => Put(f, i, v)[j] = f[j]
  BY DEF Put

LEMMA DropIs ==
  ASSUME NEW f, NEW i
  PROVE  /\ DOMAIN Drop(f, i) = DOMAIN f \ {i}
         /\ \A j \in DOMAIN f \ {i} : Drop(f, i)[j] = f[j]
  BY DEF Drop

LEMMA OnlyIs ==
  ASSUME NEW f, NEW ids
  PROVE  /\ DOMAIN Only(f, ids) = ids
         /\ \A j \in ids : Only(f, ids)[j] = f[j]
  BY DEF Only

LEMMA PutIsPartial ==
  ASSUME NEW X, NEW Y, NEW f \in Partials(X, Y), NEW i \in X, NEW v \in Y
  PROVE  Put(f, i, v) \in Partials(X, Y)
<1>1. DOMAIN f \in SUBSET X /\ \A x \in DOMAIN f : f[x] \in Y
  BY PartialsAre
<1> DEFINE g == Put(f, i, v)
<1>2. DOMAIN g = DOMAIN f \cup {i} /\ g = [x \in DOMAIN g |-> g[x]]
  BY DEF Put
<1>3. \A x \in DOMAIN g : g[x] \in Y
  BY <1>1 DEF Put
<1> HIDE DEF g
<1>4. g \in Partials(X, Y)
  BY <1>1, <1>2, <1>3, PartialsAre
<1> QED BY <1>4 DEF g

LEMMA DropIsPartial ==
  ASSUME NEW X, NEW Y, NEW f \in Partials(X, Y), NEW i
  PROVE  Drop(f, i) \in Partials(X, Y)
<1>1. DOMAIN f \in SUBSET X /\ \A x \in DOMAIN f : f[x] \in Y
  BY PartialsAre
<1> DEFINE g == Drop(f, i)
<1>2. DOMAIN g = DOMAIN f \ {i} /\ g = [x \in DOMAIN g |-> g[x]]
  BY DEF Drop
<1>3. \A x \in DOMAIN g : g[x] \in Y
  BY <1>1 DEF Drop
<1> HIDE DEF g
<1>4. g \in Partials(X, Y)
  BY <1>1, <1>2, <1>3, PartialsAre
<1> QED BY <1>4 DEF g

LEMMA OnlyIsPartial ==
  ASSUME NEW X, NEW Y, NEW f \in Partials(X, Y), NEW ids \in SUBSET DOMAIN f
  PROVE  Only(f, ids) \in Partials(X, Y)
<1>1. DOMAIN f \in SUBSET X /\ \A x \in DOMAIN f : f[x] \in Y
  BY PartialsAre
<1> DEFINE g == Only(f, ids)
<1>2. DOMAIN g = ids /\ g = [x \in DOMAIN g |-> g[x]]
  BY DEF Only
<1>3. \A x \in DOMAIN g : g[x] \in Y
  BY <1>1 DEF Only
<1> HIDE DEF g
<1>4. g \in Partials(X, Y)
  BY <1>1, <1>2, <1>3, PartialsAre
<1> QED BY <1>4 DEF g

LEMMA EmptyIsPartial == \A X, Y : Empty \in Partials(X, Y)
<1> TAKE X, Y
<1>1. DOMAIN Empty = {} /\ Empty = [x \in DOMAIN Empty |-> Empty[x]]
  BY DEF Empty
<1> HIDE DEF Empty
<1> QED BY <1>1, PartialsAre

-----------------------------------------------------------------------------
(* The cap on what strangers may begin. *)

\* A finite set has a member whose number no other's exceeds: a smallest set without
\* one would have one after all.
LEMMA SomeIsGreatest ==
  ASSUME NEW S, IsFiniteSet(S), S # {}, NEW age \in [S -> Int]
  PROVE  \E x \in S : \A y \in S : age[y] <= age[x]
<1> DEFINE R == StrictSubsetOrdering(S)
           Fin == FiniteSubsetsOf(S)
           Bad == {s \in Fin : s # {} /\ ~ \E x \in s : \A y \in s : age[y] <= age[x]}
<1>1. Fin = SUBSET S
  BY FS_FiniteSubsetsOfFinite
<1>2. IsWellFoundedOn(R, Fin)
  BY FS_StrictSubsetOrderingWellFounded
<1>3. SUFFICES ASSUME S \in Bad PROVE FALSE
  BY <1>1
<1>4. PICK s \in Bad : \A u \in Bad : <<u, s>> \notin R
  <2>1. Bad \subseteq Fin /\ Bad # {}
    BY <1>3
  <2> HIDE DEF R, Fin, Bad
  <2> QED
    BY <1>2, <2>1, WFMin
<1>5. s \in SUBSET S /\ s # {} /\ ~ \E x \in s : \A y \in s : age[y] <= age[x]
  BY <1>1
<1>6. PICK x \in s : TRUE
  BY <1>5
<1> DEFINE u == s \ {x}
<1>7. u \notin Bad
  <2>1. u \in SUBSET S /\ u # s /\ u \subseteq s
    BY <1>5, <1>6
  <2>2. <<u, s>> \in R
    BY <1>5, <2>1 DEF StrictSubsetOrdering
  <2> QED BY <1>4, <2>2
<1>8. CASE u = {}
  <2>1. s = {x} /\ age[x] \in Int
    BY <1>5, <1>6, <1>8
  <2> QED BY <1>5, <2>1
<1>9. CASE u # {}
  <2>1. PICK y \in u : \A z \in u : age[z] <= age[y]
    BY <1>1, <1>5, <1>7, <1>9
  <2>2. \A z \in s : age[z] \in Int
    BY <1>5
  <2>3. CASE age[x] <= age[y]
    BY <1>5, <2>1, <2>3
  <2>4. CASE age[y] <= age[x]
    <3>1. \A z \in s : age[z] <= age[x]
      BY <1>6, <2>1, <2>2, <2>4
    <3> QED BY <1>5, <1>6, <3>1
  <2> QED BY <1>6, <2>1, <2>2, <2>3, <2>4
<1> QED BY <1>8, <1>9

\* A set of numbers with a member has a least one.
LEMMA LeastNumber ==
  ASSUME NEW T \in SUBSET Nat, T # {}
  PROVE  \E n \in T : \A k \in T : n <= k
<1> DEFINE R == OpToRel(<, Nat)
<1>1. IsWellFoundedOn(R, Nat)
  BY NatLessThanWellFounded
<1>2. PICK n \in T : \A k \in T : <<k, n>> \notin R
  <2> HIDE DEF R
  <2> QED BY <1>1, WFMin
<1>3. \A k \in T : ~ (k < n)
  BY <1>2 DEF OpToRel
<1> QED BY <1>3

\* T are n of S, and the others are no newer.
AreNewest(T, n, S, age) ==
  Cardinality(T) = n /\ \A i \in T, j \in S \ T : age[j] <= age[i]

\* Of a finite set there are always so many that the others are no newer than.
LEMMA NewestExist ==
  ASSUME NEW S, IsFiniteSet(S), NEW age \in [S -> Int], NEW n \in Nat, n <= Cardinality(S)
  PROVE  \E T \in SUBSET S : AreNewest(T, n, S, age)
<1>0. Cardinality(S) \in Nat
  BY FS_CardinalityType
<1> DEFINE Bad == {k \in Nat : k <= Cardinality(S) /\ ~ \E T \in SUBSET S : AreNewest(T, k, S, age)}
<1>1. SUFFICES ASSUME n \in Bad PROVE FALSE
  OBVIOUS
<1>2. PICK k \in Bad : \A m \in Bad : k <= m
  <2> HIDE DEF Bad
  <2>1. Bad \subseteq Nat
    BY DEF Bad
  <2> QED BY <1>1, <2>1, LeastNumber
<1>3. k \in Nat /\ k <= Cardinality(S) /\ ~ \E T \in SUBSET S : AreNewest(T, k, S, age)
  OBVIOUS
<1>4. k # 0
  <2>1. AreNewest({}, 0, S, age)
    BY FS_EmptySet DEF AreNewest
  <2> QED BY <1>3, <2>1
<1>5. PICK T \in SUBSET S : AreNewest(T, k - 1, S, age)
  <2>1. k - 1 \in Nat /\ k - 1 \notin Bad /\ k - 1 <= Cardinality(S)
    BY <1>0, <1>2, <1>3, <1>4
  <2> QED BY <2>1
<1>6. IsFiniteSet(T) /\ IsFiniteSet(S \ T) /\ S \ T # {}
  <2>1. IsFiniteSet(T) /\ IsFiniteSet(S \ T)
    BY FS_Subset
  <2>2. T # S
    BY <1>0, <1>3, <1>5 DEF AreNewest
  <2> QED BY <2>1, <2>2
<1>7. PICK x \in S \ T : \A y \in S \ T : age[y] <= age[x]
  <2> DEFINE g == [y \in S \ T |-> age[y]]
  <2>1. g \in [S \ T -> Int]
    OBVIOUS
  <2>2. \E x \in S \ T : \A y \in S \ T : g[y] <= g[x]
    <3> HIDE DEF g
    <3> QED BY <1>6, <2>1, SomeIsGreatest
  <2> QED BY <2>2
<1>8. AreNewest(T \cup {x}, k, S, age)
  <2>1. Cardinality(T \cup {x}) = k
    <3>1. Cardinality(T) = k - 1 /\ x \notin T
      BY <1>5, <1>7 DEF AreNewest
    <3>2. Cardinality(T \cup {x}) = Cardinality(T) + 1
      BY <1>6, <3>1, FS_AddElement
    <3> QED BY <1>3, <3>1, <3>2
  <2>2. \A i \in T \cup {x}, j \in S \ (T \cup {x}) : age[j] <= age[i]
    BY <1>5, <1>7 DEF AreNewest
  <2> QED BY <2>1, <2>2 DEF AreNewest
<1> QED BY <1>3, <1>8
\* What is left when the oldest made room are some of those there were.
LEMMA EvictionKeepsSome ==
  ASSUME NEW Y, NEW f \in Partials(Auths, Y), NEW cap \in Nat \ {0}
  PROVE  /\ (\A j \in DOMAIN f : f[j].created \in Int) =>
              \E ids \in SUBSET DOMAIN f : Evict(f, cap, LAMBDA p : p.created) = Only(f, ids)
         /\ (\A j \in DOMAIN f : f[j].expires \in Int) =>
              \E ids \in SUBSET DOMAIN f : Evict(f, cap, LAMBDA c : c.expires) = Only(f, ids)
<1> DEFINE all == DOMAIN f
           left == Min({Cardinality(all), cap - 1})
           gs == {[i \in S |-> f[i]] : S \in SUBSET all}
<1>1. IsFiniteSet(all) /\ Cardinality(all) \in Nat
  <2>1. all \in SUBSET Auths
    BY PartialsAre
  <2>2. IsFiniteSet(Auths)
    BY FS_Interval, GatewayAssumption DEF Auths
  <2> HIDE DEF all
  <2> QED BY <2>1, <2>2, FS_Subset, FS_CardinalityType
<1>2. left \in Nat /\ left <= Cardinality(all)
  <2> HIDE DEF all
  <2>1. left \in {Cardinality(all), cap - 1} /\ \A y \in {Cardinality(all), cap - 1} : left <= y
    <3>1. \E x \in {Cardinality(all), cap - 1} : \A y \in {Cardinality(all), cap - 1} : x <= y
      BY <1>1
    <3> QED BY <3>1 DEF Min
  <2> QED BY <1>1, <2>1
<1>3. ASSUME NEW age \in [all -> Int]
      PROVE  \E g \in gs : /\ Cardinality(DOMAIN g) = left
                           /\ \A i \in DOMAIN g, j \in all \ DOMAIN g : age[j] <= age[i]
  <2>1. PICK T \in SUBSET all : AreNewest(T, left, all, age)
    <3> HIDE DEF all, left
    <3> QED BY <1>1, <1>2, NewestExist
  <2> DEFINE g == [i \in T |-> f[i]]
  <2>2. g \in gs /\ DOMAIN g = T
    OBVIOUS
  <2> QED BY <2>1, <2>2 DEF AreNewest
<1>4. \A g \in gs : \E ids \in SUBSET all : g = Only(f, ids)
  BY DEF Only
<1>5. ASSUME \A j \in all : f[j].created \in Int
      PROVE  \E ids \in SUBSET all : Evict(f, cap, LAMBDA p : p.created) = Only(f, ids)
  <2> DEFINE age == [j \in all |-> f[j].created]
  <2>1. \E g \in gs : /\ Cardinality(DOMAIN g) = left
                      /\ \A i \in DOMAIN g, j \in all \ DOMAIN g : f[j].created <= f[i].created
    <3>1. age \in [all -> Int]
      BY <1>5
    <3>2. PICK g \in gs : /\ Cardinality(DOMAIN g) = left
                          /\ \A i \in DOMAIN g, j \in all \ DOMAIN g : age[j] <= age[i]
      <4> HIDE DEF age, left, gs, all
      <4> QED BY <1>3, <3>1
    <3>3. DOMAIN g \in SUBSET all
      OBVIOUS
    <3> QED BY <3>2, <3>3
  <2>2. Evict(f, cap, LAMBDA p : p.created) \in gs
    BY <2>1 DEF Evict
  <2> QED BY <1>4, <2>2
<1>6. ASSUME \A j \in all : f[j].expires \in Int
      PROVE  \E ids \in SUBSET all : Evict(f, cap, LAMBDA c : c.expires) = Only(f, ids)
  <2> DEFINE age == [j \in all |-> f[j].expires]
  <2>1. \E g \in gs : /\ Cardinality(DOMAIN g) = left
                      /\ \A i \in DOMAIN g, j \in all \ DOMAIN g : f[j].expires <= f[i].expires
    <3>1. age \in [all -> Int]
      BY <1>6
    <3>2. PICK g \in gs : /\ Cardinality(DOMAIN g) = left
                          /\ \A i \in DOMAIN g, j \in all \ DOMAIN g : age[j] <= age[i]
      <4> HIDE DEF age, left, gs, all
      <4> QED BY <1>3, <3>1
    <3>3. DOMAIN g \in SUBSET all
      OBVIOUS
    <3> QED BY <3>2, <3>3
  <2>2. Evict(f, cap, LAMBDA c : c.expires) \in gs
    BY <2>1 DEF Evict
  <2> QED BY <1>4, <2>2
<1> QED BY <1>5, <1>6

-----------------------------------------------------------------------------
(* The gateway (Gateway): what its state is made of. *)

Says == {"some", "none", "refused"}
Ids == {c.id : c \in Clients}
Authorizations == [client : Ids, uri : Uris, created : Nat]
Grants == [client : Ids, uri : Uris, user : Browsers, exp : Nat, expires : Nat]
Sessions == [client : Ids, user : Browsers, exp : Nat]
CallbackRecord == [browser : Browsers, auth : Authorizations, at : Nat]
Confirmations == [browser : Browsers, client : Ids]
Gifts == [exp : Nat, times : Nat]
CutRecord == [says : Says, at : Nat]
ViewRecord == [says : Says, cut : Nat, asked : Nat, exp : Nat]
Spoken ==
  {r.header : r \in Requests} \cup {r.body : r \in Requests} \cup {None, Headerless} \cup Legacy
ReqRecord ==
  [held : ViewRecord \cup {None}, init : {r.init : r \in Requests}, header : Spoken,
   version : Spoken]
AskRecord ==
  [i : Auths, by : 0 .. 2, user : Browsers, exp : Nat, req : ReqRecord \cup {None},
   since : Nat, cut : CutRecord \cup {None}]

\* A callback that waits for a view is in the exchange, and waits once.
CallbacksWait ==
  \A a \in asks : a.by = Signing =>
    /\ a.i \in DOMAIN signing
    /\ \A b \in asks : b.by = Signing /\ b.i = a.i => b = a

StoreTypes ==
  /\ pending \in Partials(Auths, Authorizations)
  /\ codes \in Partials(Auths, Grants)
  /\ tokens \in Partials(Auths, Sessions) /\ file \in Partials(Auths, Sessions)

WebTypes ==
  /\ consent \in [Browsers -> Auths \cup {None}] /\ callback \in [Browsers -> Auths \cup {None}]
  /\ signing \in Partials(Auths, CallbackRecord)

ViewTypes ==
  /\ asks \in SUBSET AskRecord
  /\ views \in Partials(Auths, ViewRecord)
  /\ policy \in [Browsers -> Says]

HistoryTypes ==
  /\ began \in 0 .. MaxAuths
  /\ confirmed \in Partials(Auths, Confirmations)
  /\ given \in Partials(Auths, Gifts)

GatewayTypes ==
  /\ now \in Nat
  /\ StoreTypes /\ WebTypes /\ ViewTypes /\ HistoryTypes
  /\ CallbacksWait

\* What is looked up in such a function.
LEMMA ValueIs ==
  ASSUME NEW X, NEW Y, NEW f \in Partials(X, Y), NEW i \in DOMAIN f
  PROVE  i \in X /\ f[i] \in Y
  BY PartialsAre

\* A new authorization joins some of those that were waiting.
LEMMA BegunIs ==
  ASSUME GatewayTypes, NEW i, NEW auth
  PROVE  \E ids \in SUBSET DOMAIN pending : Begun(i, auth) = Put(Only(pending, ids), i, auth)
<1> DEFINE live == {j \in DOMAIN pending : Live(pending[j])}
           kept == Only(pending, live)
<1>1. Keep(pending, Live) = kept
  BY DEF Keep, Only
<1>2. live \in SUBSET DOMAIN pending
  OBVIOUS
<1>3. Begun(i, auth) = Put(Evict(kept, MaxPending, LAMBDA p : p.created), i, auth)
  BY <1>1 DEF Begun
<1> HIDE DEF live
<1>4. kept \in Partials(Auths, Authorizations) /\ DOMAIN kept = live
  BY <1>2, OnlyIs, OnlyIsPartial DEF GatewayTypes, StoreTypes
<1>5. \A j \in live : kept[j] = pending[j]
  BY OnlyIs
<1> HIDE DEF kept
<1>6. \A j \in DOMAIN kept : kept[j].created \in Int
  <2> TAKE j \in DOMAIN kept
  <2>1. kept[j] \in Authorizations
    BY <1>4, ValueIs
  <2> QED BY <2>1 DEF Authorizations
<1>7. PICK ids \in SUBSET live : Evict(kept, MaxPending, LAMBDA p : p.created) = Only(kept, ids)
  BY <1>4, <1>6, EvictionKeepsSome, GatewayAssumption
<1>8. Only(kept, ids) = Only(pending, ids)
  BY <1>5 DEF Only
<1>9. ids \in SUBSET DOMAIN pending /\ Begun(i, auth) = Put(Only(pending, ids), i, auth)
  BY <1>2, <1>3, <1>7, <1>8
<1> QED BY <1>9

\* A new code joins some of those that were issued.
LEMMA IssuedIs ==
  ASSUME GatewayTypes, NEW i, NEW grant, NEW at
  PROVE  \E ids \in SUBSET DOMAIN codes : Issued(i, grant, at) = Put(Only(codes, ids), i, grant)
<1> DEFINE live == {j \in DOMAIN codes : codes[j].expires > at}
           kept == Only(codes, live)
<1>1. Keep(codes, LAMBDA c : c.expires > at) = kept
  BY DEF Keep, Only
<1>2. live \in SUBSET DOMAIN codes
  OBVIOUS
<1>3. Issued(i, grant, at) = Put(Evict(kept, MaxCodes, LAMBDA c : c.expires), i, grant)
  BY <1>1 DEF Issued
<1> HIDE DEF live
<1>4. kept \in Partials(Auths, Grants) /\ DOMAIN kept = live
  BY <1>2, OnlyIs, OnlyIsPartial DEF GatewayTypes, StoreTypes
<1>5. \A j \in live : kept[j] = codes[j]
  BY OnlyIs
<1> HIDE DEF kept
<1>6. \A j \in DOMAIN kept : kept[j].expires \in Int
  <2> TAKE j \in DOMAIN kept
  <2>1. kept[j] \in Grants
    BY <1>4, ValueIs
  <2> QED BY <2>1 DEF Grants
<1>7. PICK ids \in SUBSET live : Evict(kept, MaxCodes, LAMBDA c : c.expires) = Only(kept, ids)
  BY <1>4, <1>6, EvictionKeepsSome, GatewayAssumption
<1>8. Only(kept, ids) = Only(codes, ids)
  BY <1>5 DEF Only
<1>9. ids \in SUBSET DOMAIN codes /\ Issued(i, grant, at) = Put(Only(codes, ids), i, grant)
  BY <1>2, <1>3, <1>7, <1>8
<1> QED BY <1>9

LEMMA AuthorizeTypes ==
  ASSUME GatewayTypes, NEW b \in Browsers, NEW client \in Clients, NEW uri \in Uris,
         Authorize(b, client, uri)
  PROVE  GatewayTypes'
<1> USE DEF Authorize, GatewayTypes, bounds
<1>1. began' \in Auths /\ began' \in 0 .. MaxAuths
  BY GatewayAssumption DEF HistoryTypes, Auths
<1>2. pending' \in Partials(Auths, Authorizations)
  <2> DEFINE auth == [client |-> client.id, uri |-> uri, created |-> now]
  <2>1. auth \in Authorizations
    BY DEF Ids, Authorizations
  <2>2. pending' = Begun(began', auth)
    OBVIOUS
  <2> HIDE DEF auth
  <2>3. PICK ids \in SUBSET DOMAIN pending : pending' = Put(Only(pending, ids), began', auth)
    BY <2>2, BegunIs
  <2>4. Only(pending, ids) \in Partials(Auths, Authorizations)
    BY OnlyIsPartial DEF StoreTypes
  <2> QED BY <1>1, <2>1, <2>3, <2>4, PutIsPartial
<1>3. consent' \in [Browsers -> Auths \cup {None}]
  BY <1>1 DEF WebTypes
<1>4. StoreTypes' /\ WebTypes' /\ ViewTypes' /\ HistoryTypes'
  BY <1>1, <1>2, <1>3 DEF StoreTypes, WebTypes, ViewTypes, HistoryTypes
<1>5. CallbacksWait'
  BY DEF CallbacksWait
<1> QED BY <1>4, <1>5

LEMMA ConfirmTypes ==
  ASSUME GatewayTypes, NEW b \in Browsers, NEW i \in Auths, Confirm(b, i)
  PROVE  GatewayTypes'
<1> USE DEF Confirm, GatewayTypes, store, bounds
<1>1. confirmed' \in Partials(Auths, Confirmations)
  <2> DEFINE v == [browser |-> b, client |-> pending[i].client]
  <2>1. pending[i] \in Authorizations
    BY ValueIs DEF StoreTypes
  <2>2. v \in Confirmations
    BY <2>1 DEF Authorizations, Confirmations
  <2>3. confirmed' = Put(confirmed, i, v)
    OBVIOUS
  <2> HIDE DEF v
  <2> QED BY <2>2, <2>3, PutIsPartial DEF HistoryTypes
<1>2. callback' \in [Browsers -> Auths \cup {None}]
  BY DEF WebTypes
<1>3. StoreTypes' /\ WebTypes' /\ ViewTypes' /\ HistoryTypes'
  BY <1>1, <1>2 DEF StoreTypes, WebTypes, ViewTypes, HistoryTypes
<1>4. CallbacksWait'
  BY DEF CallbacksWait
<1> QED BY <1>3, <1>4

LEMMA CallbackTypes ==
  ASSUME GatewayTypes, NEW b \in Browsers, NEW i \in Auths, Callback(b, i)
  PROVE  GatewayTypes'
<1> USE DEF Callback, GatewayTypes, web, bounds, history
<1>1. pending' \in Partials(Auths, Authorizations)
  BY DropIsPartial DEF StoreTypes
<1> DEFINE v == [browser |-> b, auth |-> pending[i], at |-> now]
<1>2. v \in CallbackRecord
  <2>1. pending[i] \in Authorizations
    BY ValueIs DEF StoreTypes
  <2> QED BY <2>1 DEF CallbackRecord
<1>3. signing' = signing \/ signing' = Put(signing, i, v)
  OBVIOUS
<1> HIDE DEF v
<1>4. signing' \in Partials(Auths, CallbackRecord)
  BY <1>2, <1>3, PutIsPartial DEF WebTypes
<1>5. StoreTypes' /\ WebTypes' /\ ViewTypes' /\ HistoryTypes'
  BY <1>1, <1>4 DEF StoreTypes, WebTypes, ViewTypes, HistoryTypes
<1>6. DOMAIN signing \subseteq DOMAIN signing'
  <2>1. DOMAIN Put(signing, i, v) = DOMAIN signing \cup {i}
    BY PutIs
  <2> QED BY <1>3, <2>1
<1>7. CallbacksWait'
  BY <1>6 DEF CallbacksWait
<1> QED BY <1>5, <1>7

LEMMA CachedTypes == GatewayTypes => Cached \in Partials(Auths, ViewRecord)
<1> SUFFICES ASSUME GatewayTypes PROVE Cached \in Partials(Auths, ViewRecord)
  OBVIOUS
<1> DEFINE ids == {i \in DOMAIN views : views[i].exp >= now}
<1>1. Cached = Only(views, ids)
  BY DEF Cached, Keep, Only
<1>2. ids \in SUBSET DOMAIN views
  OBVIOUS
<1> HIDE DEF ids
<1> QED BY <1>1, <1>2, OnlyIsPartial DEF GatewayTypes, ViewTypes

LEMMA ExchangedTypes ==
  ASSUME GatewayTypes, NEW i \in Auths, Exchanged(i)
  PROVE  GatewayTypes'
<1> USE DEF Exchanged, GatewayTypes, store, web, bounds, history
<1>1. CASE signing' = Drop(signing, i) /\ UNCHANGED <<asks, views>>
  <2>1. signing' \in Partials(Auths, CallbackRecord)
    BY <1>1, DropIsPartial DEF WebTypes
  <2>2. StoreTypes' /\ WebTypes' /\ ViewTypes' /\ HistoryTypes'
    BY <1>1, <2>1 DEF StoreTypes, WebTypes, ViewTypes, HistoryTypes
  <2>3. CallbacksWait'
    <3>1. DOMAIN signing' = DOMAIN signing \ {i}
      BY <1>1, DropIs
    <3> QED BY <1>1, <3>1 DEF CallbacksWait
  <2> QED BY <2>2, <2>3
<1> DEFINE a == Ask(i, Signing, signing[i].browser, now + TokenLife, None)
<1>2. CASE asks' = asks \cup {a} /\ UNCHANGED signing /\ views' = Cached
  <2>1. a \in AskRecord
    <3>1. signing[i] \in CallbackRecord
      BY ValueIs DEF WebTypes
    <3>2. now + TokenLife \in Nat
      BY GatewayAssumption
    <3> QED BY <3>1, <3>2 DEF Ask, AskRecord, CallbackRecord, Signing
  <2>2. a.i = i /\ a.by = Signing
    BY DEF Ask
  <2> HIDE DEF a
  <2>3. StoreTypes' /\ WebTypes' /\ ViewTypes' /\ HistoryTypes'
    BY <1>2, <2>1, CachedTypes DEF StoreTypes, WebTypes, ViewTypes, HistoryTypes
  <2>4. CallbacksWait'
    BY <1>2, <2>2 DEF CallbacksWait
  <2> QED BY <2>3, <2>4
<1> QED BY <1>1, <1>2

LEMMA TokenTypes ==
  ASSUME GatewayTypes, NEW i \in Auths, NEW right \in BOOLEAN, Token(i, right)
  PROVE  GatewayTypes'
<1> USE DEF Token, GatewayTypes, web, bounds
<1> DEFINE grant == codes[i]
           session == [client |-> grant.client, user |-> grant.user, exp |-> grant.exp]
           gift == [exp |-> grant.exp,
                    times |-> IF i \in DOMAIN given THEN given[i].times + 1 ELSE 1]
           live == {j \in DOMAIN tokens : tokens[j].exp > now}
<1>1. grant \in Grants
  BY ValueIs DEF StoreTypes
<1>2. session \in Sessions
  BY <1>1 DEF Grants, Sessions
<1>3. gift \in Gifts
  <2>1. i \in DOMAIN given => given[i] \in Gifts
    BY ValueIs DEF HistoryTypes
  <2> QED BY <1>1, <2>1 DEF Grants, Gifts
<1>4. codes' \in Partials(Auths, Grants)
  BY DropIsPartial DEF StoreTypes, RedeemCode
<1>5. WithToken(i, session) = Put(Only(tokens, live), i, session)
  BY DEF WithToken, Keep, Only
<1>6. /\ tokens' = tokens \/ tokens' = WithToken(i, session)
      /\ file' = file \/ file' = tokens'
      /\ given' = given \/ given' = Put(given, i, gift)
  OBVIOUS
<1>7. live \in SUBSET DOMAIN tokens
  OBVIOUS
<1> HIDE DEF session, gift, live
<1>8. WithToken(i, session) \in Partials(Auths, Sessions)
  <2>1. Only(tokens, live) \in Partials(Auths, Sessions)
    BY <1>7, OnlyIsPartial DEF StoreTypes
  <2> QED BY <1>2, <1>5, <2>1, PutIsPartial
<1>9. Put(given, i, gift) \in Partials(Auths, Gifts)
  BY <1>3, PutIsPartial DEF HistoryTypes
<1>10. StoreTypes' /\ WebTypes' /\ ViewTypes' /\ HistoryTypes'
  <2>1. StoreTypes'
    BY <1>4, <1>6, <1>8 DEF StoreTypes
  <2>2. HistoryTypes'
    BY <1>6, <1>9 DEF HistoryTypes
  <2> QED BY <2>1, <2>2 DEF WebTypes, ViewTypes
<1>11. CallbacksWait'
  BY DEF CallbacksWait
<1> QED BY <1>10, <1>11

LEMMA CutsTypes ==
  ASSUME GatewayTypes, NEW a \in asks, Cuts(a)
  PROVE  GatewayTypes'
<1> USE DEF Cuts, GatewayTypes, store, web, bounds, history
<1> DEFINE cut == [says |-> policy[a.user], at |-> now]
           b == [a EXCEPT !.cut = cut]
<1>1. a \in AskRecord
  BY DEF ViewTypes
<1>2. cut \in CutRecord
  BY <1>1 DEF ViewTypes, AskRecord, CutRecord
<1>3. asks' = (asks \ {a}) \cup {b}
  OBVIOUS
<1> HIDE DEF cut
<1>4. b \in AskRecord /\ b.i = a.i /\ b.by = a.by
  BY <1>1, <1>2 DEF AskRecord
<1> HIDE DEF b
<1>5. StoreTypes' /\ WebTypes' /\ ViewTypes' /\ HistoryTypes'
  BY <1>3, <1>4 DEF StoreTypes, WebTypes, ViewTypes, HistoryTypes
<1>6. CallbacksWait'
  BY <1>3, <1>4 DEF CallbacksWait
<1> QED BY <1>5, <1>6

LEMMA AskedTypes ==
  ASSUME GatewayTypes, NEW a \in asks, Asked(a)
  PROVE  views' \in Partials(Auths, ViewRecord)
<1> USE DEF Asked, GatewayTypes
<1> DEFINE v == [says |-> a.cut.says, cut |-> a.cut.at, asked |-> now, exp |-> a.exp]
<1>1. a \in AskRecord
  BY DEF ViewTypes
<1>2. CASE HasView(a)
  <2>1. v \in ViewRecord
    BY <1>1, <1>2 DEF HasView, AskRecord, CutRecord, ViewRecord
  <2>2. views' = Put(views, a.i, v)
    <3>1. ~Refused(a)
      BY <1>2 DEF HasView, Refused
    <3> QED BY <1>2, <3>1
  <2>3. a.i \in Auths
    BY <1>1 DEF AskRecord
  <2> HIDE DEF v
  <2> QED BY <2>1, <2>2, <2>3, PutIsPartial DEF ViewTypes
<1>3. CASE ~HasView(a)
  <2>1. views' = Drop(views, a.i) \/ views' = views
    BY <1>3
  <2> QED BY <2>1, DropIsPartial DEF ViewTypes
<1> QED BY <1>2, <1>3

LEMMA CallbackEndsTypes ==
  ASSUME GatewayTypes, NEW a \in asks, CallbackEnds(a)
  PROVE  GatewayTypes'
<1> USE DEF CallbackEnds, GatewayTypes, web, bounds, history
<1> DEFINE s == signing[a.i]
           grant == [client |-> s.auth.client, uri |-> s.auth.uri, user |-> a.user, exp |-> a.exp,
                     expires |-> s.at + CodeTtl]
<1>1. a \in AskRecord /\ asks' = asks \ {a}
  BY DEF ViewTypes, Asked
<1>2. signing[a.i] \in CallbackRecord
  <2>1. a.i \in DOMAIN signing
    BY DEF CallbacksWait
  <2> QED BY <2>1, ValueIs DEF WebTypes
<1>3. grant \in Grants
  BY <1>1, <1>2, GatewayAssumption DEF AskRecord, CallbackRecord, Authorizations, Grants
<1>4. Issued(a.i, grant, s.at) \in Partials(Auths, Grants)
  <2> HIDE DEF grant, s
  <2>1. PICK ids \in SUBSET DOMAIN codes : Issued(a.i, grant, s.at) = Put(Only(codes, ids), a.i, grant)
    BY IssuedIs
  <2>2. Only(codes, ids) \in Partials(Auths, Grants)
    BY OnlyIsPartial DEF StoreTypes
  <2>3. a.i \in Auths
    BY <1>1 DEF AskRecord
  <2> QED BY <1>3, <2>1, <2>2, <2>3, PutIsPartial
<1>5. codes' = codes \/ codes' = Issued(a.i, grant, s.at)
  OBVIOUS
<1> HIDE DEF grant
<1>6. signing' \in Partials(Auths, CallbackRecord)
  BY DropIsPartial DEF WebTypes
<1>7. StoreTypes' /\ WebTypes' /\ ViewTypes' /\ HistoryTypes'
  <2>1. StoreTypes'
    BY <1>4, <1>5 DEF StoreTypes
  <2>2. ViewTypes'
    BY <1>1, AskedTypes DEF ViewTypes
  <2> QED BY <1>6, <2>1, <2>2 DEF WebTypes, HistoryTypes
<1>8. CallbacksWait'
  <2>1. DOMAIN signing' = DOMAIN signing \ {a.i}
    BY DropIs
  <2> QED BY <1>1, <2>1 DEF CallbacksWait
<1> QED BY <1>7, <1>8

LEMMA RequestEndsTypes ==
  ASSUME GatewayTypes, NEW a \in asks, RequestEnds(a)
  PROVE  GatewayTypes'
<1> USE DEF RequestEnds, GatewayTypes, store, web, bounds
<1>1. asks' = asks \ {a}
  BY DEF Asked
<1>2. StoreTypes' /\ WebTypes' /\ ViewTypes' /\ HistoryTypes'
  BY <1>1, AskedTypes DEF StoreTypes, WebTypes, ViewTypes, HistoryTypes
<1>3. CallbacksWait'
  BY <1>1 DEF CallbacksWait
<1> QED BY <1>2, <1>3

\* What a request asks a view for is what it came with.
AskedFor(i, req) ==
  [held |-> IF i \in DOMAIN Cached THEN Cached[i] ELSE None,
   init |-> req.init, header |-> req.header, version |-> Speaks(req)]

LEMMA AskedForIs ==
  ASSUME GatewayTypes, NEW i \in Auths, NEW req \in Requests
  PROVE  AskedFor(i, req) \in ReqRecord
<1>1. i \in DOMAIN Cached => Cached[i] \in ViewRecord
  BY CachedTypes, ValueIs
<1>2. req.header \in Spoken /\ Speaks(req) \in Spoken
  <2>1. req.header \in Spoken /\ req.body \in Spoken /\ None \in Spoken /\ Headerless \in Spoken
    BY DEF Spoken
  <2>2. Agreed(req.wants) \in Spoken
    BY DEF Spoken, Agreed, Legacy, NewestLegacy
  <2>3. CheckHeaders(req).negotiated \in Spoken
    BY <2>1 DEF CheckHeaders
  <2> QED BY <2>1, <2>2, <2>3 DEF Speaks
<1> QED BY <1>1, <1>2 DEF AskedFor, ReqRecord

LEMMA RequestTypes ==
  ASSUME GatewayTypes, NEW i \in Auths, NEW by \in 1 .. 2, NEW req \in Requests, Request(i, by, req)
  PROVE  GatewayTypes'
<1> USE DEF Request, GatewayTypes, store, web, bounds
<1> DEFINE a == Ask(i, by, tokens[i].user, tokens[i].exp, AskedFor(i, req))
<1>1. views' = Cached /\ (asks' = asks \/ asks' = asks \cup {a})
  BY DEF AskedFor
<1>2. a \in AskRecord
  <2>1. tokens[i] \in Sessions
    BY ValueIs DEF StoreTypes
  <2>2. AskedFor(i, req) \in ReqRecord
    BY AskedForIs
  <2> QED BY <2>1, <2>2 DEF Sessions, Ask, AskRecord
<1>3. a.by # Signing
  BY DEF Ask, Signing
<1> HIDE DEF a
<1>4. StoreTypes' /\ WebTypes' /\ ViewTypes' /\ HistoryTypes'
  BY <1>1, <1>2, CachedTypes DEF StoreTypes, WebTypes, ViewTypes, HistoryTypes
<1>5. CallbacksWait'
  BY <1>1, <1>3 DEF CallbacksWait
<1> QED BY <1>4, <1>5

LEMMA RestartTypes ==
  ASSUME GatewayTypes, Restart
  PROVE  GatewayTypes'
<1> USE DEF Restart, GatewayTypes, web, history
<1> DEFINE live == {j \in DOMAIN file : file[j].exp > now}
<1>1. tokens' = Only(file, live)
  BY DEF Keep, Only
<1>2. live \in SUBSET DOMAIN file
  OBVIOUS
<1> HIDE DEF live
<1>3. tokens' \in Partials(Auths, Sessions)
  BY <1>1, <1>2, OnlyIsPartial DEF StoreTypes
<1>4. StoreTypes' /\ WebTypes' /\ ViewTypes' /\ HistoryTypes'
  BY <1>3, EmptyIsPartial DEF StoreTypes, WebTypes, ViewTypes, HistoryTypes
<1>5. CallbacksWait'
  BY DEF CallbacksWait
<1> QED BY <1>4, <1>5

LEMMA EditTypes == ASSUME GatewayTypes, Edit PROVE GatewayTypes'
<1>1. policy' \in [Browsers -> Says]
  BY DEF GatewayTypes, Edit, ViewTypes, Says
<1> QED
  BY <1>1 DEF GatewayTypes, Edit, store, web, history, StoreTypes, WebTypes, ViewTypes,
              HistoryTypes, CallbacksWait

LEMMA TickTypes == ASSUME GatewayTypes, Tick PROVE GatewayTypes'
  BY DEF GatewayTypes, Tick, store, web, bounds, history, StoreTypes, WebTypes, ViewTypes,
         HistoryTypes, CallbacksWait

LEMMA InitTypes == Init => GatewayTypes
  BY EmptyIsPartial, GatewayAssumption
  DEF Init, GatewayTypes, StoreTypes, WebTypes, ViewTypes, HistoryTypes, CallbacksWait, Says

LEMMA TypesStep == GatewayTypes /\ [Next]_vars => GatewayTypes'
<1> SUFFICES ASSUME GatewayTypes, [Next]_vars PROVE GatewayTypes'
  OBVIOUS
<1>1. CASE UNCHANGED vars
  BY <1>1 DEF vars, GatewayTypes, StoreTypes, WebTypes, ViewTypes, HistoryTypes, CallbacksWait
<1>2. ASSUME NEW b \in Browsers, NEW c \in Clients, NEW uri \in Uris, Authorize(b, c, uri)
      PROVE  GatewayTypes'
  BY <1>2, AuthorizeTypes
<1>3. ASSUME NEW b \in Browsers, NEW i \in Auths, Confirm(b, i) \/ Callback(b, i)
      PROVE  GatewayTypes'
  BY <1>3, ConfirmTypes, CallbackTypes
<1>4. ASSUME NEW i \in Auths, Exchanged(i) PROVE GatewayTypes'
  BY <1>4, ExchangedTypes
<1>5. ASSUME NEW i \in Auths, NEW right \in BOOLEAN, Token(i, right) PROVE GatewayTypes'
  BY <1>5, TokenTypes
<1>6. ASSUME NEW i \in Auths, NEW by \in 1 .. 2, NEW req \in Requests, Request(i, by, req)
      PROVE  GatewayTypes'
  BY <1>6, RequestTypes
<1>7. ASSUME NEW a \in asks, Cuts(a) \/ CallbackEnds(a) \/ RequestEnds(a) PROVE GatewayTypes'
  BY <1>7, CutsTypes, CallbackEndsTypes, RequestEndsTypes
<1>8. CASE Edit \/ Restart \/ Tick
  BY <1>8, EditTypes, RestartTypes, TickTypes
<1> QED BY <1>1, <1>2, <1>3, <1>4, <1>5, <1>6, <1>7, <1>8 DEF Next

-----------------------------------------------------------------------------
(* How old a view is when it is served. *)

\* An ask is under way no longer than a wait, what answers it was cut since it began,
\* and a request's is told the version its header names.
AskIsRecent(a) ==
  /\ a.since <= now /\ now - a.since <= Wait
  /\ a.cut # None => a.since <= a.cut.at /\ a.cut.at <= now
  /\ a.by # Signing =>
       a.req \in ReqRecord /\ InItsVersion(a.req)

\* A view was no older than a wait when it came.
ViewIsRecent(v) == v.asked <= now /\ v.asked - v.cut <= Wait

RecentInv ==
  /\ \A a \in asks : AskIsRecent(a)
  /\ \A i \in DOMAIN views : ViewIsRecent(views[i])
  /\ ServedFromARecentView

\* The core is told the version that the header of a request it is given names.
LEMMA SpeaksItsVersion ==
  ASSUME NEW i, NEW req \in Requests, CheckHeaders(req).ok
  PROVE  InItsVersion(AskedFor(i, req))
<1>1. ~req.init /\ req.header # None => Speaks(req) = req.header
  BY DEF CheckHeaders, Speaks
<1>2. ASSUME req.init PROVE LET next == Onwards(Speaks(req))
                            IN CheckHeaders(next).ok /\ Speaks(next) = Speaks(req)
  <2>1. Speaks(req) \in Legacy
    BY <1>2 DEF Speaks, Agreed, Legacy, NewestLegacy
  <2> DEFINE v == Speaks(req)
             next == Onwards(v)
  <2>2. /\ next.header = v /\ next.body = None /\ next.init = FALSE
    BY DEF Onwards
  <2>3. v # None /\ v \notin Modern /\ v \in Supported
    BY <2>1, GatewayAssumption DEF Legacy, Modern, Supported
  <2> HIDE DEF next, v
  <2>4. CheckHeaders(next).ok
    BY <2>2, <2>3 DEF CheckHeaders
  <2>5. Speaks(next) = CheckHeaders(next).negotiated
    BY <2>2 DEF Speaks
  <2>6. CheckHeaders(next).negotiated = v
    BY <2>2, <2>3 DEF CheckHeaders
  <2> QED BY <2>4, <2>5, <2>6 DEF next, v
<1> QED BY <1>1, <1>2 DEF InItsVersion, AskedFor

LEMMA CachedAreRecent ==
  ASSUME RecentInv
  PROVE  \A i \in DOMAIN Cached : ViewIsRecent(Cached[i])
  BY DEF RecentInv, Cached, Keep

LEMMA AskedAreRecent ==
  ASSUME GatewayTypes, RecentInv, NEW a \in asks, Asked(a), now' = now
  PROVE  /\ \A b \in asks' : AskIsRecent(b)'
         /\ \A i \in DOMAIN views' : ViewIsRecent(views[i])'
<1> USE DEF Asked, RecentInv
<1>0. a \in AskRecord /\ now \in Nat
  BY DEF GatewayTypes, ViewTypes
<1>1. \A b \in asks' : AskIsRecent(b)'
  BY DEF AskIsRecent
<1> DEFINE v == [says |-> a.cut.says, cut |-> a.cut.at, asked |-> now, exp |-> a.exp]
<1>2. CASE HasView(a)
  <2>1. ~Refused(a) /\ a.cut \in CutRecord
    BY <1>0, <1>2 DEF HasView, Refused, AskRecord
  <2>2. views' = Put(views, a.i, v)
    BY <1>2, <2>1
  <2>3. v.asked <= now /\ v.asked - v.cut <= Wait
    BY <1>0, <1>2, <2>1, GatewayAssumption DEF HasView, AskIsRecent, AskRecord, CutRecord
  <2> HIDE DEF v
  <2> QED BY <1>1, <2>2, <2>3 DEF Put, ViewIsRecent
<1>3. CASE ~HasView(a)
  <2>1. views' = Drop(views, a.i) \/ views' = views
    BY <1>3
  <2> QED BY <1>1, <2>1 DEF Drop, ViewIsRecent
<1> QED BY <1>1, <1>2, <1>3

LEMMA RecentStep == GatewayTypes /\ RecentInv /\ [Next]_vars => RecentInv'
<1> SUFFICES ASSUME GatewayTypes, RecentInv, [Next]_vars PROVE RecentInv'
  OBVIOUS
<1>0. now \in Nat /\ asks \in SUBSET AskRecord /\ Wait \in Nat /\ Poll \in Nat \ {0}
  BY GatewayAssumption DEF GatewayTypes, ViewTypes
<1>1. ASSUME UNCHANGED <<now, asks, views, served>> PROVE RecentInv'
  BY <1>1 DEF RecentInv, AskIsRecent, ViewIsRecent, ServedFromARecentView
<1>2. ASSUME NEW i \in Auths, Exchanged(i) PROVE RecentInv'
  <2> DEFINE a == Ask(i, Signing, signing[i].browser, now + TokenLife, None)
  <2>1. \/ UNCHANGED <<asks, views>>
        \/ asks' = asks \cup {a} /\ views' = Cached
    BY <1>2 DEF Exchanged
  <2>2. UNCHANGED <<now, served>>
    BY <1>2 DEF Exchanged, history
  <2>3. a.since = now /\ a.cut = None /\ a.by = Signing
    BY DEF Ask
  <2> HIDE DEF a
  <2>4. AskIsRecent(a)
    BY <1>0, <2>3 DEF AskIsRecent
  <2>5. \A i_1 \in DOMAIN Cached : ViewIsRecent(Cached[i_1])
    BY CachedAreRecent
  <2> QED BY <1>1, <2>1, <2>2, <2>4, <2>5
          DEF RecentInv, AskIsRecent, ViewIsRecent, ServedFromARecentView
<1>3. ASSUME NEW a \in asks, Cuts(a) PROVE RecentInv'
  <2> DEFINE cut == [says |-> policy[a.user], at |-> now]
             b == [a EXCEPT !.cut = cut]
  <2>1. UNCHANGED <<now, views, served>> /\ asks' = (asks \ {a}) \cup {b}
    BY <1>3 DEF Cuts, history
  <2>2. b.since = a.since /\ b.by = a.by /\ b.req = a.req /\ b.cut.at = now
    BY <1>0 DEF AskRecord
  <2> HIDE DEF cut, b
  <2>3. a.since \in Nat
    BY <1>0 DEF AskRecord
  <2>4. AskIsRecent(b)
    BY <1>0, <2>2, <2>3 DEF RecentInv, AskIsRecent
  <2> QED BY <2>1, <2>4 DEF RecentInv, AskIsRecent, ViewIsRecent, ServedFromARecentView
<1>4. ASSUME NEW a \in asks, CallbackEnds(a) PROVE RecentInv'
  BY <1>4, AskedAreRecent DEF RecentInv, CallbackEnds, history, ServedFromARecentView
<1>5. ASSUME NEW a \in asks, RequestEnds(a) PROVE RecentInv'
  <2>1. Asked(a) /\ a.by # Signing /\ now' = now
    BY <1>5 DEF RequestEnds
  <2>2. InItsVersion(a.req)
    BY <2>1 DEF RecentInv, AskIsRecent
  <2>3. CASE HasView(a)
    <3>1. served' = Answer([cut |-> a.cut.at], FALSE, a.req)
      <4>1. a.cut # None
        BY <2>3 DEF HasView
      <4> QED BY <1>5, <2>3, <4>1 DEF RequestEnds
    <3>2. now - a.cut.at < Poll + Wait
      <4>1. a.cut \in CutRecord /\ a.since \in Nat
        BY <1>0, <2>3 DEF AskRecord, HasView
      <4>2. a.since <= a.cut.at /\ now - a.since <= Wait
        BY <2>3 DEF HasView, RecentInv, AskIsRecent
      <4> QED BY <1>0, <4>1, <4>2 DEF CutRecord
    <3> QED BY <2>1, <2>2, <3>1, <3>2, AskedAreRecent DEF RecentInv, ServedFromARecentView, Answer, InItsVersion
  <2>4. CASE ~HasView(a) /\ a.cut = None /\ a.req.held # None
    <3>1. served' = Answer(a.req.held, TRUE, a.req)
      BY <1>5, <2>4 DEF RequestEnds
    <3> QED BY <1>0, <2>1, <2>2, <3>1, AskedAreRecent DEF RecentInv, ServedFromARecentView, Answer, InItsVersion
  <2>5. CASE ~HasView(a) /\ ~(a.cut = None /\ a.req.held # None)
    <3>1. served' = served
      BY <1>5, <2>5 DEF RequestEnds
    <3> QED BY <2>1, <3>1, AskedAreRecent DEF RecentInv, ServedFromARecentView
  <2> QED BY <2>3, <2>4, <2>5
<1>6. ASSUME NEW i \in Auths, NEW by \in 1 .. 2, NEW req \in Requests, Request(i, by, req)
      PROVE  RecentInv'
  <2> DEFINE held == IF i \in DOMAIN Cached THEN Cached[i] ELSE None
             a == Ask(i, by, tokens[i].user, tokens[i].exp, AskedFor(i, req))
  <2>1. CheckHeaders(req).ok /\ views' = Cached /\ now' = now
    BY <1>6 DEF Request
  <2>2. InItsVersion(AskedFor(i, req))
    BY <2>1, SpeaksItsVersion
  <2>3. \A j \in DOMAIN views' : ViewIsRecent(views[j])'
    BY <2>1, CachedAreRecent DEF ViewIsRecent
  <2>4. CASE held # None /\ AskedLately(held)
    <3>1. served' = Answer(held, FALSE, AskedFor(i, req)) /\ asks' = asks
      BY <1>6, <2>4 DEF Request, AskedFor
    <3>2. held \in ViewRecord /\ ViewIsRecent(held)
      BY <2>4, CachedTypes, CachedAreRecent, ValueIs
    <3>3. now - held.cut < Poll + Wait
      BY <1>0, <2>4, <3>2 DEF ViewRecord, ViewIsRecent, AskedLately
    <3>4. ServedFromARecentView'
      BY <2>2, <3>1, <3>3 DEF ServedFromARecentView, Answer, AskedFor, InItsVersion
    <3> QED BY <2>1, <2>3, <3>1, <3>4 DEF RecentInv, AskIsRecent
  <2>5. CASE ~(held # None /\ AskedLately(held))
    <3>1. asks' = asks \cup {a} /\ served' = served
      BY <1>6, <2>5 DEF Request, AskedFor
    <3>2. AskIsRecent(a)
      <4>1. a.since = now /\ a.cut = None /\ a.req = AskedFor(i, req)
        BY DEF Ask
      <4>2. AskedFor(i, req) \in ReqRecord
        BY AskedForIs
      <4>3. InItsVersion(a.req)
        BY <2>2, <4>1
      <4> HIDE DEF a
      <4> QED BY <1>0, <4>1, <4>2, <4>3 DEF AskIsRecent
    <3> HIDE DEF a
    <3> QED BY <2>1, <2>3, <3>1, <3>2 DEF RecentInv, AskIsRecent, ServedFromARecentView
  <2> QED BY <2>4, <2>5
<1>7. CASE Restart
  BY <1>7 DEF Restart, RecentInv, history, ServedFromARecentView, Empty
<1>8. CASE Tick
  <2>1. \A a \in asks : a.since \in Nat /\ (a.cut # None => a.cut.at \in Nat)
    BY <1>0 DEF AskRecord, CutRecord
  <2>2. \A i \in DOMAIN views : views[i] \in ViewRecord
    BY ValueIs DEF GatewayTypes, ViewTypes
  <2>3. UNCHANGED <<asks, views, served>> /\ now' = now + 1 /\ \A a \in asks : now - a.since < Wait
    BY <1>8 DEF Tick, history
  <2>4. \A a \in asks : AskIsRecent(a)'
    BY <1>0, <2>1, <2>3 DEF RecentInv, AskIsRecent
  <2>5. \A i \in DOMAIN views' : ViewIsRecent(views[i])'
    BY <1>0, <2>2, <2>3 DEF RecentInv, ViewIsRecent, ViewRecord
  <2> QED BY <2>3, <2>4, <2>5 DEF RecentInv, ServedFromARecentView
<1>9. ASSUME NEW b \in Browsers, NEW c \in Clients, NEW uri \in Uris, Authorize(b, c, uri)
      PROVE  RecentInv'
  BY <1>1, <1>9 DEF Authorize
<1>10. ASSUME NEW b \in Browsers, NEW i \in Auths, Confirm(b, i) \/ Callback(b, i)
       PROVE  RecentInv'
  BY <1>1, <1>10 DEF Confirm, Callback, history
<1>11. ASSUME NEW i \in Auths, NEW right \in BOOLEAN, Token(i, right) PROVE RecentInv'
  BY <1>1, <1>11 DEF Token
<1>12. CASE Edit
  BY <1>1, <1>12 DEF Edit, history
<1>13. CASE UNCHANGED vars
  BY <1>1, <1>13 DEF vars
<1> QED
  BY <1>2, <1>3, <1>4, <1>5, <1>6, <1>7, <1>8, <1>9, <1>10, <1>11, <1>12, <1>13 DEF Next

\* While directories answer, no request is served from a view cut a poll and a wait ago,
\* and the core speaks the version its header names (mod.rs, Views.ask; mcp_http.rs).
THEOREM GatewayServesRecentViews == Spec => []ServedFromARecentView
<1>1. Init => RecentInv
  BY GatewayAssumption DEF Init, RecentInv, ServedFromARecentView, InItsVersion, Empty, NotServed
<1> QED BY <1>1, InitTypes, TypesStep, RecentStep, PTL DEF Spec, RecentInv

-----------------------------------------------------------------------------
(* Whom a token speaks for, and how long. *)

\* Authorizations are numbered as they begin.
Numbered ==
  /\ DOMAIN pending \cup DOMAIN signing \cup DOMAIN codes \subseteq 1 .. began
  /\ DOMAIN tokens \cup DOMAIN file \cup DOMAIN given \cup DOMAIN confirmed \subseteq 1 .. began
  /\ \A b \in Browsers : {consent[b], callback[b]} \subseteq 1 .. began \cup {None}

Ended == DOMAIN tokens \cup DOMAIN file \cup DOMAIN given

\* An authorization waits for its callback, is in the exchange, has a code or has had its
\* token: one of these.
OneStage ==
  /\ DOMAIN pending \cap DOMAIN signing = {}
  /\ DOMAIN pending \cap DOMAIN codes = {} /\ DOMAIN signing \cap DOMAIN codes = {}
  /\ Ended \cap (DOMAIN pending \cup DOMAIN signing \cup DOMAIN codes) = {}

\* The browser that an authorization is in, by its cookies and by what was confirmed.
OneBrowser ==
  /\ \A b, c \in Browsers : consent[b] = consent[c] /\ consent[b] # None => b = c
  /\ \A b \in Browsers : consent[b] \in DOMAIN confirmed => confirmed[consent[b]].browser = b
  /\ \A b \in Browsers : callback[b] # None =>
       callback[b] \in DOMAIN confirmed /\ confirmed[callback[b]].browser = b

WasConfirmed(i, user, client) ==
  i \in DOMAIN confirmed /\ confirmed[i] = [browser |-> user, client |-> client]

\* What it came to is of the person and the client that were confirmed.
AsConfirmed ==
  /\ \A i \in DOMAIN pending : i \in DOMAIN confirmed => confirmed[i].client = pending[i].client
  /\ \A i \in DOMAIN signing : WasConfirmed(i, signing[i].browser, signing[i].auth.client)
  /\ \A a \in asks : a.by = Signing => a.user = signing[a.i].browser
  /\ \A i \in DOMAIN codes : WasConfirmed(i, codes[i].user, codes[i].client)
  /\ \A i \in DOMAIN tokens : WasConfirmed(i, tokens[i].user, tokens[i].client)
  /\ \A i \in DOMAIN file : WasConfirmed(i, file[i].user, file[i].client)

\* A token that was given was given once, and while it lasts is in the file as in memory.
GivenOnce ==
  \A i \in DOMAIN given :
    /\ given[i].times = 1
    /\ given[i].exp > now =>
         /\ i \in DOMAIN tokens /\ tokens[i].exp = given[i].exp
         /\ i \in DOMAIN file /\ file[i].exp = given[i].exp

DueInv == Numbered /\ OneStage /\ OneBrowser /\ AsConfirmed /\ GivenOnce

\* What was confirmed stays so.
LEMMA StaysConfirmed ==
  ASSUME UNCHANGED confirmed
  PROVE  \A i, user, client : WasConfirmed(i, user, client)' <=> WasConfirmed(i, user, client)
  BY DEF WasConfirmed

LEMMA AuthorizeIsDue ==
  ASSUME GatewayTypes, DueInv, NEW b \in Browsers, NEW client \in Clients, NEW uri \in Uris,
         Authorize(b, client, uri)
  PROVE  DueInv'
<1> USE DEF DueInv
<1> DEFINE k == began + 1
           auth == [client |-> client.id, uri |-> uri, created |-> now]
<1>1. /\ began' = k /\ began \in Nat /\ pending' = Begun(k, auth)
      /\ consent' = [consent EXCEPT ![b] = k] /\ consent \in [Browsers -> Auths \cup {None}]
      /\ UNCHANGED <<now, codes, tokens, file, callback, signing, asks, confirmed, given>>
  BY DEF Authorize, GatewayTypes, HistoryTypes, WebTypes
<1> HIDE DEF auth
<1>2. PICK ids \in SUBSET DOMAIN pending : pending' = Put(Only(pending, ids), k, auth)
  BY <1>1, BegunIs
<1>3. /\ DOMAIN pending' = ids \cup {k}
      /\ \A j \in ids : j # k => pending'[j] = pending[j]
  BY <1>2 DEF Put, Only
<1>4. /\ k \notin DOMAIN pending \cup DOMAIN signing \cup DOMAIN codes
      /\ k \notin Ended \cup DOMAIN confirmed
      /\ k # None /\ \A c \in Browsers : consent[c] # k /\ callback[c] # k
  <2>1. k \notin 1 .. began
    BY <1>1
  <2>2. k # None
    BY <1>1, GatewayAssumption DEF Authorize, Auths, GatewayTypes, HistoryTypes
  <2> HIDE DEF k
  <2> QED BY <2>1, <2>2 DEF Numbered, Ended
<1>5. 1 .. began \subseteq 1 .. began' /\ k \in 1 .. began'
  BY <1>1
<1> HIDE DEF k
<1>6. Numbered'
  BY <1>1, <1>2, <1>3, <1>5 DEF Numbered
<1>7. OneStage'
  BY <1>1, <1>3, <1>4 DEF OneStage, Ended
<1>8. OneBrowser'
  BY <1>1, <1>4 DEF OneBrowser
<1>9. AsConfirmed'
  BY <1>1, <1>3, <1>4, StaysConfirmed DEF AsConfirmed
<1>10. GivenOnce'
  BY <1>1 DEF GivenOnce
<1> QED BY <1>6, <1>7, <1>8, <1>9, <1>10

LEMMA ConfirmIsDue ==
  ASSUME GatewayTypes, DueInv, NEW b \in Browsers, NEW i \in Auths, Confirm(b, i)
  PROVE  DueInv'
<1> USE DEF DueInv
<1> DEFINE v == [browser |-> b, client |-> pending[i].client]
<1>1. /\ consent[b] = i /\ i \in DOMAIN pending /\ i # None
      /\ callback' = [callback EXCEPT ![b] = i] /\ callback \in [Browsers -> Auths \cup {None}]
      /\ confirmed' = Put(confirmed, i, v)
      /\ UNCHANGED <<now, pending, codes, tokens, file, consent, signing, asks, began, given>>
  BY GatewayAssumption DEF Confirm, store, GatewayTypes, WebTypes
<1>2. v.browser = b /\ v.client = pending[i].client
  OBVIOUS
<1> HIDE DEF v
<1>3. /\ DOMAIN confirmed' = DOMAIN confirmed \cup {i} /\ confirmed'[i] = v
      /\ \A j \in DOMAIN confirmed : j # i => confirmed'[j] = confirmed[j]
  BY <1>1 DEF Put
<1>4. i \notin DOMAIN signing \cup DOMAIN codes \cup Ended
  BY <1>1 DEF OneStage
<1>5. \A j, user, client : j # i /\ WasConfirmed(j, user, client) => WasConfirmed(j, user, client)'
  BY <1>3 DEF WasConfirmed
<1>6. Numbered'
  BY <1>1, <1>3 DEF Numbered
<1>7. OneStage'
  BY <1>1 DEF OneStage, Ended
<1>8. OneBrowser'
  <2>1. \A c \in Browsers : consent[c] = i => c = b
    BY <1>1 DEF OneBrowser
  <2>2. \A c \in Browsers : callback[c] = i => c = b
    <3> SUFFICES ASSUME NEW c \in Browsers, callback[c] = i PROVE c = b
      OBVIOUS
    <3>1. i \in DOMAIN confirmed /\ confirmed[i].browser = c
      BY <1>1 DEF OneBrowser
    <3>2. confirmed[i].browser = b
      BY <1>1, <3>1 DEF OneBrowser
    <3> QED BY <3>1, <3>2
  <2> QED BY <1>1, <1>2, <1>3, <2>1, <2>2 DEF OneBrowser
<1>9. AsConfirmed'
  <2>1. \A j \in DOMAIN pending : j \in DOMAIN confirmed' => confirmed'[j].client = pending[j].client
    BY <1>2, <1>3 DEF AsConfirmed
  <2> QED BY <1>1, <1>4, <1>5, <2>1 DEF AsConfirmed, Ended
<1>10. GivenOnce'
  BY <1>1 DEF GivenOnce
<1> QED BY <1>6, <1>7, <1>8, <1>9, <1>10

LEMMA CallbackIsDue ==
  ASSUME GatewayTypes, DueInv, NEW b \in Browsers, NEW i \in Auths, Callback(b, i)
  PROVE  DueInv'
<1> USE DEF DueInv
<1> DEFINE v == [browser |-> b, auth |-> pending[i], at |-> now]
<1>1. /\ callback[b] = i /\ i \in DOMAIN pending /\ i # None
      /\ pending' = Drop(pending, i)
      /\ signing' = signing \/ signing' = Put(signing, i, v)
      /\ UNCHANGED <<now, codes, tokens, file, consent, callback, asks, began, confirmed, given>>
  BY GatewayAssumption DEF Callback, SameBrowser, web, history
<1>2. v.browser = b /\ v.auth = pending[i]
  OBVIOUS
<1> HIDE DEF v
<1>3. /\ DOMAIN pending' = DOMAIN pending \ {i}
      /\ \A j \in DOMAIN pending' : pending'[j] = pending[j]
  BY <1>1 DEF Drop
<1>4. /\ DOMAIN signing \subseteq DOMAIN signing' /\ DOMAIN signing' \subseteq DOMAIN signing \cup {i}
      /\ \A j \in DOMAIN signing' : j # i => signing'[j] = signing[j]
      /\ i \in DOMAIN signing' => signing'[i] = v
  <2>1. i \notin DOMAIN signing
    BY <1>1 DEF OneStage
  <2>2. CASE signing' = signing
    BY <2>1, <2>2
  <2>3. CASE signing' = Put(signing, i, v)
    BY <2>3 DEF Put
  <2> QED BY <1>1, <2>2, <2>3
<1>5. Numbered'
  BY <1>1, <1>3, <1>4 DEF Numbered
<1>6. OneStage'
  BY <1>1, <1>3, <1>4 DEF OneStage, Ended
<1>7. OneBrowser'
  BY <1>1 DEF OneBrowser
<1>8. AsConfirmed'
  <2>1. WasConfirmed(i, b, pending[i].client)
    <3>1. i \in DOMAIN confirmed /\ confirmed[i].browser = b
      BY <1>1 DEF OneBrowser
    <3>2. confirmed[i].client = pending[i].client
      BY <1>1, <3>1 DEF AsConfirmed
    <3>3. confirmed[i] \in Confirmations
      BY <3>1, ValueIs DEF GatewayTypes, HistoryTypes
    <3> QED BY <3>1, <3>2, <3>3 DEF WasConfirmed, Confirmations
  <2>2. \A j \in DOMAIN signing' : WasConfirmed(j, signing'[j].browser, signing'[j].auth.client)
    BY <1>2, <1>4, <2>1 DEF AsConfirmed
  <2>3. \A a \in asks : a.by = Signing => a.i \in DOMAIN signing /\ a.i # i
    BY <1>1 DEF GatewayTypes, CallbacksWait, OneStage
  <2>4. \A a \in asks : a.by = Signing => a.user = signing'[a.i].browser
    BY <1>4, <2>3 DEF AsConfirmed
  <2> QED BY <1>1, <1>3, <2>2, <2>4, StaysConfirmed DEF AsConfirmed
<1>9. GivenOnce'
  BY <1>1 DEF GivenOnce
<1> QED BY <1>5, <1>6, <1>7, <1>8, <1>9

LEMMA ExchangedIsDue ==
  ASSUME GatewayTypes, DueInv, NEW i \in Auths, Exchanged(i)
  PROVE  DueInv'
<1> USE DEF DueInv
<1> DEFINE a == Ask(i, Signing, signing[i].browser, now + TokenLife, None)
<1>1. /\ UNCHANGED <<now, pending, codes, tokens, file, consent, callback, began, confirmed, given>>
      /\ \A c \in asks : c.i # i
      /\ \/ signing' = signing /\ asks' = asks \cup {a}
         \/ signing' = Drop(signing, i) /\ asks' = asks
  BY DEF Exchanged, store, web, history
<1>2. a.i = i /\ a.user = signing[i].browser
  BY DEF Ask
<1> HIDE DEF a
<1>3. /\ DOMAIN signing' \subseteq DOMAIN signing
      /\ \A j \in DOMAIN signing' : signing'[j] = signing[j]
      /\ \A j \in DOMAIN signing : j # i => signing'[j] = signing[j]
  BY <1>1 DEF Drop
<1>4. \A c \in asks' : c.by = Signing => c.user = signing'[c.i].browser
  <2>1. \A c \in asks : c.by = Signing => c.i \in DOMAIN signing /\ c.user = signing[c.i].browser
    BY DEF GatewayTypes, CallbacksWait, AsConfirmed
  <2> QED BY <1>1, <1>2, <1>3, <2>1
<1>5. Numbered' /\ OneStage'
  BY <1>1, <1>3 DEF Numbered, OneStage, Ended
<1>6. OneBrowser' /\ GivenOnce'
  BY <1>1 DEF OneBrowser, GivenOnce
<1>7. AsConfirmed'
  BY <1>1, <1>3, <1>4, StaysConfirmed DEF AsConfirmed
<1> QED BY <1>5, <1>6, <1>7

LEMMA TokenIsDue ==
  ASSUME GatewayTypes, DueInv, NEW i \in Auths, NEW right \in BOOLEAN, Token(i, right)
  PROVE  DueInv'
<1> USE DEF DueInv
<1> DEFINE grant == codes[i]
           session == [client |-> grant.client, user |-> grant.user, exp |-> grant.exp]
           gift == [exp |-> grant.exp,
                    times |-> IF i \in DOMAIN given THEN given[i].times + 1 ELSE 1]
           live == {j \in DOMAIN tokens : tokens[j].exp > now}
<1>1. /\ i \in DOMAIN codes /\ codes' = Drop(codes, i)
      /\ UNCHANGED <<now, pending, consent, callback, signing, asks, began, confirmed>>
      /\ \/ UNCHANGED <<tokens, file, given>>
         \/ /\ tokens' = WithToken(i, session)
            /\ \/ file' = tokens' /\ given' = Put(given, i, gift)
               \/ UNCHANGED <<file, given>>
  BY DEF Token, RedeemCode, web
<1>2. WithToken(i, session) = Put(Only(tokens, live), i, session)
  BY DEF WithToken, Keep, Only
<1>3. i \notin Ended \cup DOMAIN pending \cup DOMAIN signing /\ i \in 1 .. began
  BY <1>1 DEF OneStage, Numbered
<1>4. /\ session.client = codes[i].client /\ session.user = codes[i].user
      /\ session.exp = gift.exp /\ gift.times = 1
  BY <1>3 DEF Ended
<1>5. \A j \in live : j \in DOMAIN tokens
  OBVIOUS
<1>6. \A j \in DOMAIN tokens : tokens[j].exp > now => j \in live
  OBVIOUS
<1> HIDE DEF session, gift, live
<1>7. /\ DOMAIN codes' = DOMAIN codes \ {i}
      /\ \A j \in DOMAIN codes' : codes'[j] = codes[j]
  BY <1>1 DEF Drop
<1>8. CASE UNCHANGED <<tokens, file, given>>
  <2>1. Numbered' /\ OneStage' /\ OneBrowser' /\ GivenOnce'
    BY <1>1, <1>7, <1>8 DEF Numbered, OneStage, Ended, OneBrowser, GivenOnce
  <2>2. AsConfirmed'
    BY <1>1, <1>7, <1>8, StaysConfirmed DEF AsConfirmed
  <2> QED BY <2>1, <2>2
<1>9. CASE /\ tokens' = WithToken(i, session)
           /\ \/ file' = tokens' /\ given' = Put(given, i, gift)
              \/ UNCHANGED <<file, given>>
  <2>1. /\ DOMAIN tokens' = live \cup {i} /\ tokens'[i] = session
        /\ \A j \in live : j # i => tokens'[j] = tokens[j]
    BY <1>2, <1>9 DEF Put, Only
  <2>2. \/ file' = file
        \/ /\ DOMAIN file' = live \cup {i} /\ file'[i] = session
           /\ \A j \in live : j # i => file'[j] = tokens[j]
    BY <1>9, <2>1
  <2>3. \/ given' = given
        \/ /\ DOMAIN given' = DOMAIN given \cup {i} /\ given'[i] = gift /\ file' = tokens'
           /\ \A j \in DOMAIN given : j # i => given'[j] = given[j]
    BY <1>9 DEF Put
  <2>4. Numbered'
    BY <1>1, <1>3, <1>5, <1>7, <2>1, <2>2, <2>3 DEF Numbered
  <2>5. OneStage'
    BY <1>1, <1>3, <1>5, <1>7, <2>1, <2>2, <2>3 DEF OneStage, Ended
  <2>6. OneBrowser'
    BY <1>1 DEF OneBrowser
  <2>7. AsConfirmed'
    <3>1. WasConfirmed(i, session.user, session.client)
      BY <1>1, <1>4 DEF AsConfirmed
    <3>2. \A j \in DOMAIN tokens' : WasConfirmed(j, tokens'[j].user, tokens'[j].client)
      BY <1>5, <2>1, <3>1 DEF AsConfirmed
    <3>3. \A j \in DOMAIN file' : WasConfirmed(j, file'[j].user, file'[j].client)
      BY <1>5, <2>2, <3>1 DEF AsConfirmed
    <3> QED BY <1>1, <1>7, <3>2, <3>3, StaysConfirmed DEF AsConfirmed
  <2>8. GivenOnce'
    <3>1. \A j \in DOMAIN given : given[j].exp > now =>
            j \in live /\ j # i /\ tokens[j].exp = given[j].exp
            /\ j \in DOMAIN file /\ file[j].exp = given[j].exp
      BY <1>3, <1>6 DEF GivenOnce, Ended
    <3>2. i \notin DOMAIN given
      BY <1>3 DEF Ended
    <3>3. CASE given' = given
      BY <1>1, <2>1, <2>2, <3>1, <3>3 DEF GivenOnce
    <3>4. CASE given' # given
      BY <1>1, <1>4, <2>1, <2>3, <3>1, <3>2, <3>4 DEF GivenOnce
    <3> QED BY <3>3, <3>4
  <2> QED BY <2>4, <2>5, <2>6, <2>7, <2>8
<1> QED BY <1>1, <1>8, <1>9

LEMMA CutsIsDue ==
  ASSUME GatewayTypes, DueInv, NEW a \in asks, Cuts(a)
  PROVE  DueInv'
<1> USE DEF DueInv
<1> DEFINE cut == [says |-> policy[a.user], at |-> now]
           b == [a EXCEPT !.cut = cut]
<1>1. /\ UNCHANGED <<now, pending, codes, tokens, file, consent, callback, signing, began,
                     confirmed, given>>
      /\ asks' = (asks \ {a}) \cup {b}
  BY DEF Cuts, store, web, history
<1>2. b.i = a.i /\ b.by = a.by /\ b.user = a.user
  BY DEF GatewayTypes, ViewTypes, AskRecord
<1> HIDE DEF b
<1>3. Numbered' /\ OneStage' /\ OneBrowser' /\ GivenOnce'
  BY <1>1 DEF Numbered, OneStage, Ended, OneBrowser, GivenOnce
<1>4. AsConfirmed'
  BY <1>1, <1>2, StaysConfirmed DEF AsConfirmed
<1> QED BY <1>3, <1>4

LEMMA CallbackEndsIsDue ==
  ASSUME GatewayTypes, DueInv, NEW a \in asks, CallbackEnds(a)
  PROVE  DueInv'
<1> USE DEF DueInv
<1> DEFINE s == signing[a.i]
           grant == [client |-> s.auth.client, uri |-> s.auth.uri, user |-> a.user, exp |-> a.exp,
                     expires |-> s.at + CodeTtl]
<1>1. /\ UNCHANGED <<now, pending, tokens, file, consent, callback, began, confirmed, given>>
      /\ asks' = asks \ {a} /\ a.by = Signing
      /\ codes' = codes \/ codes' = Issued(a.i, grant, s.at)
      /\ signing' = Drop(signing, a.i)
  BY DEF CallbackEnds, Asked, web, history
<1>2. grant.client = signing[a.i].auth.client /\ grant.user = a.user
  OBVIOUS
<1> HIDE DEF grant, s
<1>3. a.i \in DOMAIN signing /\ a.user = signing[a.i].browser
  BY <1>1 DEF GatewayTypes, CallbacksWait, AsConfirmed
<1>4. a.i \notin DOMAIN pending \cup Ended /\ a.i \in 1 .. began
  BY <1>3 DEF OneStage, Numbered
<1>5. PICK ids \in SUBSET DOMAIN codes : Issued(a.i, grant, s.at) = Put(Only(codes, ids), a.i, grant)
  BY IssuedIs
<1>6. \/ codes' = codes
      \/ /\ DOMAIN codes' = ids \cup {a.i} /\ codes'[a.i] = grant
         /\ \A j \in ids : j # a.i => codes'[j] = codes[j]
  BY <1>1, <1>5 DEF Put, Only
<1>7. /\ DOMAIN signing' = DOMAIN signing \ {a.i}
      /\ \A j \in DOMAIN signing' : signing'[j] = signing[j]
  BY <1>1 DEF Drop
<1>8. Numbered'
  BY <1>1, <1>4, <1>6, <1>7 DEF Numbered
<1>9. OneStage'
  BY <1>1, <1>4, <1>6, <1>7 DEF OneStage, Ended
<1>10. OneBrowser' /\ GivenOnce'
  BY <1>1 DEF OneBrowser, GivenOnce
<1>11. AsConfirmed'
  <2>1. WasConfirmed(a.i, grant.user, grant.client)
    BY <1>2, <1>3 DEF AsConfirmed
  <2>2. \A j \in DOMAIN codes' : WasConfirmed(j, codes'[j].user, codes'[j].client)
    BY <1>6, <2>1 DEF AsConfirmed
  <2>3. \A c \in asks' : c.by = Signing => c.user = signing'[c.i].browser
    <3>1. \A c \in asks' : c \in asks /\ (c.by = Signing => c.i \in DOMAIN signing /\ c.i # a.i)
      BY <1>1 DEF GatewayTypes, CallbacksWait
    <3> QED BY <1>7, <3>1 DEF AsConfirmed
  <2> QED BY <1>1, <1>7, <2>2, <2>3, StaysConfirmed DEF AsConfirmed
<1> QED BY <1>8, <1>9, <1>10, <1>11

LEMMA RequestsAreDue ==
  ASSUME GatewayTypes, DueInv,
         UNCHANGED <<now, pending, codes, tokens, file, consent, callback, signing, began,
                     confirmed, given>>,
         \A a \in asks' : a \in asks \/ a.by # Signing
  PROVE  DueInv'
<1>1. Numbered' /\ OneStage' /\ OneBrowser' /\ GivenOnce'
  BY DEF DueInv, Numbered, OneStage, Ended, OneBrowser, GivenOnce
<1>2. AsConfirmed'
  BY StaysConfirmed DEF DueInv, AsConfirmed
<1> QED BY <1>1, <1>2 DEF DueInv

LEMMA RestartIsDue ==
  ASSUME GatewayTypes, DueInv, Restart
  PROVE  DueInv'
<1> USE DEF DueInv
<1> DEFINE live == {j \in DOMAIN file : file[j].exp > now}
<1>1. /\ UNCHANGED <<now, file, consent, callback, began, confirmed, given>>
      /\ pending' = Empty /\ codes' = Empty /\ signing' = Empty /\ asks' = {}
      /\ tokens' = Only(file, live)
  BY DEF Restart, web, history, Keep, Only
<1>2. \A j : j \in live <=> j \in DOMAIN file /\ file[j].exp > now
  OBVIOUS
<1> HIDE DEF live
<1>3. DOMAIN tokens' = live /\ \A j \in live : tokens'[j] = file[j]
  BY <1>1 DEF Only
<1>4. DOMAIN Empty = {}
  BY DEF Empty
<1>5. Numbered' /\ OneStage' /\ OneBrowser'
  BY <1>1, <1>2, <1>3, <1>4 DEF Numbered, OneStage, Ended, OneBrowser
<1>6. AsConfirmed'
  BY <1>1, <1>2, <1>3, <1>4, StaysConfirmed DEF AsConfirmed
<1>7. GivenOnce'
  BY <1>1, <1>2, <1>3 DEF GivenOnce
<1> QED BY <1>5, <1>6, <1>7

LEMMA TickIsDue ==
  ASSUME GatewayTypes, DueInv, Tick
  PROVE  DueInv'
<1>1. /\ UNCHANGED <<pending, codes, tokens, file, consent, callback, signing, asks, began,
                     confirmed, given>>
      /\ now' = now + 1 /\ now \in Nat
  BY DEF Tick, store, web, history, GatewayTypes
<1>2. GivenOnce'
  <2>1. \A i \in DOMAIN given : given[i].exp \in Nat
    <3> TAKE i \in DOMAIN given
    <3>1. given[i] \in Gifts
      BY ValueIs DEF GatewayTypes, HistoryTypes
    <3> QED BY <3>1 DEF Gifts
  <2>2. \A i \in DOMAIN given : given[i].exp > now + 1 => given[i].exp > now
    BY <1>1, <2>1
  <2> QED BY <1>1, <2>2 DEF DueInv, GivenOnce
<1>3. Numbered' /\ OneStage' /\ OneBrowser'
  BY <1>1 DEF DueInv, Numbered, OneStage, Ended, OneBrowser
<1>4. AsConfirmed'
  BY <1>1, StaysConfirmed DEF DueInv, AsConfirmed
<1> QED BY <1>2, <1>3, <1>4 DEF DueInv

LEMMA InitDue == Init => DueInv
  BY DEF Init, DueInv, Numbered, OneStage, Ended, OneBrowser, AsConfirmed, GivenOnce, Empty

LEMMA DueStep == GatewayTypes /\ DueInv /\ [Next]_vars => DueInv'
<1> SUFFICES ASSUME GatewayTypes, DueInv, [Next]_vars PROVE DueInv'
  OBVIOUS
<1>1. ASSUME NEW b \in Browsers, NEW c \in Clients, NEW uri \in Uris, Authorize(b, c, uri)
      PROVE  DueInv'
  BY <1>1, AuthorizeIsDue
<1>2. ASSUME NEW b \in Browsers, NEW i \in Auths, Confirm(b, i) \/ Callback(b, i)
      PROVE  DueInv'
  BY <1>2, ConfirmIsDue, CallbackIsDue
<1>3. ASSUME NEW i \in Auths, Exchanged(i) PROVE DueInv'
  BY <1>3, ExchangedIsDue
<1>4. ASSUME NEW i \in Auths, NEW right \in BOOLEAN, Token(i, right) PROVE DueInv'
  BY <1>4, TokenIsDue
<1>5. ASSUME NEW i \in Auths, NEW by \in 1 .. 2, NEW req \in Requests, Request(i, by, req)
      PROVE  DueInv'
  <2> DEFINE a == Ask(i, by, tokens[i].user, tokens[i].exp, AskedFor(i, req))
  <2>1. asks' = asks \/ asks' = asks \cup {a}
    BY <1>5 DEF Request, AskedFor
  <2>2. a.by # Signing
    BY DEF Ask, Signing
  <2> HIDE DEF a
  <2>3. UNCHANGED <<now, pending, codes, tokens, file, consent, callback, signing, began,
                    confirmed, given>>
    BY <1>5 DEF Request, store, web
  <2> QED BY <2>1, <2>2, <2>3, RequestsAreDue
<1>6. ASSUME NEW a \in asks, Cuts(a) \/ CallbackEnds(a) PROVE DueInv'
  BY <1>6, CutsIsDue, CallbackEndsIsDue
<1>7. ASSUME NEW a \in asks, RequestEnds(a) PROVE DueInv'
  <2>1. asks' = asks \ {a}
    BY <1>7 DEF RequestEnds, Asked
  <2>2. UNCHANGED <<now, pending, codes, tokens, file, consent, callback, signing, began,
                    confirmed, given>>
    BY <1>7 DEF RequestEnds, store, web
  <2> QED BY <2>1, <2>2, RequestsAreDue
<1>8. CASE Restart \/ Tick
  BY <1>8, RestartIsDue, TickIsDue
<1>9. CASE Edit \/ UNCHANGED vars
  BY <1>9, RequestsAreDue DEF Edit, vars, store, web, history
<1> QED BY <1>1, <1>2, <1>3, <1>4, <1>5, <1>6, <1>7, <1>8, <1>9 DEF Next

\* A token speaks for the person in whose browser the consent page's button was pressed, to
\* the client that page named; a sign-in gives one at most; and one that a client was given
\* is good until its ID token expires, restarts or not (oauth.rs, sessions.rs).
THEOREM GatewayTokensAreDue == Spec => []TokensAreDue
<1>1. DueInv => TokensAreDue
  BY DEF DueInv, AsConfirmed, GivenOnce, WasConfirmed, TokensAreDue, OneTokenForWhoConsented,
         TokensOutliveRestarts
<1> QED BY <1>1, InitTypes, TypesStep, InitDue, DueStep, PTL DEF Spec

-----------------------------------------------------------------------------
(* The keys that tokens are verified with (SigningKeys). *)

Times == 0 .. KeysTime
CallRecord ==
  [phase : {"idle", "discovery", "keys", "answered", "done"}, token : Tokens \cup {None},
   at : Times, asked : Times, got : SUBSET Keys, forced : BOOLEAN]

KeysTypes ==
  /\ K!TypeOK
  /\ since \in [Keys -> Times \cup {None}]
  /\ verify \in [Verifies -> CallRecord]
  /\ \A k \in Keys : since[k] # None => since[k] <= clock
  /\ forced # None => forced <= clock
  /\ failed # None => failed <= clock

\* A set that says of a key what the issuer does not.
Differs(keys, k) == ~(k \in keys <=> k.name \in published)

\* A set is not used long after the issuer published or withdrew a key that it has wrong.
SetStands(c) ==
  c # None =>
    /\ c.expires_at <= clock + MaxTtl
    /\ \A k \in Keys : Differs(c.keys, k) => since[k] # None /\ c.expires_at <= since[k] + MaxTtl

\* A call that has asked did not long ago, and an answer was right when it was asked for.
CallStands(v) ==
  K!InFlight(v) =>
    /\ verify[v].at <= verify[v].asked /\ verify[v].asked <= verify[v].at + HttpTimeout
    /\ verify[v].asked <= clock /\ clock <= verify[v].asked + HttpTimeout
    /\ verify[v].phase = "discovery" => verify[v].asked = verify[v].at
    /\ verify[v].token \in Tokens
    /\ verify[v].phase = "answered" =>
         \A k \in Keys : Differs(verify[v].got, k) => since[k] # None /\ since[k] >= verify[v].asked

\* A key that was published, and a set that is still good without it.
WasPublished(k) == k.name \in published /\ since[k] # None
StillGood(c) == c # None /\ c.expires_at > clock
Lacks(k) == \E c \in {memory, disk} : StillGood(c) /\ k \notin c.keys

\* A time at which a refetch began.
AtRefetch(t) == forced # None /\ (t = forced \/ t + MinTtl <= forced)

\* While a set that is still good lacks a key that was published some time ago, what is
\* being asked for, or failed, was asked for about when it was published, or is a refetch.
AskedBefore(k) ==
  WasPublished(k) /\ clock > since[k] + HttpTimeout /\ Lacks(k) =>
    /\ \A v \in Verifies :
         K!InFlight(v) => verify[v].at <= since[k] + HttpTimeout \/ AtRefetch(verify[v].at)
    /\ failed # None => failed <= since[k] + HttpTimeout \/ AtRefetch(failed)

\* A refetch well after a key was published is under way, has failed or has brought it,
\* where there is a set without it.
RefetchStands(k) ==
  /\ WasPublished(k) /\ Lacks(k)
  /\ forced # None /\ forced > since[k] + MinTtl + 2 * HttpTimeout /\ clock < forced + MinTtl
  => /\ \A v \in Verifies : K!InFlight(v) => verify[v].at >= forced
     /\ \/ \E v \in Verifies : K!InFlight(v) /\ verify[v].forced /\ verify[v].at = forced
        \/ failed # None /\ failed >= forced
        \/ memory # None /\ k \in memory.keys /\ memory.expires_at >= forced + MinTtl

KeysInv ==
  /\ KeysTypes
  /\ SetStands(memory) /\ SetStands(disk)
  /\ \A v \in Verifies : CallStands(v)
  /\ \A k \in Keys : AskedBefore(k) /\ RefetchStands(k)

LEMMA KeysConstants ==
  /\ {MinTtl, DefaultTtl, MaxTtl, HttpTimeout, Skew, KeysTime} \subseteq Nat
  /\ 2 * HttpTimeout < MinTtl /\ MinTtl <= DefaultTtl /\ DefaultTtl <= MaxTtl
  /\ MaxAges \subseteq Nat \cup {None} /\ None \notin Times
  BY EdgesAssumption DEF K!TtlAssumption, Times

\* What the cache gives is a set that is still good, and the one in memory if that is.
LEMMA CachedIs ==
  ASSUME KeysInv
  PROVE  /\ K!Cached \in {memory, disk, None}
         /\ K!Cached # None => StillGood(K!Cached)
         /\ StillGood(memory) => K!Cached = memory
         /\ StillGood(disk) => K!Cached # None
  BY DEF K!Cached, K!Usable, StillGood, KeysInv, SetStands

\* Such a set is one of the keys that the issuer has had.
LEMMA SetsAre ==
  ASSUME KeysTypes, NEW c \in {memory, disk}, c # None
  PROVE  c.keys \in SUBSET Keys /\ c.expires_at \in Nat
<1>1. c \in [keys : SUBSET Keys, expires_at : 0 .. KeysTime + MaxTtl]
  BY DEF KeysTypes, K!TypeOK, K!Cache
<1> QED BY <1>1

Done == [phase |-> "done", token |-> None, at |-> 0, asked |-> 0, got |-> {}, forced |-> FALSE]

\* A call that is over is as one that was never made.
LEMMA DoneIs ==
  /\ [K!Idle EXCEPT !.phase = "done"] = Done
  /\ Done \in CallRecord
<1>1. [K!Idle EXCEPT !.phase = "done"] = Done
  <2> DEFINE Over == [phase : {"idle", "done"}, token : {None}, at : {0}, asked : {0}, got : {{}},
                      forced : {FALSE}]
             r == [K!Idle EXCEPT !.phase = "done"]
  <2>1. K!Idle \in Over
    BY DEF K!Idle
  <2>2. r \in Over /\ r.phase = "done"
    BY <2>1
  <2> HIDE DEF r
  <2>3. r = Done
    BY <2>2 DEF Done
  <2> QED BY <2>3 DEF r
<1>2. 0 \in Times
  BY KeysConstants DEF Times
<1>3. Done \in CallRecord
  BY <1>2 DEF Done, CallRecord
<1> QED BY <1>1, <1>3

\* A verdict ends its call.
LEMMA SaysEnds ==
  ASSUME KeysTypes, NEW v \in Verifies, NEW t, NEW verdict, K!Says(v, t, verdict)
  PROVE  /\ verify' = [verify EXCEPT ![v] = Done] /\ verify' \in [Verifies -> CallRecord]
         /\ ~K!InFlight(v)'
         /\ \A u \in Verifies : K!InFlight(u)' => u # v /\ K!InFlight(u) /\ verify'[u] = verify[u]
         /\ \A u \in Verifies : u # v => verify'[u] = verify[u]
<1>1. verify' = [verify EXCEPT ![v] = Done]
  BY DoneIs DEF K!Says
<1>2. verify' \in [Verifies -> CallRecord] /\ verify'[v] = Done
  BY <1>1, DoneIs DEF KeysTypes
<1>3. \A u \in Verifies : u # v => verify'[u] = verify[u]
  BY <1>1 DEF KeysTypes
<1>4. ~K!InFlight(v)'
  BY <1>2 DEF K!InFlight, Done
<1> QED BY <1>1, <1>2, <1>3, <1>4 DEF K!InFlight

\* A call that is still under way and was not touched stands, and so does what it was
\* asked for, where only the sets changed and only for one of the two.
LEMMA KeysStay ==
  ASSUME KeysInv, KeysTypes', UNCHANGED <<clock, published, since, disk, forced, failed>>,
         memory' \in {memory, disk, None},
         StillGood(memory) => memory' = memory,
         \A u \in Verifies : K!InFlight(u)' => K!InFlight(u) /\ verify'[u] = verify[u],
         \A u \in Verifies : verify[u].forced => ~K!InFlight(u) \/ verify'[u] = verify[u]
  PROVE  KeysInv'
<1> USE DEF KeysInv
<1>1. SetStands(memory)' /\ SetStands(disk)'
  BY DEF SetStands, Differs
<1>2. \A u \in Verifies : CallStands(u)'
  <2> SUFFICES ASSUME NEW u \in Verifies, K!InFlight(u)' PROVE CallStands(u)'
    BY DEF CallStands
  <2>1. CallStands(u) /\ K!InFlight(u) /\ verify'[u] = verify[u]
    OBVIOUS
  <2> QED BY <2>1 DEF CallStands, Differs
<1>3. \A k \in Keys : Lacks(k)' => Lacks(k)
  BY DEF Lacks, StillGood
<1>4. \A k \in Keys : AskedBefore(k)'
  <2> SUFFICES ASSUME NEW k \in Keys PROVE AskedBefore(k)'
    OBVIOUS
  <2>1. AskedBefore(k)
    OBVIOUS
  <2> QED BY <1>3, <2>1 DEF AskedBefore, WasPublished, AtRefetch
<1>5. \A k \in Keys : RefetchStands(k)'
  <2> SUFFICES ASSUME NEW k \in Keys, WasPublished(k)', Lacks(k)',
                      forced # None, forced > since[k] + MinTtl + 2 * HttpTimeout,
                      clock < forced + MinTtl
               PROVE  RefetchStands(k)'
    BY DEF RefetchStands
  <2>1. WasPublished(k) /\ Lacks(k) /\ RefetchStands(k)
    BY <1>3 DEF WasPublished
  <2>2. \A u \in Verifies : K!InFlight(u)' => verify'[u].at >= forced
    BY <2>1 DEF RefetchStands
  <2>3. CASE \E u \in Verifies : K!InFlight(u) /\ verify[u].forced /\ verify[u].at = forced
    <3>1. PICK u \in Verifies : K!InFlight(u) /\ verify[u].forced /\ verify[u].at = forced
      BY <2>3
    <3>2. verify'[u] = verify[u] /\ K!InFlight(u)'
      BY <3>1 DEF K!InFlight
    <3> QED BY <2>2, <3>1, <3>2 DEF RefetchStands
  <2>4. CASE failed # None /\ failed >= forced
    BY <2>2, <2>4 DEF RefetchStands
  <2>5. CASE memory # None /\ k \in memory.keys /\ memory.expires_at >= forced + MinTtl
    <3>1. StillGood(memory)
      <4>1. memory.expires_at \in Nat /\ clock \in Nat /\ forced \in Nat
        BY <2>5, SetsAre, KeysConstants DEF KeysTypes, K!TypeOK
      <4> QED BY <2>5, <4>1, KeysConstants DEF StillGood
    <3> QED BY <2>2, <2>5, <3>1 DEF RefetchStands
  <2> QED BY <2>1, <2>3, <2>4, <2>5 DEF RefetchStands
<1> QED BY <1>1, <1>2, <1>4, <1>5

LEMMA UntrustedStands ==
  ASSUME KeysInv, NEW v \in Verifies, NEW t \in Tokens, K!Untrusted(v, t)
  PROVE  KeysInv'
<1>1. /\ UNCHANGED <<clock, published, since, memory, disk, forced, failed>>
      /\ K!Says(v, t, K!Refusal("Untrusted")) /\ verify[v].phase = "idle"
  BY DEF K!Untrusted, K!issuer, K!fetcher
<1>2. ~K!InFlight(v)
  BY <1>1 DEF K!InFlight
<1>3. KeysTypes /\ memory' \in {memory, disk, None}
  BY <1>1 DEF KeysInv
<1>4. /\ verify' \in [Verifies -> CallRecord]
      /\ \A u \in Verifies : K!InFlight(u)' => u # v /\ K!InFlight(u) /\ verify'[u] = verify[u]
      /\ \A u \in Verifies : u # v => verify'[u] = verify[u]
  BY <1>1, <1>3, SaysEnds
<1>5. KeysTypes'
  BY <1>1, <1>3, <1>4 DEF KeysTypes, K!TypeOK, CallRecord
<1> QED BY <1>1, <1>2, <1>3, <1>4, <1>5, KeysStay

LEMMA FromCacheStands ==
  ASSUME KeysInv, NEW v \in Verifies, NEW t \in Tokens, K!FromCache(v, t)
  PROVE  KeysInv'
<1>1. /\ UNCHANGED <<clock, published, since, disk, forced, failed>>
      /\ memory' = K!Cached
      /\ K!Says(v, t, K!Verdict(t, K!Cached.keys, clock)) /\ verify[v].phase = "idle"
  BY DEF K!FromCache, K!issuer
<1>2. ~K!InFlight(v)
  BY <1>1 DEF K!InFlight
<1>3. KeysTypes /\ memory' \in {memory, disk, None} /\ (StillGood(memory) => memory' = memory)
  BY <1>1, CachedIs DEF KeysInv
<1>4. /\ verify' \in [Verifies -> CallRecord]
      /\ \A u \in Verifies : K!InFlight(u)' => u # v /\ K!InFlight(u) /\ verify'[u] = verify[u]
      /\ \A u \in Verifies : u # v => verify'[u] = verify[u]
  BY <1>1, <1>3, SaysEnds
<1>5. KeysTypes'
  BY <1>1, <1>3, <1>4 DEF KeysTypes, K!TypeOK, CallRecord, K!Cache
<1> QED BY <1>1, <1>2, <1>3, <1>4, <1>5, KeysStay

\* A call that begins to ask, as a refetch or not.
Began(t, refetch) ==
  [phase |-> IF discovered THEN "keys" ELSE "discovery", token |-> t, at |-> clock,
   asked |-> clock, got |-> {}, forced |-> refetch]

LEMMA BeganIs ==
  ASSUME KeysTypes, NEW t \in Tokens, NEW refetch \in BOOLEAN
  PROVE  /\ Began(t, refetch) \in CallRecord
         /\ Began(t, refetch).phase \in {"discovery", "keys"} /\ Began(t, refetch).token = t
         /\ Began(t, refetch).at = clock /\ Began(t, refetch).asked = clock
         /\ Began(t, refetch).forced = refetch
<1>1. clock \in Times /\ {} \in SUBSET Keys
  BY DEF KeysTypes, K!TypeOK, Times
<1> DEFINE phase == IF discovered THEN "keys" ELSE "discovery"
<1>2. phase \in {"discovery", "keys"}
  OBVIOUS
<1> HIDE DEF phase
<1>3. [phase |-> phase, token |-> t, at |-> clock, asked |-> clock, got |-> {}, forced |-> refetch]
        \in CallRecord
  BY <1>1, <1>2 DEF CallRecord
<1> QED BY <1>2, <1>3 DEF Began, phase

\* What a call that finds no keys, or not the one it names, does.
LEMMA NeedsIs ==
  ASSUME KeysInv, NEW v \in Verifies, NEW t \in Tokens, K!Needs(v, t)
  PROVE  /\ UNCHANGED <<clock, published, since, disk, failed>> /\ ~K!InFlight(v)
         /\ \/ K!Cached = None /\ UNCHANGED <<memory, forced>>
            \/ /\ K!Cached # None /\ memory' = K!Cached /\ forced' = clock
               /\ forced # None => clock >= forced + MinTtl
         /\ \/ K!FailedLately /\ K!Says(v, t, K!Refusal("Unavailable"))
            \/ /\ ~K!FailedLately
               /\ \/ K!Cached = None /\ verify' = [verify EXCEPT ![v] = Began(t, FALSE)]
                  \/ K!Cached # None /\ verify' = [verify EXCEPT ![v] = Began(t, TRUE)]
<1>1. UNCHANGED <<clock, published, since, disk, failed>> /\ verify[v].phase = "idle"
  BY DEF K!Needs, K!issuer
<1>2. \/ K!Cached = None /\ UNCHANGED <<memory, forced>>
      \/ K!Cached # None /\ memory' = K!Cached /\ forced' = clock /\ ~K!ForcedLately
  BY DEF K!Needs
<1>3. ~K!ForcedLately => (forced # None => clock >= forced + MinTtl)
  BY KeysConstants DEF K!ForcedLately, KeysInv, KeysTypes, K!TypeOK
<1>4. CASE K!FailedLately
  <2>1. K!Says(v, t, K!Refusal("Unavailable"))
    BY <1>4 DEF K!Needs
  <2> QED BY <1>1, <1>2, <1>3, <1>4, <2>1 DEF K!InFlight
<1>5. CASE ~K!FailedLately
  <2>1. verify' = [verify EXCEPT ![v] = Began(t, K!Cached # None)]
    BY <1>5 DEF K!Needs, Began
  <2>2. CASE K!Cached = None
    <3>1. (K!Cached # None) = FALSE
      BY <2>2
    <3>2. verify' = [verify EXCEPT ![v] = Began(t, FALSE)]
      BY <2>1, <3>1, Zenon
    <3> QED BY <1>1, <1>2, <1>3, <1>5, <2>2, <3>2 DEF K!InFlight
  <2>3. CASE K!Cached # None
    <3>1. (K!Cached # None) = TRUE
      BY <2>3
    <3>2. verify' = [verify EXCEPT ![v] = Began(t, TRUE)]
      BY <2>1, <3>1, Zenon
    <3> QED BY <1>1, <1>2, <1>3, <1>5, <2>3, <3>2 DEF K!InFlight
  <2> QED BY <2>2, <2>3
<1> QED BY <1>4, <1>5

\* A call that began is one more of those that are under way.
LEMMA NeedsCalls ==
  ASSUME KeysInv, NEW v \in Verifies, NEW t \in Tokens, K!Needs(v, t)
  PROVE  /\ verify' \in [Verifies -> CallRecord]
         /\ \A u \in Verifies : u # v => verify'[u] = verify[u]
         /\ \/ K!FailedLately /\ ~K!InFlight(v)'
            \/ /\ ~K!FailedLately /\ K!InFlight(v)' /\ verify'[v].phase \in {"discovery", "keys"}
               /\ verify'[v].at = clock /\ verify'[v].asked = clock /\ verify'[v].token = t
               /\ K!Cached # None => verify'[v].forced
<1>1. KeysTypes
  BY DEF KeysInv
<1>2. CASE K!FailedLately /\ K!Says(v, t, K!Refusal("Unavailable"))
  BY <1>1, <1>2, SaysEnds
<1>3. ASSUME NEW refetch \in BOOLEAN, verify' = [verify EXCEPT ![v] = Began(t, refetch)],
             ~K!FailedLately, K!Cached # None => refetch
      PROVE  /\ verify' \in [Verifies -> CallRecord]
             /\ \A u \in Verifies : u # v => verify'[u] = verify[u]
             /\ ~K!FailedLately /\ K!InFlight(v)' /\ verify'[v].phase \in {"discovery", "keys"}
             /\ verify'[v].at = clock /\ verify'[v].asked = clock /\ verify'[v].token = t
             /\ K!Cached # None => verify'[v].forced
  <2> DEFINE b == Began(t, refetch)
  <2>1. /\ b \in CallRecord /\ b.phase \in {"discovery", "keys"} /\ b.token = t
        /\ b.at = clock /\ b.asked = clock /\ b.forced = refetch
    BY <1>1, BeganIs
  <2> HIDE DEF b
  <2>2. verify' = [verify EXCEPT ![v] = b]
    BY <1>3 DEF b
  <2>3. verify'[v] = b /\ verify' \in [Verifies -> CallRecord]
        /\ \A u \in Verifies : u # v => verify'[u] = verify[u]
    BY <1>1, <2>1, <2>2 DEF KeysTypes
  <2> QED BY <1>3, <2>1, <2>3 DEF K!InFlight
<1> QED BY <1>2, <1>3, NeedsIs

LEMMA NeedsStands ==
  ASSUME KeysInv, NEW v \in Verifies, NEW t \in Tokens, K!Needs(v, t)
  PROVE  KeysInv'
<1> USE KeysConstants DEF KeysInv
<1>1. /\ UNCHANGED <<clock, published, since, disk, failed>> /\ ~K!InFlight(v)
      /\ \/ K!Cached = None /\ UNCHANGED <<memory, forced>>
         \/ /\ K!Cached # None /\ memory' = K!Cached /\ forced' = clock
            /\ forced # None => clock >= forced + MinTtl
  BY NeedsIs
<1>2. /\ verify' \in [Verifies -> CallRecord]
      /\ \A u \in Verifies : u # v => verify'[u] = verify[u]
      /\ \/ K!FailedLately /\ ~K!InFlight(v)'
         \/ /\ ~K!FailedLately /\ K!InFlight(v)' /\ verify'[v].phase \in {"discovery", "keys"}
            /\ verify'[v].at = clock /\ verify'[v].asked = clock /\ verify'[v].token = t
            /\ K!Cached # None => verify'[v].forced
  BY NeedsCalls
<1>3. /\ clock \in Nat /\ clock \in 0 .. KeysTime /\ forced \in Nat \cup {None}
      /\ failed \in Nat \cup {None} /\ None \notin 0 .. KeysTime
      /\ forced # None => forced \in Nat /\ forced <= clock
      /\ failed # None => failed \in Nat /\ failed <= clock
      /\ memory' \in {memory, disk}
  BY <1>1, CachedIs DEF KeysTypes, K!TypeOK, Times
<1>4. KeysTypes'
  BY <1>1, <1>2, <1>3 DEF KeysTypes, K!TypeOK, CallRecord, K!Cache
<1>5. SetStands(memory)' /\ SetStands(disk)'
  BY <1>1, <1>3 DEF SetStands, Differs
<1>6. \A u \in Verifies : CallStands(u)'
  <2> SUFFICES ASSUME NEW u \in Verifies, K!InFlight(u)' PROVE CallStands(u)'
    BY DEF CallStands
  <2>1. CASE u # v
    <3>1. verify'[u] = verify[u] /\ K!InFlight(u)
      BY <1>2, <2>1 DEF K!InFlight
    <3> QED BY <1>1, <3>1 DEF CallStands, Differs
  <2>2. CASE u = v
    BY <1>1, <1>2, <1>3, <2>2 DEF CallStands, K!InFlight
  <2> QED BY <2>1, <2>2
<1>7. CASE K!Cached = None
  <2>1. ~StillGood(memory) /\ ~StillGood(disk)
    BY <1>7, CachedIs DEF StillGood
  <2>2. \A k \in Keys : ~Lacks(k)'
    BY <1>1, <1>7, <2>1 DEF Lacks, StillGood
  <2> QED BY <1>4, <1>5, <1>6, <2>2 DEF AskedBefore, RefetchStands
<1>8. CASE K!Cached # None
  <2>1. forced' = clock /\ (forced # None => clock >= forced + MinTtl)
    BY <1>1, <1>8
  <2>2. \A k \in Keys : Lacks(k)' => Lacks(k)
    BY <1>1, <1>3 DEF Lacks, StillGood
  <2>3. ASSUME NEW at \in Nat, AtRefetch(at) PROVE at + MinTtl <= clock
    BY <1>3, <2>1, <2>3 DEF AtRefetch
  <2>4. \A u \in Verifies : K!InFlight(u) => verify[u].at \in Nat
    BY DEF KeysTypes, CallRecord, Times
  <2>5. ASSUME NEW k \in Keys PROVE AskedBefore(k)'
    <3> SUFFICES ASSUME WasPublished(k)', clock > since[k] + HttpTimeout, Lacks(k)'
                 PROVE  /\ \A u \in Verifies : K!InFlight(u)' => AtRefetch(verify[u].at)'
                                \/ verify'[u].at <= since[k] + HttpTimeout
                        /\ failed # None => failed <= since[k] + HttpTimeout \/ AtRefetch(failed)'
      BY <1>1 DEF AskedBefore
    <3>1. WasPublished(k) /\ Lacks(k) /\ AskedBefore(k)
      BY <1>1, <2>2 DEF WasPublished
    <3>2. /\ \A u \in Verifies : K!InFlight(u) =>
               verify[u].at <= since[k] + HttpTimeout \/ AtRefetch(verify[u].at)
          /\ failed # None => failed <= since[k] + HttpTimeout \/ AtRefetch(failed)
      BY <1>1, <3>1 DEF AskedBefore
    <3>3. ASSUME NEW u \in Verifies, K!InFlight(u)', u # v
          PROVE  verify'[u].at <= since[k] + HttpTimeout \/ AtRefetch(verify[u].at)'
      <4>1. verify'[u] = verify[u] /\ K!InFlight(u)
        BY <1>2, <3>3 DEF K!InFlight
      <4>2. CASE verify[u].at <= since[k] + HttpTimeout
        BY <4>1, <4>2
      <4>3. CASE AtRefetch(verify[u].at)
        <5>1. verify[u].at + MinTtl <= clock
          BY <2>3, <2>4, <4>1, <4>3
        <5> QED BY <1>3, <2>1, <4>1, <5>1 DEF AtRefetch
      <4> QED BY <3>2, <4>1, <4>2, <4>3
    <3>4. K!InFlight(v)' => AtRefetch(verify[v].at)'
      BY <1>2, <1>3, <2>1 DEF AtRefetch
    <3>5. failed # None => failed <= since[k] + HttpTimeout \/ AtRefetch(failed)'
      BY <1>1, <1>3, <2>1, <2>3, <3>2 DEF AtRefetch
    <3> QED BY <3>3, <3>4, <3>5
  <2>6. ASSUME NEW k \in Keys PROVE RefetchStands(k)'
    <3> SUFFICES ASSUME WasPublished(k)', Lacks(k)', clock > since[k] + MinTtl + 2 * HttpTimeout
                 PROVE  /\ \A u \in Verifies : K!InFlight(u)' => verify'[u].at >= clock
                        /\ \E u \in Verifies : /\ K!InFlight(u)' /\ verify'[u].forced
                                               /\ verify'[u].at = clock
      BY <1>1, <2>1 DEF RefetchStands
    <3>1. since[k] \in Nat
      BY <1>1 DEF WasPublished, KeysTypes, Times
    <3>2. WasPublished(k) /\ Lacks(k) /\ AskedBefore(k) /\ clock > since[k] + HttpTimeout
      BY <1>1, <1>3, <2>2, <3>1 DEF WasPublished
    <3>3. /\ \A u \in Verifies : K!InFlight(u) =>
               verify[u].at <= since[k] + HttpTimeout \/ verify[u].at + MinTtl <= clock
          /\ failed # None => failed <= since[k] + HttpTimeout \/ failed + MinTtl <= clock
      BY <1>3, <2>3, <2>4, <3>2 DEF AskedBefore
    <3>4. ASSUME NEW u \in Verifies, K!InFlight(u) PROVE FALSE
      <4>1. /\ verify[u].at \in Nat /\ verify[u].asked \in Nat
            /\ verify[u].asked <= verify[u].at + HttpTimeout
            /\ clock <= verify[u].asked + HttpTimeout
        BY <3>4 DEF CallStands, KeysTypes, CallRecord, Times
      <4> QED BY <1>3, <3>1, <3>3, <3>4, <4>1
    <3>5. ~K!FailedLately
      BY <1>3, <3>1, <3>3 DEF K!FailedLately
    <3>6. K!InFlight(v)' /\ verify'[v].at = clock /\ verify'[v].forced
      BY <1>2, <1>8, <3>5
    <3>7. \A u \in Verifies : K!InFlight(u)' => u = v
      BY <1>2, <3>4 DEF K!InFlight
    <3> QED BY <1>3, <3>6, <3>7
  <2> QED BY <1>4, <1>5, <1>6, <2>5, <2>6
<1> QED BY <1>7, <1>8

\* A request goes on: nothing that was learnt is changed.
LEMMA RequestsGoOn ==
  ASSUME KeysInv, UNCHANGED <<clock, published, since, memory, disk, forced, failed>>,
         NEW v \in Verifies, K!InFlight(v), NEW r \in CallRecord, verify' = [verify EXCEPT ![v] = r],
         r.at = verify[v].at, r.forced = verify[v].forced,
         r.phase \in {"keys", "answered"}, CallStands(v)'
  PROVE  KeysInv'
<1> USE DEF KeysInv
<1>1. /\ verify' \in [Verifies -> CallRecord] /\ verify'[v] = r /\ K!InFlight(v)'
      /\ \A u \in Verifies : u # v => verify'[u] = verify[u]
  BY DEF KeysTypes, K!InFlight
<1>2. \A u \in Verifies : /\ K!InFlight(u)' <=> K!InFlight(u)
                          /\ verify'[u].at = verify[u].at /\ verify'[u].forced = verify[u].forced
  BY <1>1 DEF K!InFlight
<1>3. KeysTypes'
  BY <1>1 DEF KeysTypes, K!TypeOK, CallRecord
<1>4. SetStands(memory)' /\ SetStands(disk)'
  BY DEF SetStands, Differs
<1>5. ASSUME NEW u \in Verifies, u # v PROVE CallStands(u)'
  <2>1. verify'[u] = verify[u]
    BY <1>1, <1>5
  <2> QED BY <2>1 DEF CallStands, Differs, K!InFlight
<1>6. \A k \in Keys : Lacks(k)' = Lacks(k) /\ WasPublished(k)' = WasPublished(k)
  BY DEF Lacks, StillGood, WasPublished
<1>7. \A k \in Keys : AskedBefore(k)'
  BY <1>2, <1>6 DEF AskedBefore, AtRefetch
<1>8. \A k \in Keys : RefetchStands(k)'
  BY <1>2, <1>6 DEF RefetchStands
<1> QED BY <1>3, <1>4, <1>5, <1>7, <1>8

LEMMA DiscoversStands ==
  ASSUME KeysInv, NEW v \in Verifies, K!Discovers(v)
  PROVE  KeysInv'
<1> USE KeysConstants
<1> DEFINE r == [verify[v] EXCEPT !.phase = "keys", !.asked = clock]
<1>1. /\ UNCHANGED <<clock, published, since, memory, disk, forced, failed>>
      /\ verify[v].phase = "discovery" /\ verify' = [verify EXCEPT ![v] = r]
  BY DEF K!Discovers, K!issuer
<1>2. verify[v] \in CallRecord /\ clock \in Times
  BY DEF KeysInv, KeysTypes, K!TypeOK, Times
<1>3. /\ r \in CallRecord /\ r.phase = "keys" /\ r.asked = clock /\ r.at = verify[v].at
      /\ r.forced = verify[v].forced /\ r.token = verify[v].token
  BY <1>2 DEF CallRecord
<1> HIDE DEF r
<1>4. verify'[v] = r /\ K!InFlight(v) /\ CallStands(v)
  BY <1>1, <1>3 DEF KeysInv, KeysTypes, K!InFlight
<1>5. verify[v].at \in Nat /\ clock \in Nat
  BY <1>2 DEF CallRecord, Times
<1>6. CallStands(v)'
  BY <1>1, <1>3, <1>4, <1>5 DEF CallStands
<1> QED BY <1>1, <1>3, <1>4, <1>6, RequestsGoOn

LEMMA AnswersStands ==
  ASSUME KeysInv, NEW v \in Verifies, K!Answers(v)
  PROVE  KeysInv'
<1> USE KeysConstants
<1> DEFINE r == [verify[v] EXCEPT !.phase = "answered", !.got = K!Named(published)]
<1>1. /\ UNCHANGED <<clock, published, since, memory, disk, forced, failed>>
      /\ verify[v].phase = "keys" /\ verify' = [verify EXCEPT ![v] = r]
  BY DEF K!Answers, K!issuer, K!fetcher
<1>2. verify[v] \in CallRecord /\ K!Named(published) \in SUBSET Keys
  BY DEF KeysInv, KeysTypes, K!Named
<1>3. /\ r \in CallRecord /\ r.phase = "answered" /\ r.got = K!Named(published)
      /\ r.asked = verify[v].asked /\ r.at = verify[v].at
      /\ r.forced = verify[v].forced /\ r.token = verify[v].token
  BY <1>2 DEF CallRecord
<1> HIDE DEF r
<1>4. verify'[v] = r /\ K!InFlight(v) /\ CallStands(v)
  BY <1>1, <1>3 DEF KeysInv, KeysTypes, K!InFlight
<1>5. \A k \in Keys : ~Differs(K!Named(published), k)
  BY DEF Differs, K!Named
<1>6. CallStands(v)'
  BY <1>1, <1>3, <1>4, <1>5 DEF CallStands, Differs
<1> QED BY <1>1, <1>3, <1>4, <1>6, RequestsGoOn

LEMMA TtlIs ==
  ASSUME NEW m \in MaxAges
  PROVE  K!Ttl(m) \in Nat /\ MinTtl <= K!Ttl(m) /\ K!Ttl(m) <= MaxTtl
<1>1. m \in Nat \/ m = None
  BY KeysConstants
<1>2. CASE m = None
  BY <1>2, KeysConstants DEF K!Ttl
<1>3. CASE m # None /\ m \in Nat
  BY <1>3, KeysConstants DEF K!Ttl
<1> QED BY <1>1, <1>2, <1>3

LEMMA StoresStands ==
  ASSUME KeysInv, NEW v \in Verifies, K!Stores(v)
  PROVE  KeysInv'
<1> USE KeysConstants DEF KeysInv
<1>1. PICK m \in MaxAges :
        /\ memory' = [keys |-> verify[v].got, expires_at |-> verify[v].at + K!Ttl(m)]
        /\ disk' \in {memory', disk}
  BY DEF K!Stores
<1>2. /\ verify[v].phase = "answered" /\ K!InFlight(v) /\ failed' = None
      /\ UNCHANGED <<clock, published, since, forced>>
      /\ K!Says(v, verify[v].token, K!Verdict(verify[v].token, verify[v].got, verify[v].at))
  BY DEF K!Stores, K!issuer, K!InFlight
<1>3. /\ verify' \in [Verifies -> CallRecord]
      /\ \A u \in Verifies : K!InFlight(u)' => u # v /\ K!InFlight(u) /\ verify'[u] = verify[u]
  BY <1>2, SaysEnds
<1> DEFINE at == verify[v].at
           asked == verify[v].asked
           set == [keys |-> verify[v].got, expires_at |-> verify[v].at + K!Ttl(m)]
<1>4. /\ at \in Nat /\ at \in Times /\ asked \in Nat /\ verify[v].got \in SUBSET Keys
      /\ at <= asked /\ asked <= clock /\ clock <= asked + HttpTimeout
      /\ \A k \in Keys : Differs(verify[v].got, k) => since[k] # None /\ since[k] >= asked
  BY <1>2 DEF CallStands, KeysTypes, CallRecord, Times
<1>5. /\ clock \in Nat /\ clock \in Times /\ forced \in Nat \cup {None}
      /\ forced # None => forced <= clock
      /\ \A k \in Keys : since[k] # None => since[k] \in Nat /\ since[k] <= clock
  BY DEF KeysTypes, K!TypeOK, Times
<1>6. /\ set # None /\ set.keys = verify[v].got /\ set.expires_at \in Nat
      /\ set.expires_at \in 0 .. KeysTime + MaxTtl
      /\ set.expires_at >= at + MinTtl /\ set.expires_at <= at + MaxTtl
      /\ memory' = set /\ disk' \in {set, disk} /\ set \in K!Cache
  <2>1. /\ set.keys = verify[v].got /\ set.expires_at \in Nat
        /\ set.expires_at \in 0 .. KeysTime + MaxTtl
        /\ set.expires_at >= at + MinTtl /\ set.expires_at <= at + MaxTtl
    BY <1>4, TtlIs DEF Times
  <2>2. set \in [keys : SUBSET Keys, expires_at : 0 .. KeysTime + MaxTtl]
    BY <1>4, <2>1
  <2>3. memory' = set /\ disk' \in {set, disk}
    BY <1>1
  <2>4. set # None
    <3>1. set \in [keys : SUBSET Keys, expires_at : Nat]
      BY <1>4, <2>1
    <3> QED BY <3>1, EdgesAssumption DEF K!TtlAssumption
  <2> QED BY <2>1, <2>2, <2>3, <2>4 DEF K!Cache
<1> HIDE DEF set
<1>7. KeysTypes'
  BY <1>2, <1>3, <1>5, <1>6 DEF KeysTypes, K!TypeOK, CallRecord
<1>8. SetStands(memory)' /\ SetStands(disk)'
  <2>1. SetStands(memory)'
    BY <1>2, <1>4, <1>5, <1>6 DEF SetStands, Differs
  <2>2. CASE disk' = disk
    BY <1>2, <2>1, <2>2 DEF SetStands, Differs
  <2>3. CASE disk' = memory'
    BY <2>1, <2>3 DEF SetStands, Differs
  <2>4. disk' = memory' \/ disk' = disk
    BY <1>6
  <2> QED BY <2>1, <2>2, <2>3, <2>4
<1>9. \A u \in Verifies : CallStands(u)'
  <2> SUFFICES ASSUME NEW u \in Verifies, K!InFlight(u)' PROVE CallStands(u)'
    BY DEF CallStands
  <2>1. CallStands(u) /\ K!InFlight(u) /\ verify'[u] = verify[u]
    BY <1>3
  <2> QED BY <1>2, <2>1 DEF CallStands, Differs
<1>10. ASSUME NEW k \in Keys, WasPublished(k)', Lacks(k)', clock > since[k] + HttpTimeout
       PROVE  WasPublished(k) /\ Lacks(k) /\ k \in set.keys
  <2>1. k \in set.keys
    BY <1>2, <1>4, <1>5, <1>6, <1>10 DEF WasPublished, Differs
  <2> QED BY <1>2, <1>6, <1>10, <2>1 DEF Lacks, StillGood, WasPublished
<1>11. ASSUME NEW k \in Keys PROVE AskedBefore(k)'
  <2> SUFFICES ASSUME WasPublished(k)', clock > since[k] + HttpTimeout, Lacks(k)'
               PROVE  \A u \in Verifies : K!InFlight(u)' =>
                        verify'[u].at <= since[k] + HttpTimeout \/ AtRefetch(verify[u].at)'
    BY <1>2 DEF AskedBefore
  <2>1. \A u \in Verifies : K!InFlight(u) =>
          verify[u].at <= since[k] + HttpTimeout \/ AtRefetch(verify[u].at)
    BY <1>10 DEF AskedBefore
  <2> QED BY <1>2, <1>3, <2>1 DEF AtRefetch
<1>12. ASSUME NEW k \in Keys PROVE RefetchStands(k)'
  <2> SUFFICES ASSUME WasPublished(k)', Lacks(k)', forced # None,
                      forced > since[k] + MinTtl + 2 * HttpTimeout, clock < forced + MinTtl
               PROVE  /\ \A u \in Verifies : K!InFlight(u)' => verify'[u].at >= forced
                      /\ memory' # None /\ k \in memory'.keys
                      /\ memory'.expires_at >= forced + MinTtl
    BY <1>2 DEF RefetchStands
  <2>1. since[k] \in Nat /\ clock > since[k] + HttpTimeout
    BY <1>2, <1>5 DEF WasPublished
  <2>2. WasPublished(k) /\ Lacks(k) /\ k \in set.keys
    BY <1>10, <2>1
  <2>3. \A u \in Verifies : K!InFlight(u) => verify[u].at >= forced
    BY <2>2 DEF RefetchStands
  <2>4. at >= forced
    BY <1>2, <2>3
  <2> QED BY <1>3, <1>4, <1>5, <1>6, <2>2, <2>3, <2>4
<1> QED BY <1>7, <1>8, <1>9, <1>11, <1>12

LEMMA FailsStands ==
  ASSUME KeysInv, NEW v \in Verifies, K!Fails(v)
  PROVE  KeysInv'
<1> USE KeysConstants DEF KeysInv
<1>1. /\ K!InFlight(v) /\ failed' = verify[v].at
      /\ UNCHANGED <<clock, published, since, memory, disk, forced>>
      /\ K!Says(v, verify[v].token, K!Refusal("Unavailable"))
  BY DEF K!Fails, K!issuer
<1>2. /\ verify' \in [Verifies -> CallRecord]
      /\ \A u \in Verifies : K!InFlight(u)' => u # v /\ K!InFlight(u) /\ verify'[u] = verify[u]
  BY <1>1, SaysEnds
<1>3. /\ clock \in Nat /\ verify[v].at \in Times /\ verify[v].at \in Nat /\ verify[v].at <= clock
      /\ verify[v].at # None
  BY <1>1 DEF CallStands, KeysTypes, K!TypeOK, CallRecord, Times
<1>4. KeysTypes'
  BY <1>1, <1>2, <1>3 DEF KeysTypes, K!TypeOK, CallRecord, Times
<1>5. SetStands(memory)' /\ SetStands(disk)'
  BY <1>1 DEF SetStands, Differs
<1>6. \A u \in Verifies : CallStands(u)'
  <2> SUFFICES ASSUME NEW u \in Verifies, K!InFlight(u)' PROVE CallStands(u)'
    BY DEF CallStands
  <2>1. CallStands(u) /\ K!InFlight(u) /\ verify'[u] = verify[u]
    BY <1>2
  <2> QED BY <1>1, <2>1 DEF CallStands, Differs
<1>7. \A k \in Keys : Lacks(k)' = Lacks(k) /\ WasPublished(k)' = WasPublished(k)
  BY <1>1 DEF Lacks, StillGood, WasPublished
<1>8. ASSUME NEW k \in Keys PROVE AskedBefore(k)'
  <2> SUFFICES ASSUME WasPublished(k)', clock > since[k] + HttpTimeout, Lacks(k)'
               PROVE  /\ \A u \in Verifies : K!InFlight(u)' =>
                           verify'[u].at <= since[k] + HttpTimeout \/ AtRefetch(verify[u].at)'
                      /\ failed' <= since[k] + HttpTimeout \/ AtRefetch(failed)'
    BY <1>1 DEF AskedBefore
  <2>1. \A u \in Verifies : K!InFlight(u) =>
          verify[u].at <= since[k] + HttpTimeout \/ AtRefetch(verify[u].at)
    BY <1>1, <1>7 DEF AskedBefore
  <2> QED BY <1>1, <1>2, <2>1 DEF AtRefetch
<1>9. ASSUME NEW k \in Keys PROVE RefetchStands(k)'
  <2> SUFFICES ASSUME WasPublished(k)', Lacks(k)', forced # None,
                      forced > since[k] + MinTtl + 2 * HttpTimeout, clock < forced + MinTtl
               PROVE  /\ \A u \in Verifies : K!InFlight(u)' => verify'[u].at >= forced
                      /\ failed' # None /\ failed' >= forced
    BY <1>1 DEF RefetchStands
  <2>1. \A u \in Verifies : K!InFlight(u) => verify[u].at >= forced
    BY <1>7 DEF RefetchStands
  <2> QED BY <1>1, <1>2, <1>3, <2>1
<1> QED BY <1>4, <1>5, <1>6, <1>8, <1>9

LEMMA RestartStands ==
  ASSUME KeysInv, K!Restart
  PROVE  KeysInv'
<1> USE KeysConstants DEF KeysInv
<1>1. /\ UNCHANGED <<clock, published, since, disk>>
      /\ memory' = None /\ forced' = None /\ failed' = None
      /\ verify' = [v \in Verifies |->
                      IF K!InFlight(v) THEN [K!Idle EXCEPT !.phase = "done"] ELSE verify[v]]
  BY DEF K!Restart, K!issuer
<1>2. verify' = [v \in Verifies |-> IF K!InFlight(v) THEN Done ELSE verify[v]]
  BY <1>1, DoneIs
<1>3. verify' \in [Verifies -> CallRecord]
  BY <1>2, DoneIs DEF KeysTypes
<1>4. \A u \in Verifies : ~K!InFlight(u)'
  BY <1>2 DEF K!InFlight, Done
<1>5. KeysTypes'
  BY <1>1, <1>3 DEF KeysTypes, K!TypeOK, CallRecord, K!Cache
<1>6. SetStands(memory)' /\ SetStands(disk)'
  BY <1>1 DEF SetStands, Differs
<1> QED BY <1>1, <1>4, <1>5, <1>6 DEF CallStands, AskedBefore, RefetchStands

LEMMA RotateStands ==
  ASSUME KeysInv, NEW j \in Keys, K!Rotate(j)
  PROVE  KeysInv'
<1> USE KeysConstants DEF KeysInv
<1>1. /\ UNCHANGED <<clock, memory, disk, forced, failed, verify>>
      /\ since[j] = None /\ since' = [since EXCEPT ![j] = clock]
      /\ published' = IF j.name \in published THEN published \ {j.name}
                      ELSE published \cup {j.name}
  BY DEF K!Rotate, K!fetcher
<1>2. /\ clock \in Nat /\ clock \in Times /\ clock # None
      /\ since' \in [Keys -> Times \cup {None}] /\ since'[j] = clock
      /\ \A k \in Keys : k # j => since'[k] = since[k]
  BY <1>1 DEF KeysTypes, K!TypeOK, Times
<1>3. \A k \in Keys : k # j => (k.name \in published' <=> k.name \in published)
  <2> SUFFICES ASSUME NEW k \in Keys, k.name = j.name PROVE k = j
    BY <1>1
  <2> QED BY EdgesAssumption DEF K!KeysAssumption
<1>4. published' \subseteq {k.name : k \in Keys}
  BY <1>1 DEF KeysTypes, K!TypeOK
<1>5. KeysTypes'
  BY <1>1, <1>2, <1>4 DEF KeysTypes, K!TypeOK
<1>7. SetStands(memory)' /\ SetStands(disk)'
  BY <1>1, <1>2, <1>3, SetsAre DEF SetStands, Differs
<1>8. \A u \in Verifies : CallStands(u)'
  <2> SUFFICES ASSUME NEW u \in Verifies, K!InFlight(u)' PROVE CallStands(u)'
    BY DEF CallStands
  <2>1. CallStands(u) /\ K!InFlight(u) /\ verify[u].asked \in Nat
    BY <1>1 DEF K!InFlight, KeysTypes, CallRecord, Times
  <2> QED BY <1>1, <1>2, <1>3, <2>1 DEF CallStands, Differs
<1>9. ~(clock > since'[j] + HttpTimeout) /\ (forced # None => forced <= clock)
  BY <1>2 DEF KeysTypes
<1>10. \A k \in Keys : Lacks(k)' = Lacks(k)
  BY <1>1 DEF Lacks, StillGood
<1>11. ASSUME NEW k \in Keys, k # j PROVE AskedBefore(k)' /\ RefetchStands(k)'
  <2>1. WasPublished(k)' <=> WasPublished(k)
    BY <1>2, <1>3, <1>11 DEF WasPublished
  <2>2. AskedBefore(k)'
    BY <1>1, <1>2, <1>10, <1>11, <2>1 DEF AskedBefore, AtRefetch, K!InFlight
  <2>3. RefetchStands(k)'
    BY <1>1, <1>2, <1>10, <1>11, <2>1 DEF RefetchStands, K!InFlight
  <2> QED BY <2>2, <2>3
<1>12. AskedBefore(j)' /\ RefetchStands(j)'
  <2>1. AskedBefore(j)'
    BY <1>1, <1>9 DEF AskedBefore
  <2>2. forced \in Nat \cup {None}
    BY DEF KeysTypes, K!TypeOK
  <2>3. RefetchStands(j)'
    BY <1>1, <1>2, <1>9, <2>2 DEF RefetchStands
  <2> QED BY <2>1, <2>3
<1> QED BY <1>5, <1>7, <1>8, <1>11, <1>12

LEMMA TickStands ==
  ASSUME KeysInv, K!Tick
  PROVE  KeysInv'
<1> USE KeysConstants DEF KeysInv
<1>1. /\ UNCHANGED <<published, since, memory, disk, forced, failed, verify>>
      /\ clock < KeysTime /\ clock' = clock + 1
      /\ \A v \in Verifies : K!InFlight(v) => clock - verify[v].asked < HttpTimeout
  BY DEF K!Tick, K!fetcher, K!issuer
<1>2. /\ clock \in Nat /\ clock' \in Times
      /\ forced \in Nat \cup {None} /\ failed \in Nat \cup {None}
      /\ forced # None => forced <= clock
      /\ failed # None => failed <= clock
      /\ \A k \in Keys : since[k] # None => since[k] \in Nat /\ since[k] <= clock
      /\ \A v \in Verifies : verify[v].at \in Nat /\ verify[v].asked \in Nat
  BY <1>1 DEF KeysTypes, K!TypeOK, CallRecord, Times
<1>3. KeysTypes'
  BY <1>1, <1>2 DEF KeysTypes, K!TypeOK, Times
<1>4. SetStands(memory)' /\ SetStands(disk)'
  BY <1>1, <1>2, SetsAre DEF SetStands, Differs
<1>5. \A u \in Verifies : CallStands(u)'
  <2> SUFFICES ASSUME NEW u \in Verifies, K!InFlight(u)' PROVE CallStands(u)'
    BY DEF CallStands
  <2>1. CallStands(u) /\ K!InFlight(u)
    BY <1>1 DEF K!InFlight
  <2> QED BY <1>1, <1>2, <2>1 DEF CallStands, Differs
<1>6. \A k \in Keys : Lacks(k)' => Lacks(k)
  BY <1>1, <1>2, SetsAre DEF Lacks, StillGood
<1>7. ASSUME NEW k \in Keys PROVE AskedBefore(k)'
  <2> SUFFICES ASSUME WasPublished(k), clock + 1 > since[k] + HttpTimeout, Lacks(k)'
               PROVE  /\ \A u \in Verifies : K!InFlight(u) =>
                           verify[u].at <= since[k] + HttpTimeout \/ AtRefetch(verify[u].at)
                      /\ failed # None => failed <= since[k] + HttpTimeout \/ AtRefetch(failed)
    BY <1>1 DEF AskedBefore, AtRefetch, WasPublished, K!InFlight
  <2>1. CASE clock > since[k] + HttpTimeout
    BY <1>6, <2>1 DEF AskedBefore
  <2>2. CASE clock <= since[k] + HttpTimeout
    <3>1. \A u \in Verifies : K!InFlight(u) => verify[u].at <= clock
      BY <1>2 DEF CallStands
    <3> QED BY <1>2, <2>2, <3>1 DEF WasPublished
  <2> QED BY <1>2, <2>1, <2>2 DEF WasPublished
<1>8. ASSUME NEW k \in Keys PROVE RefetchStands(k)'
  <2> SUFFICES ASSUME WasPublished(k), Lacks(k)', forced # None,
                      forced > since[k] + MinTtl + 2 * HttpTimeout, clock + 1 < forced + MinTtl
               PROVE  /\ \A v \in Verifies : K!InFlight(v) => verify[v].at >= forced
                      /\ \/ \E v \in Verifies : /\ K!InFlight(v) /\ verify[v].forced
                                                /\ verify[v].at = forced
                         \/ failed # None /\ failed >= forced
                         \/ /\ memory # None /\ k \in memory.keys
                            /\ memory.expires_at >= forced + MinTtl
    BY <1>1 DEF RefetchStands, WasPublished, K!InFlight
  <2> QED BY <1>2, <1>6 DEF RefetchStands
<1> QED BY <1>3, <1>4, <1>5, <1>7, <1>8

LEMMA KeysInit ==
  ASSUME K!Init
  PROVE  KeysInv
<1> USE KeysConstants DEF K!Init
<1>1. 0 \in Times /\ clock = 0 /\ clock \in Times
  BY DEF Times
<1>2. /\ verify = [v \in Verifies |-> K!Idle] /\ K!Idle \in CallRecord
      /\ \A v \in Verifies : ~K!InFlight(v)
  BY <1>1 DEF K!Idle, CallRecord, K!InFlight
<1>3. /\ since = [k \in Keys |-> None] /\ published = Published0 /\ disk = None /\ failed = None
      /\ forced \in {None, 0}
  OBVIOUS
<1>4. memory \in {None} \cup [keys : SUBSET Keys, expires_at : 0 .. KeysTime + MaxTtl]
  <2>1. K!Named(Published0) \in SUBSET Keys
    BY DEF K!Named
  <2> QED BY <2>1
<1>5. KeysTypes
  BY <1>1, <1>2, <1>3, <1>4, EdgesAssumption DEF KeysTypes, K!TypeOK, K!Cache, K!KeysAssumption, CallRecord
<1>6. SetStands(memory) /\ SetStands(disk)
  BY <1>1, <1>3 DEF SetStands, Differs, K!Named
<1> QED BY <1>2, <1>3, <1>5, <1>6 DEF KeysInv, CallStands, AskedBefore, RefetchStands, WasPublished

LEMMA KeysStep ==
  ASSUME KeysInv, [K!Next]_(K!vars)
  PROVE  KeysInv'
<1>1. CASE K!Next
  BY <1>1, UntrustedStands, FromCacheStands, NeedsStands, DiscoversStands, AnswersStands,
     StoresStands, FailsStands, RestartStands, RotateStands, TickStands DEF K!Next
<1>2. CASE UNCHANGED K!vars
  BY <1>2 DEF K!vars, KeysInv, KeysTypes, K!TypeOK, CallRecord, SetStands, CallStands, AskedBefore,
     RefetchStands, WasPublished, Lacks, StillGood, AtRefetch, Differs, K!InFlight
<1> QED BY <1>1, <1>2

\* What a verdict is given for, and what an unknown key is.
LEMMA VerifyClaimIs ==
  ASSUME NEW t \in Tokens, NEW keys, NEW at \in Nat
  PROVE  LET v == K!VerifyClaim(t, keys, at) IN
         /\ v.is = "admitted" =>
              /\ ~t.crit /\ t.iss \in Trusted /\ t.aud \cap Audiences # {} /\ t.nonce = Node
              /\ \E k \in K!Candidates(t, keys) : K!Signed(t, k)
              /\ at <= t.exp + Skew
              /\ v.email = (IF t.email_verified THEN t.email ELSE None)
              /\ v.org = (IF t.iss = Google THEN t.hd ELSE None)
         /\ v.is = "Expired" => at > t.exp + Skew
         /\ v.is = "UnknownKey" => K!Candidates(t, keys) = {}
<1>1. t.exp \in Nat /\ Skew \in Nat
  BY EdgesAssumption DEF K!ShapeAssumption, K!TtlAssumption
<1>2. CASE t.crit
  BY <1>2 DEF K!VerifyClaim, K!Refusal
<1>3. CASE ~t.crit /\ t.alg \notin K!Algs
  BY <1>3 DEF K!VerifyClaim, K!Refusal
<1>4. CASE ~t.crit /\ t.alg \in K!Algs
  BY <1>1, <1>4 DEF K!VerifyClaim, K!Refusal
<1> QED BY <1>2, <1>3, <1>4

LEMMA VerdictIs ==
  ASSUME NEW t \in Tokens, NEW keys, NEW at \in Nat
  PROVE  LET v == K!Verdict(t, keys, at) IN
         /\ v.is \in {"admitted", "Expired"} =>
              /\ ~t.crit /\ t.iss \in Trusted /\ t.aud \cap Audiences # {} /\ t.nonce = Node
              /\ \E k \in keys : k.name = t.signer /\ K!Fits(t.alg, k)
         /\ v.is = "admitted" =>
              /\ v.email # None => t.email_verified
              /\ v.org # None => t.iss = Google
              /\ at <= t.exp + Skew
         /\ v.is = "Expired" => at > t.exp + Skew
         /\ v.is = "UnknownKey" => K!Candidates(t, keys) = {}
<1> DEFINE v == K!VerifyClaim(t, keys, at)
           then == K!VerifyClaim(t, keys, t.exp)
<1>1. t.exp \in Nat /\ Skew \in Nat
  BY EdgesAssumption DEF K!ShapeAssumption, K!TtlAssumption
<1>2. /\ v.is = "admitted" =>
           /\ ~t.crit /\ t.iss \in Trusted /\ t.aud \cap Audiences # {} /\ t.nonce = Node
           /\ \E k \in K!Candidates(t, keys) : K!Signed(t, k)
           /\ at <= t.exp + Skew
           /\ v.email = (IF t.email_verified THEN t.email ELSE None)
           /\ v.org = (IF t.iss = Google THEN t.hd ELSE None)
      /\ v.is = "Expired" => at > t.exp + Skew
      /\ v.is = "UnknownKey" => K!Candidates(t, keys) = {}
  BY VerifyClaimIs
<1>3. /\ then.is = "admitted" =>
           /\ ~t.crit /\ t.iss \in Trusted /\ t.aud \cap Audiences # {} /\ t.nonce = Node
           /\ \E k \in K!Candidates(t, keys) : K!Signed(t, k)
      /\ then.is # "Expired"
      /\ then.is = "UnknownKey" => K!Candidates(t, keys) = {}
  BY <1>1, VerifyClaimIs
<1>4. (\E k \in K!Candidates(t, keys) : K!Signed(t, k))
        => \E k \in keys : k.name = t.signer /\ K!Fits(t.alg, k)
  BY DEF K!Candidates, K!Signed
<1>5. K!Verdict(t, keys, at) =
        IF v.is # "Expired" THEN v
        ELSE IF then.is = "admitted" THEN [is |-> "Expired", who |-> then.email] ELSE then
  BY DEF K!Verdict
<1> HIDE DEF v, then
<1>6. CASE v.is # "Expired"
  BY <1>2, <1>4, <1>5, <1>6
<1>7. CASE v.is = "Expired" /\ then.is = "admitted"
  BY <1>2, <1>3, <1>4, <1>5, <1>7
<1>8. CASE v.is = "Expired" /\ then.is # "admitted"
  BY <1>2, <1>3, <1>5, <1>8
<1> QED BY <1>6, <1>7, <1>8

\* A key is known by its name.
LEMMA KeyOfIs ==
  ASSUME NEW t, NEW k \in Keys, k.name = t.signer
  PROVE  K!KeyOf(t) = k
  BY EdgesAssumption DEF K!KeyOf, K!KeysAssumption

\* A verdict that was reached with keys the issuer has had lately, and not long ago.
Judged(t, keys, at) ==
  /\ keys \in SUBSET Keys
  /\ at \in Nat /\ at <= clock /\ clock <= at + 2 * HttpTimeout
  /\ \A k \in Keys : Differs(keys, k) => K!New(k, MaxTtl)

LEMMA JudgedDeserved ==
  ASSUME KeysInv, NEW t \in Tokens, NEW keys, NEW at, Judged(t, keys, at),
         UNCHANGED <<clock, published, since>>,
         said' = [token |-> t, verdict |-> K!Verdict(t, keys, at)]
  PROVE  K!VerdictsAreDeserved'
<1> DEFINE v == K!Verdict(t, keys, at)
<1>1. said'.token = t /\ said'.verdict = v
  OBVIOUS
<1>2. /\ v.is \in {"admitted", "Expired"} =>
           /\ ~t.crit /\ t.iss \in Trusted /\ t.aud \cap Audiences # {} /\ t.nonce = Node
           /\ \E k \in keys : k.name = t.signer /\ K!Fits(t.alg, k)
      /\ v.is = "admitted" =>
           /\ v.email # None => t.email_verified
           /\ v.org # None => t.iss = Google
           /\ at <= t.exp + Skew
      /\ v.is = "Expired" => at > t.exp + Skew
  BY VerdictIs DEF Judged
<1> HIDE DEF v
<1>3. /\ t.exp \in Nat /\ Skew \in Nat /\ clock \in Nat /\ at \in Nat /\ HttpTimeout \in Nat
      /\ at <= clock /\ clock <= at + 2 * HttpTimeout
  BY EdgesAssumption DEF K!ShapeAssumption, K!TtlAssumption, Judged, KeysInv, KeysTypes, K!TypeOK
<1>4. ASSUME v.is \in {"admitted", "Expired"}
      PROVE  K!Fits(t.alg, K!KeyOf(t)) /\ K!Vouched(t)'
  <2>1. PICK k \in keys : k.name = t.signer /\ K!Fits(t.alg, k)
    BY <1>2, <1>4
  <2>2. k \in Keys /\ K!KeyOf(t) = k
    BY <2>1, KeyOfIs DEF Judged
  <2>3. k.name \in published \/ K!New(k, MaxTtl)
    BY <2>1, <2>2 DEF Judged, Differs
  <2> QED BY <2>1, <2>2, <2>3 DEF K!Vouched, K!New
<1> QED BY <1>1, <1>2, <1>3, <1>4 DEF K!VerdictsAreDeserved

LEMMA JudgedAccepted ==
  ASSUME KeysInv, NEW t \in Tokens, NEW keys, NEW at, Judged(t, keys, at),
         UNCHANGED <<clock, published, since>>,
         said' = [token |-> t, verdict |-> K!Verdict(t, keys, at)],
         \A k \in Keys : k.name \in published /\ k \notin keys /\ t.kid # None /\ k.kid = t.kid
            => K!New(k, 2 * (MinTtl + HttpTimeout)) \/ K!Refetching'
  PROVE  K!NewKeysAccepted'
<1> DEFINE v == K!Verdict(t, keys, at)
           k == K!KeyOf(t)
<1>1. said'.token = t /\ said'.verdict = v
  OBVIOUS
<1>2. v.is = "UnknownKey" => K!Candidates(t, keys) = {}
  BY VerdictIs DEF Judged
<1> HIDE DEF v
<1>3. SUFFICES ASSUME v.is = "UnknownKey", t.signer \in published, K!Fits(t.alg, k),
                      t.kid \in {None, k.kid}
               PROVE  /\ K!New(k, MaxTtl)
                      /\ t.kid = None \/ K!New(k, 2 * (MinTtl + HttpTimeout)) \/ K!Refetching'
  BY <1>1 DEF K!NewKeysAccepted, K!New
<1>4. PICK j \in Keys : j.name = t.signer
  BY <1>3 DEF KeysInv, KeysTypes, K!TypeOK
<1>5. k = j
  BY <1>4, KeyOfIs
<1> HIDE DEF k
<1>6. k \notin keys
  BY <1>2, <1>3, <1>4, <1>5 DEF K!Candidates
<1>7. K!New(k, MaxTtl)
  BY <1>3, <1>4, <1>5, <1>6 DEF Judged, Differs
<1> QED BY <1>3, <1>4, <1>5, <1>6, <1>7

LEMMA FromCacheJudges ==
  ASSUME KeysInv, NEW v \in Verifies, NEW t \in Tokens, K!FromCache(v, t)
  PROVE  K!VerdictsAreDeserved' /\ K!NewKeysAccepted'
<1> USE KeysConstants DEF KeysInv
<1> DEFINE c == K!Cached
<1>1. /\ UNCHANGED <<clock, published, since, forced, failed>>
      /\ K!Says(v, t, K!Verdict(t, c.keys, clock)) /\ verify[v].phase = "idle" /\ c # None
      /\ t.kid = None \/ K!HasKid(c.keys, t.kid) \/ K!ForcedLately
  BY DEF K!FromCache, K!issuer
<1>2. said' = [token |-> t, verdict |-> K!Verdict(t, c.keys, clock)]
  BY <1>1 DEF K!Says
<1>3. StillGood(c) /\ c \in {memory, disk} /\ (StillGood(memory) => c = memory)
  BY <1>1, CachedIs
<1> HIDE DEF c
<1>4. /\ c # None /\ c.keys \in SUBSET Keys /\ c.expires_at \in Nat /\ c.expires_at > clock
      /\ SetStands(c)
  BY <1>3, SetsAre DEF StillGood
<1>5. /\ clock \in Nat /\ forced \in Nat \cup {None} /\ failed \in Nat \cup {None}
      /\ \A k \in Keys : since[k] # None => since[k] \in Nat
  BY DEF KeysTypes, K!TypeOK, Times
<1>6. Judged(t, c.keys, clock)
  BY <1>4, <1>5 DEF Judged, SetStands, K!New
<1>7. ASSUME NEW k \in Keys, k.name \in published, k \notin c.keys, t.kid # None, k.kid = t.kid,
             ~K!New(k, 2 * (MinTtl + HttpTimeout))
      PROVE  K!Refetching'
  <2>1. Lacks(k) /\ WasPublished(k)
    BY <1>3, <1>4, <1>7 DEF Lacks, SetStands, Differs, WasPublished
  <2>2. ~K!HasKid(c.keys, t.kid)
    BY <1>4, <1>7, EdgesAssumption DEF K!HasKid, K!KeysAssumption
  <2>3. forced # None /\ clock < forced + MinTtl
    BY <1>1, <1>5, <1>7, <2>2 DEF K!ForcedLately
  <2>4. forced > since[k] + MinTtl + 2 * HttpTimeout
    BY <1>5, <1>7, <2>1, <2>3 DEF K!New, WasPublished
  <2>5. \/ \E u \in Verifies : K!InFlight(u) /\ verify[u].forced /\ verify[u].at = forced
        \/ failed # None /\ failed >= forced
        \/ memory # None /\ k \in memory.keys /\ memory.expires_at >= forced + MinTtl
    BY <2>1, <2>3, <2>4 DEF RefetchStands
  <2>6. CASE \E u \in Verifies : K!InFlight(u) /\ verify[u].forced /\ verify[u].at = forced
    <3>1. PICK u \in Verifies : K!InFlight(u) /\ verify[u].forced
      BY <2>6
    <3>2. verify'[u] = verify[u]
      BY <1>1, <3>1, SaysEnds DEF K!InFlight
    <3> QED BY <3>1, <3>2 DEF K!Refetching
  <2>7. CASE failed # None /\ failed >= forced
    BY <1>1, <1>5, <2>3, <2>7 DEF K!Refetching, K!FailedLately
  <2>8. CASE memory # None /\ k \in memory.keys /\ memory.expires_at >= forced + MinTtl
    <3>1. memory.expires_at \in Nat
      BY <2>8, SetsAre
    <3>2. StillGood(memory)
      BY <1>5, <2>3, <2>8, <3>1 DEF StillGood
    <3> QED BY <1>3, <1>7, <2>8, <3>2
  <2> QED BY <2>5, <2>6, <2>7, <2>8
<1>8. K!VerdictsAreDeserved'
  BY <1>1, <1>2, <1>6, JudgedDeserved
<1>9. K!NewKeysAccepted'
  BY <1>1, <1>2, <1>6, <1>7, JudgedAccepted
<1> QED BY <1>8, <1>9

LEMMA StoresJudges ==
  ASSUME KeysInv, NEW v \in Verifies, K!Stores(v)
  PROVE  K!VerdictsAreDeserved' /\ K!NewKeysAccepted'
<1> USE KeysConstants DEF KeysInv
<1> DEFINE t == verify[v].token
           keys == verify[v].got
           at == verify[v].at
<1>1. /\ verify[v].phase = "answered" /\ K!InFlight(v) /\ UNCHANGED <<clock, published, since>>
      /\ said' = [token |-> t, verdict |-> K!Verdict(t, keys, at)]
  BY DEF K!Stores, K!issuer, K!Says, K!InFlight
<1>2. /\ t \in Tokens /\ at \in Nat /\ keys \in SUBSET Keys /\ verify[v].asked \in Nat
      /\ at <= verify[v].asked /\ verify[v].asked <= at + HttpTimeout
      /\ verify[v].asked <= clock /\ clock <= verify[v].asked + HttpTimeout
      /\ \A k \in Keys : Differs(keys, k) => since[k] # None /\ since[k] >= verify[v].asked
  BY <1>1 DEF CallStands, KeysTypes, CallRecord, Times
<1>3. clock \in Nat /\ \A k \in Keys : since[k] # None => since[k] \in Nat
  BY DEF KeysTypes, K!TypeOK, Times
<1> HIDE DEF t, keys, at
<1>4. \A k \in Keys :
        Differs(keys, k) => K!New(k, MaxTtl) /\ K!New(k, 2 * (MinTtl + HttpTimeout))
  BY <1>2, <1>3 DEF K!New
<1>5. Judged(t, keys, at)
  BY <1>2, <1>3, <1>4 DEF Judged
<1>6. K!VerdictsAreDeserved'
  BY <1>1, <1>2, <1>5, JudgedDeserved
<1>7. K!NewKeysAccepted'
  BY <1>1, <1>2, <1>4, <1>5, JudgedAccepted DEF Differs
<1> QED BY <1>6, <1>7

LEMMA StepJudges ==
  ASSUME KeysInv, K!Next
  PROVE  K!VerdictsAreDeserved' /\ K!NewKeysAccepted'
<1>1. ASSUME said' = None \/ said'.verdict.is \in {"Untrusted", "Unavailable"}
      PROVE  K!VerdictsAreDeserved' /\ K!NewKeysAccepted'
  BY <1>1 DEF K!VerdictsAreDeserved, K!NewKeysAccepted
<1>2. ASSUME NEW v \in Verifies, NEW t \in Tokens, K!Untrusted(v, t) PROVE said'.verdict.is = "Untrusted"
  BY <1>2 DEF K!Untrusted, K!Says, K!Refusal
<1>3. ASSUME NEW v \in Verifies, NEW t \in Tokens, K!Needs(v, t)
      PROVE  said' = None \/ said'.verdict.is = "Unavailable"
  BY <1>3 DEF K!Needs, K!Says, K!Refusal
<1>4. ASSUME NEW v \in Verifies, K!Fails(v) PROVE said'.verdict.is = "Unavailable"
  BY <1>4 DEF K!Fails, K!Says, K!Refusal
<1>5. ASSUME NEW v \in Verifies, K!Discovers(v) \/ K!Answers(v) PROVE said' = None
  BY <1>5 DEF K!Discovers, K!Answers
<1>6. K!Restart \/ K!Tick \/ (\E k \in Keys : K!Rotate(k)) => said' = None
  BY DEF K!Restart, K!Tick, K!Rotate
<1> QED BY <1>1, <1>2, <1>3, <1>4, <1>5, <1>6, FromCacheJudges, StoresJudges DEF K!Next

\* The keys' part of a step: one of its own, or none.
LEMMA KeysPart ==
  /\ MCInit => K!Init
  /\ [MCNext]_<<vars, verified, framed, flooded, part>> => [K!Next]_(K!vars)
<1>1. MCInit => K!Init
  BY DEF MCInit
<1>2. ASSUME MCNext PROVE [K!Next]_(K!vars)
  BY <1>2 DEF MCNext, K!vars, verified
<1>3. UNCHANGED <<vars, verified, framed, flooded, part>> => UNCHANGED K!vars
  BY DEF K!vars, verified
<1> QED BY <1>1, <1>2, <1>3

\* A token is admitted, or its holder named, only by a key that its issuer publishes or did
\* within MAX_TTL, whatever was cached, on its way or on disk when the issuer rotated its
\* keys; and one whose key has been published for long enough is not refused for it, but
\* while the one refetch for it is out or has just failed (jwks.rs, idp.rs).
THEOREM VerifierJudgesTokensRight == MCSpec => []TokensAreJudgedRight
<1> DEFINE I == KeysInv /\ K!VerdictsAreDeserved /\ K!NewKeysAccepted
<1>1. K!Init => I
  BY KeysInit DEF K!Init, K!VerdictsAreDeserved, K!NewKeysAccepted
<1>2. I /\ [K!Next]_(K!vars) => I'
  <2>1. CASE K!Next
    BY <2>1, KeysStep, StepJudges
  <2>2. ASSUME I, UNCHANGED K!vars PROVE I'
    <3>1. K!VerdictsAreDeserved' /\ K!NewKeysAccepted'
      BY <2>2 DEF K!vars, K!VerdictsAreDeserved, K!NewKeysAccepted, K!Vouched, K!New, K!Refetching,
                  K!FailedLately
    <3> QED BY <2>2, <3>1, KeysStep
  <2> QED BY <2>1, <2>2
<1>3. I => TokensAreJudgedRight
  BY DEF TokensAreJudgedRight, K!TokensAreJudgedRight, KeysInv, KeysTypes
<1> HIDE DEF I
<1> QED BY <1>1, <1>2, <1>3, KeysPart, PTL DEF MCSpec

-----------------------------------------------------------------------------
(* Floods: the throttled log, and the gateway's limit.                       *)

FloodSteps == {"idle", "counting", "loading", "exchanging", "writing"}

TaskRecord == [step : FloodSteps, at : 0 .. FloodTime, last : {F!Absent} \cup 0 .. FloodTime]

FloodTypes ==
  /\ time \in 0 .. FloodTime /\ flood \in {"throttle", "limit"}
  /\ last \in {F!Absent} \cup 0 .. FloodTime /\ count \in Nat
  /\ task \in [Tasks -> TaskRecord]
  /\ lines \in Seq([at : 0 .. FloodTime, n : Nat]) /\ refusals \in Nat

Apart(x, y) == x - y >= Every \/ y - x >= Every

\* A line is written, or about to be, at times that the mark went through; and the mark
\* moves on by EVERY_MS at least.
LinesStand ==
  /\ \A t \in Tasks : task[t].step = "exchanging" =>
       task[t].last = F!Absent \/ task[t].at - task[t].last >= Every
  /\ \A i \in 1 .. Len(lines) : last # F!Absent /\ lines[i].at <= last
  /\ \A t \in Tasks : task[t].step = "writing" =>
       /\ last # F!Absent /\ task[t].at <= last
       /\ \A i \in 1 .. Len(lines) : Apart(task[t].at, lines[i].at)
       /\ \A u \in Tasks : u # t /\ task[u].step = "writing" => Apart(task[t].at, task[u].at)
  /\ \A i, j \in 1 .. Len(lines) : i # j => Apart(lines[i].at, lines[j].at)

Counting == {t \in Tasks : task[t].step = "counting"}

\* What the lines said, what the next will and what is about to be counted.
CountStands ==
  \E total \in F!Totals : refusals = count + Cardinality(Counting) + total[Len(lines)]

ThrottleInv == FloodTypes /\ LinesStand /\ CountStands

LimitTypes ==
  /\ time \in Nat /\ requests \in 0 .. MaxRequests
  /\ seen = [n \in DOMAIN seen |-> seen[n]] /\ DOMAIN seen \subseteq Nets
  /\ \A n \in DOMAIN seen : seen[n] \in [start : 0 .. time, count : Nat \ {0}]
  /\ IsFiniteSet(DOMAIN seen) /\ Cardinality(DOMAIN seen) <= MaxTracked
  /\ IsFiniteSet(granted) /\ \A g \in granted : g.at \in 0 .. time

Since(n, a) == {g \in granted : Home[g.by] = n /\ g.at >= a}
Between(n, a, b) == {g \in granted : Home[g.by] = n /\ g.at \in a .. b}

\* What net n was let through in its window and in the time of one before it, while
\* nothing put it out of the table.
BudgetStands(n) ==
  /\ n \in DOMAIN seen =>
       LET s == seen[n].start IN
         /\ Cardinality(Since(n, s)) <= seen[n].count /\ Cardinality(Since(n, s)) <= PerMinute
         /\ \A g \in Since(n, s) : g.at < s + Window
         /\ Cardinality(Between(n, s - Window + 1, s - 1)) <= PerMinute
  /\ n \notin DOMAIN seen =>
       Cardinality(Since(n, time - Window + 1)) <= PerMinute /\ Since(n, time) = {}
  /\ \A from \in 0 .. time : Cardinality(Between(n, from, from + Window - 1)) <= 2 * PerMinute

LimitInv == LimitTypes /\ \A n \in Nets : ~TrustProxy /\ n \notin forgot => BudgetStands(n)

FloodInv == ThrottleInv /\ LimitInv

LEMMA FloodConstants ==
  /\ Every \in Nat /\ Every > 0 /\ Window \in Nat /\ Window > 0 /\ PerMinute \in Nat
  /\ MaxTracked \in Nat /\ MaxTracked > 0 /\ Home \in [Callers -> Nets]
  /\ FloodTime \in Nat /\ MaxRequests \in Nat /\ IsFiniteSet(Tasks)
<1>1. \A S : F!IsFiniteSet(S) <=> IsFiniteSet(S)
  BY DEF F!IsFiniteSet, IsFiniteSet
<1>2. F!FloodsAssumption
  BY EdgesAssumption
<1> QED BY <1>1, <1>2 DEF F!FloodsAssumption

LEMMA Cards == \A S : F!Cardinality(S) = Cardinality(S)
  BY DEF F!Cardinality, Cardinality

LEMMA CountingIs ==
  ASSUME FloodTypes
  PROVE  IsFiniteSet(Counting) /\ Cardinality(Counting) \in Nat
<1>1. Counting \subseteq Tasks /\ IsFiniteSet(Tasks)
  BY FloodConstants DEF Counting
<1> QED BY <1>1, FS_Subset, FS_CardinalityType

\* A task that becomes k, and the count of those about to count.
LEMMA CountingMoves ==
  ASSUME FloodTypes, NEW t \in Tasks, NEW k, task' = [task EXCEPT ![t] = k]
  PROVE  /\ Cardinality(Counting') \in Nat
         /\ task[t].step # "counting" /\ k.step # "counting" => Counting' = Counting
         /\ task[t].step = "counting" /\ k.step # "counting" =>
              Cardinality(Counting') = Cardinality(Counting) - 1
         /\ task[t].step # "counting" /\ k.step = "counting" =>
              Cardinality(Counting') = Cardinality(Counting) + 1
<1>1. DOMAIN task = Tasks
  BY DEF FloodTypes
<1>2. \A u \in Tasks : task'[u] = IF u = t THEN k ELSE task[u]
  BY <1>1
<1>3. IsFiniteSet(Counting) /\ Cardinality(Counting) \in Nat
  BY CountingIs
<1>4. task[t].step # "counting" /\ k.step # "counting" => Counting' = Counting
  BY <1>2 DEF Counting
<1>5. ASSUME task[t].step = "counting", k.step # "counting"
      PROVE  Cardinality(Counting') = Cardinality(Counting) - 1
  <2>1. Counting' = Counting \ {t} /\ t \in Counting
    BY <1>2, <1>5 DEF Counting
  <2> QED BY <1>3, <2>1, FS_RemoveElement
<1>6. ASSUME task[t].step # "counting", k.step = "counting"
      PROVE  Cardinality(Counting') = Cardinality(Counting) + 1
  <2>1. Counting' = Counting \cup {t} /\ t \notin Counting
    BY <1>2, <1>6 DEF Counting
  <2> QED BY <1>3, <2>1, FS_AddElement
<1>7. Cardinality(Counting') \in Nat
  <2>1. Counting' \subseteq Tasks
    BY DEF Counting
  <2> QED BY <2>1, FloodConstants, FS_Subset, FS_CardinalityType
<1> QED BY <1>4, <1>5, <1>6, <1>7

\* The lines are as they were and the sum comes out.
LEMMA CountKept ==
  ASSUME CountStands, FloodTypes, lines' = lines, refusals' \in Nat, refusals <= refusals',
         Cardinality(Counting)' \in Nat, count' \in Nat,
         refusals' - count' - Cardinality(Counting)' = refusals - count - Cardinality(Counting)
  PROVE  CountStands'
<1>1. PICK total \in F!Totals : refusals = count + Cardinality(Counting) + total[Len(lines)]
  BY DEF CountStands
<1>2. total \in [0 .. Len(lines) -> 0 .. refusals] /\ lines \in Seq([at : 0 .. FloodTime, n : Nat])
      /\ Len(lines) \in Nat /\ refusals \in Nat /\ count \in Nat /\ Cardinality(Counting) \in Nat
  <2>1. total \in [0 .. Len(lines) -> 0 .. refusals]
    BY <1>1 DEF F!Totals
  <2>2. lines \in Seq([at : 0 .. FloodTime, n : Nat]) /\ refusals \in Nat /\ count \in Nat
    BY DEF FloodTypes
  <2> QED BY <2>1, <2>2, CountingIs
<1>3. total \in [0 .. Len(lines) -> 0 .. refusals']
  <2>1. 0 .. refusals \subseteq 0 .. refusals'
    BY <1>2
  <2> QED BY <1>2, <2>1
<1>4. total \in F!Totals'
  <2>1. (0 .. Len(lines))' = 0 .. Len(lines) /\ lines' = lines
    OBVIOUS
  <2> QED BY <1>1, <1>3, <2>1 DEF F!Totals
<1>9. PICK l \in Nat : l = Len(lines)
  BY <1>2
<1>5. PICK sum \in Nat : sum = total[Len(lines)]
  <2>1. total \in [0 .. l -> 0 .. refusals] /\ l \in 0 .. l
    BY <1>2, <1>9
  <2>2. total[l] \in Nat
    BY <1>2, <2>1
  <2> QED BY <1>9, <2>2
<1>6. PICK c \in Nat : c = Cardinality(Counting)
  BY <1>2
<1>7. PICK d \in Nat : d = Cardinality(Counting)'
  OBVIOUS
<1>10. PICK r \in Nat : r = refusals'
  OBVIOUS
<1>11. PICK a \in Nat : a = count'
  OBVIOUS
<1>8. refusals' = count' + d + sum
  <2>1. r - a - d = refusals - count - c /\ refusals = count + c + sum
    BY <1>1, <1>5, <1>6, <1>7, <1>10, <1>11
  <2>2. r = a + d + sum
    BY <1>2, <2>1
  <2> QED BY <1>10, <1>11, <2>2
<1> QED BY <1>4, <1>5, <1>7, <1>8 DEF CountStands

\* A step of a task that writes no line and is not about to.
LEMMA LinesKept ==
  ASSUME FloodTypes, LinesStand, NEW t \in Tasks, NEW k, task' = [task EXCEPT ![t] = k],
         UNCHANGED <<lines, last>>, k.step # "writing",
         k.step = "exchanging" => k.last = F!Absent \/ k.at - k.last >= Every
  PROVE  LinesStand'
<1>1. DOMAIN task = Tasks
  BY DEF FloodTypes
<1>2. \A u \in Tasks : task'[u] = IF u = t THEN k ELSE task[u]
  BY <1>1
<1>3. \A u \in Tasks : task'[u].step = "writing" => u # t /\ task'[u] = task[u]
  BY <1>2
<1>4. \A u \in Tasks : task'[u].step = "exchanging" =>
        task'[u].last = F!Absent \/ task'[u].at - task'[u].last >= Every
  BY <1>2 DEF LinesStand
<1> QED BY <1>3, <1>4 DEF LinesStand

LEMMA BeginsStand ==
  ASSUME ThrottleInv, NEW t \in Tasks, F!Begin(t)
  PROVE  ThrottleInv'
<1> DEFINE k == [F!Idle EXCEPT !.step = "counting", !.at = time]
<1>1. /\ task[t].step = "idle" /\ task' = [task EXCEPT ![t] = k] /\ refusals' = refusals + 1
      /\ UNCHANGED <<time, flood, last, count, lines>>
  BY DEF F!Begin, F!limit
<1>2. FloodTypes /\ LinesStand /\ CountStands
  BY DEF ThrottleInv
<1>3. k \in TaskRecord /\ k.step = "counting"
  BY <1>2 DEF F!Idle, TaskRecord, FloodTypes, FloodSteps
<1> HIDE DEF k
<1>4. FloodTypes'
  BY <1>1, <1>2, <1>3 DEF FloodTypes
<1>5. LinesStand'
  BY <1>1, <1>2, <1>3, LinesKept
<1>6. CountStands'
  <2>1. Cardinality(Counting)' = Cardinality(Counting) + 1 /\ Cardinality(Counting) \in Nat
    BY <1>1, <1>2, <1>3, CountingMoves, CountingIs
  <2>2. refusals \in Nat /\ count \in Nat /\ count' = count
    BY <1>1, <1>2 DEF FloodTypes
  <2>3. Cardinality(Counting)' \in Nat /\ refusals' \in Nat /\ refusals <= refusals'
    BY <1>1, <2>1, <2>2
  <2>4. refusals' - count' - Cardinality(Counting)' = refusals - count - Cardinality(Counting)
    <3>1. PICK c \in Nat : c = Cardinality(Counting)
      BY <2>1
    <3>2. (refusals + 1) - count - (c + 1) = refusals - count - c
      BY <2>2
    <3> QED BY <1>1, <2>1, <2>2, <3>1, <3>2
  <2> QED BY <1>1, <1>2, <2>2, <2>3, <2>4, CountKept
<1> QED BY <1>4, <1>5, <1>6 DEF ThrottleInv

LEMMA CountsStand ==
  ASSUME ThrottleInv, NEW t \in Tasks, F!Count(t)
  PROVE  ThrottleInv'
<1> DEFINE k == [task[t] EXCEPT !.step = "loading"]
<1>1. /\ task[t].step = "counting" /\ task' = [task EXCEPT ![t] = k] /\ count' = count + 1
      /\ UNCHANGED <<time, flood, last, refusals, lines>>
  BY DEF F!Count, F!limit
<1>2. FloodTypes /\ LinesStand /\ CountStands
  BY DEF ThrottleInv
<1>3. k \in TaskRecord /\ k.step = "loading"
  BY <1>2 DEF TaskRecord, FloodTypes, FloodSteps
<1> HIDE DEF k
<1>4. FloodTypes'
  BY <1>1, <1>2, <1>3 DEF FloodTypes
<1>5. LinesStand'
  BY <1>1, <1>2, <1>3, LinesKept
<1>6. CountStands'
  <2>1. /\ Cardinality(Counting') = Cardinality(Counting) - 1 /\ Cardinality(Counting) \in Nat
        /\ Cardinality(Counting)' \in Nat
    BY <1>1, <1>2, <1>3, CountingMoves, CountingIs
  <2>2. refusals \in Nat /\ count \in Nat /\ refusals' = refusals /\ count' = count + 1
    BY <1>1, <1>2 DEF FloodTypes
  <2>3. refusals' - count' - Cardinality(Counting)' = refusals - count - Cardinality(Counting)
    <3>1. PICK c \in Nat : c = Cardinality(Counting)
      BY <2>1
    <3>2. refusals - (count + 1) - (c - 1) = refusals - count - c
      BY <2>2
    <3> QED BY <2>1, <2>2, <3>1, <3>2
  <2>4. refusals' \in Nat /\ count' \in Nat /\ refusals <= refusals'
    BY <2>2
  <2> QED BY <1>1, <1>2, <2>1, <2>3, <2>4, CountKept
<1> QED BY <1>4, <1>5, <1>6 DEF ThrottleInv

\* What a step that does not count leaves of the count.
LEMMA CountUntouched ==
  ASSUME ThrottleInv, UNCHANGED <<lines, refusals, count>>, Counting' = Counting
  PROVE  CountStands'
<1>1. PICK total \in F!Totals : refusals = count + Cardinality(Counting) + total[Len(lines)]
  BY DEF ThrottleInv, CountStands
<1>2. total \in F!Totals'
  BY <1>1 DEF F!Totals
<1> QED BY <1>1, <1>2 DEF CountStands

LEMMA LoadsStand ==
  ASSUME ThrottleInv, NEW t \in Tasks, F!Load(t)
  PROVE  ThrottleInv'
<1> DEFINE k == IF last # F!Absent /\ task[t].at - last < Every THEN F!Idle
                ELSE [task[t] EXCEPT !.step = "exchanging", !.last = last]
<1>1. /\ task[t].step = "loading" /\ task' = [task EXCEPT ![t] = k]
      /\ UNCHANGED <<time, flood, last, count, refusals, lines>>
  BY DEF F!Load, F!limit
<1>2. FloodTypes /\ LinesStand /\ CountStands
  BY DEF ThrottleInv
<1>3. task[t] \in TaskRecord /\ last \in {F!Absent} \cup 0 .. FloodTime
  BY <1>2 DEF FloodTypes
<1>4. /\ k \in TaskRecord /\ k.step \in {"idle", "exchanging"}
      /\ k.step = "exchanging" => k.last = F!Absent \/ k.at - k.last >= Every
  <2>1. CASE last # F!Absent /\ task[t].at - last < Every
    <3>1. 0 \in 0 .. FloodTime
      BY FloodConstants
    <3> QED BY <2>1, <3>1 DEF F!Idle, TaskRecord, FloodSteps
  <2>2. CASE ~(last # F!Absent /\ task[t].at - last < Every)
    <3> DEFINE e == [task[t] EXCEPT !.step = "exchanging", !.last = last]
    <3>1. e \in TaskRecord /\ e.step = "exchanging" /\ e.last = last /\ e.at = task[t].at
      BY <1>3 DEF TaskRecord, FloodSteps
    <3>2. k = e
      BY <2>2
    <3>3. last = F!Absent \/ task[t].at - last >= Every
      BY <1>3, <2>2, FloodConstants DEF TaskRecord, F!Absent
    <3> HIDE DEF e
    <3> QED BY <3>1, <3>2, <3>3
  <2> QED BY <2>1, <2>2
<1> HIDE DEF k
<1>5. FloodTypes'
  BY <1>1, <1>2, <1>4 DEF FloodTypes
<1>6. LinesStand'
  BY <1>1, <1>2, <1>4, LinesKept
<1>7. Counting' = Counting
  BY <1>1, <1>2, <1>4, CountingMoves
<1>8. CountStands'
  BY <1>1, <1>7, CountUntouched
<1> QED BY <1>5, <1>6, <1>8 DEF ThrottleInv

LEMMA LinesAre ==
  ASSUME FloodTypes
  PROVE  \A i \in 1 .. Len(lines) : lines[i].at \in 0 .. FloodTime /\ lines[i].n \in Nat
<1> DEFINE Line == [at : 0 .. FloodTime, n : Nat]
<1>1. lines \in Seq(Line)
  BY DEF FloodTypes
<1>2. \A l \in Line : l.at \in 0 .. FloodTime /\ l.n \in Nat
  OBVIOUS
<1> HIDE DEF Line
<1>3. \A i \in 1 .. Len(lines) : lines[i] \in Line
  BY <1>1
<1> QED BY <1>2, <1>3

\* The mark moves, and the task that moved it is about to write.
LEMMA ExchangesStand ==
  ASSUME ThrottleInv, NEW t \in Tasks, F!Exchange(t)
  PROVE  ThrottleInv'
<1>1. /\ task[t].step = "exchanging"
      /\ UNCHANGED <<time, flood, count, refusals, lines>>
  BY DEF F!Exchange, F!limit
<1>2. FloodTypes /\ LinesStand /\ CountStands
  BY DEF ThrottleInv
<1>3. /\ task[t] \in TaskRecord /\ DOMAIN task = Tasks /\ last \in {F!Absent} \cup 0 .. FloodTime
      /\ \A u \in Tasks : task[u] \in TaskRecord
  BY <1>2 DEF FloodTypes
<1>4. CASE last # task[t].last
  <2>1. task' = [task EXCEPT ![t] = F!Idle] /\ last' = last
    BY <1>4 DEF F!Exchange, F!Unmoved
  <2>2. F!Idle \in TaskRecord /\ F!Idle.step = "idle"
    <3>1. 0 \in 0 .. FloodTime
      BY FloodConstants
    <3> QED BY <3>1 DEF F!Idle, TaskRecord, FloodSteps
  <2>3. FloodTypes'
    BY <1>1, <1>2, <2>1, <2>2 DEF FloodTypes
  <2>4. LinesStand'
    BY <1>1, <1>2, <2>1, <2>2, LinesKept
  <2>5. Counting' = Counting
    BY <1>1, <1>2, <2>1, <2>2, CountingMoves
  <2>6. CountStands'
    BY <1>1, <2>5, CountUntouched
  <2> QED BY <2>3, <2>4, <2>6 DEF ThrottleInv
<1>5. CASE last = task[t].last
  <2> DEFINE k == [task[t] EXCEPT !.step = "writing"]
  <2>1. task' = [task EXCEPT ![t] = k] /\ last' = task[t].at
    BY <1>5 DEF F!Exchange, F!Unmoved
  <2>2. k \in TaskRecord /\ k.step = "writing" /\ k.at = task[t].at
    BY <1>3 DEF TaskRecord, FloodSteps
  <2> HIDE DEF k
  <2>3. task[t].at \in 0 .. FloodTime /\ last' \in 0 .. FloodTime /\ last' # F!Absent
    BY <1>3, <2>1 DEF TaskRecord, F!Absent
  <2>4. FloodTypes'
    BY <1>1, <1>2, <2>1, <2>2, <2>3 DEF FloodTypes
  <2>5. Counting' = Counting
    BY <1>1, <1>2, <2>1, <2>2, CountingMoves
  <2>6. CountStands'
    BY <1>1, <2>5, CountUntouched
  <2>7. \A u \in Tasks : task'[u] = IF u = t THEN k ELSE task[u]
    BY <1>3, <2>1
  <2>8. last = F!Absent \/ (last \in 0 .. FloodTime /\ task[t].at - last >= Every)
    BY <1>1, <1>2, <1>3, <1>5 DEF LinesStand
  <2>9. \A x \in 0 .. FloodTime : last # F!Absent /\ x <= last => task[t].at - x >= Every /\ x <= task[t].at
    BY <2>3, <2>8, FloodConstants
  <2>10. \A i \in 1 .. Len(lines) : lines[i].at \in 0 .. FloodTime
    BY <1>2, LinesAre
  <2>11. \A u \in Tasks : task[u].at \in 0 .. FloodTime
    BY <1>3 DEF TaskRecord
  <2>12. \A i \in 1 .. Len(lines) : task[t].at - lines[i].at >= Every /\ lines[i].at <= task[t].at
    BY <1>2, <2>9, <2>10 DEF LinesStand
  <2>13. \A u \in Tasks : task[u].step = "writing" =>
           task[t].at - task[u].at >= Every /\ task[u].at <= task[t].at
    BY <1>2, <2>9, <2>11 DEF LinesStand
  <2>14. LinesStand'
    <3>1. \A u \in Tasks : task'[u].step = "exchanging" =>
            task'[u].last = F!Absent \/ task'[u].at - task'[u].last >= Every
      BY <1>2, <2>2, <2>7 DEF LinesStand
    <3>2. \A i \in 1 .. Len(lines) : last' # F!Absent /\ lines[i].at <= last'
      BY <2>1, <2>3, <2>12
    <3>3. ASSUME NEW u \in Tasks, task'[u].step = "writing"
          PROVE  /\ last' # F!Absent /\ task'[u].at <= last'
                 /\ \A i \in 1 .. Len(lines) : Apart(task'[u].at, lines[i].at)
                 /\ \A w \in Tasks : w # u /\ task'[w].step = "writing" => Apart(task'[u].at, task'[w].at)
      <4>1. CASE u = t
        <5>1. task'[u].at = task[t].at
          BY <2>2, <2>7, <4>1
        <5>2. \A w \in Tasks : w # u => task'[w] = task[w]
          BY <2>7, <4>1
        <5> QED BY <2>1, <2>3, <2>12, <2>13, <5>1, <5>2 DEF Apart
      <4>2. CASE u # t
        <5>1. task'[u] = task[u] /\ task[u].step = "writing"
          BY <2>7, <3>3, <4>2
        <5>2. ASSUME NEW w \in Tasks, w # u, task'[w].step = "writing" PROVE Apart(task'[u].at, task'[w].at)
          <6>1. CASE w = t
            <7>1. task'[w].at = task[t].at
              BY <2>2, <2>7, <6>1
            <7> QED BY <2>13, <5>1, <7>1 DEF Apart
          <6>2. CASE w # t
            <7>1. task'[w] = task[w]
              BY <2>7, <6>2
            <7> QED BY <1>2, <5>1, <5>2, <7>1 DEF LinesStand
          <6> QED BY <6>1, <6>2
        <5>3. \A i \in 1 .. Len(lines) : Apart(task'[u].at, lines[i].at)
          BY <1>2, <5>1 DEF LinesStand
        <5> QED BY <2>1, <2>3, <2>13, <5>1, <5>2, <5>3
      <4> QED BY <4>1, <4>2
    <3> QED BY <1>1, <1>2, <3>1, <3>2, <3>3 DEF LinesStand
  <2> QED BY <2>4, <2>6, <2>14 DEF ThrottleInv
<1> QED BY <1>4, <1>5

\* The line says what was counted since the last one.
LEMMA WritesALine ==
  ASSUME ThrottleInv, NEW t \in Tasks, F!Write(t)
  PROVE  ThrottleInv'
<1> DEFINE new == [at |-> task[t].at, n |-> count]
<1>1. /\ task[t].step = "writing" /\ lines' = Append(lines, new) /\ count' = 0
      /\ task' = [task EXCEPT ![t] = F!Idle]
      /\ UNCHANGED <<time, flood, last, refusals>>
  BY DEF F!Write, F!limit
<1>2. FloodTypes /\ LinesStand /\ CountStands
  BY DEF ThrottleInv
<1>3. /\ task[t] \in TaskRecord /\ DOMAIN task = Tasks /\ count \in Nat /\ refusals \in Nat
      /\ lines \in Seq([at : 0 .. FloodTime, n : Nat])
  BY <1>2 DEF FloodTypes
<1>4. F!Idle \in TaskRecord /\ F!Idle.step = "idle"
  <2>1. 0 \in 0 .. FloodTime
    BY FloodConstants
  <2> QED BY <2>1 DEF F!Idle, TaskRecord, FloodSteps
<1>5. new \in [at : 0 .. FloodTime, n : Nat] /\ new.at = task[t].at /\ new.n = count
  BY <1>3 DEF TaskRecord
<1> HIDE DEF new
<1> DEFINE Line == [at : 0 .. FloodTime, n : Nat]
<1>6. /\ lines' \in Seq(Line) /\ Len(lines') = Len(lines) + 1 /\ lines'[Len(lines) + 1] = new
      /\ \A i \in 1 .. Len(lines) : lines'[i] = lines[i]
      /\ Len(lines) \in Nat
  BY <1>1, <1>3, <1>5
<1>7. FloodTypes'
  BY <1>1, <1>2, <1>4, <1>6 DEF FloodTypes
<1>8. \A u \in Tasks : task'[u] = IF u = t THEN F!Idle ELSE task[u]
  BY <1>1, <1>3
<1>9. LinesStand'
  <2>1. \A i \in 1 .. Len(lines') : i = Len(lines) + 1 \/ i \in 1 .. Len(lines)
    BY <1>6
  <2>2. last # F!Absent /\ task[t].at <= last
    BY <1>1, <1>2 DEF LinesStand
  <2>3. \A i \in 1 .. Len(lines') : last # F!Absent /\ lines'[i].at <= last
    BY <1>2, <1>5, <1>6, <2>1, <2>2 DEF LinesStand
  <2>4. \A u \in Tasks : task'[u].step = "exchanging" => u # t /\ task'[u] = task[u]
    BY <1>4, <1>8
  <2>5. \A u \in Tasks : task'[u].step = "writing" => u # t /\ task'[u] = task[u]
    BY <1>4, <1>8
  <2>6. \A x, y : Apart(x, y) <=> Apart(y, x)
    BY DEF Apart
  <2>7. ASSUME NEW u \in Tasks, task'[u].step = "writing", NEW i \in 1 .. Len(lines')
        PROVE  Apart(task'[u].at, lines'[i].at)
    <3>1. u # t /\ task'[u] = task[u] /\ task[u].step = "writing"
      BY <2>5, <2>7
    <3>2. CASE i = Len(lines) + 1
      BY <1>1, <1>2, <1>5, <1>6, <3>1, <3>2 DEF LinesStand
    <3>3. CASE i \in 1 .. Len(lines)
      BY <1>2, <1>6, <3>1, <3>3 DEF LinesStand
    <3> QED BY <2>1, <3>2, <3>3
  <2>8. ASSUME NEW i \in 1 .. Len(lines'), NEW j \in 1 .. Len(lines'), i # j
        PROVE  Apart(lines'[i].at, lines'[j].at)
    <3>1. CASE i \in 1 .. Len(lines) /\ j \in 1 .. Len(lines)
      BY <1>2, <1>6, <2>8, <3>1 DEF LinesStand
    <3>2. CASE i = Len(lines) + 1 /\ j \in 1 .. Len(lines)
      BY <1>1, <1>2, <1>5, <1>6, <3>2 DEF LinesStand
    <3>3. CASE i \in 1 .. Len(lines) /\ j = Len(lines) + 1
      <4>1. Apart(lines'[j].at, lines'[i].at)
        BY <1>1, <1>2, <1>5, <1>6, <3>3 DEF LinesStand
      <4> QED BY <2>6, <4>1
    <3> QED BY <2>1, <2>8, <3>1, <3>2, <3>3
  <2>9. \A u \in Tasks : task'[u].step = "writing" =>
          /\ last # F!Absent /\ task'[u].at <= last
          /\ \A w \in Tasks : w # u /\ task'[w].step = "writing" => Apart(task'[u].at, task'[w].at)
    BY <1>2, <2>5 DEF LinesStand
  <2>10. \A u \in Tasks : task'[u].step = "exchanging" =>
           task'[u].last = F!Absent \/ task'[u].at - task'[u].last >= Every
    BY <1>2, <2>4 DEF LinesStand
  <2> QED BY <1>1, <2>3, <2>7, <2>8, <2>9, <2>10 DEF LinesStand
<1>10. CountStands'
  <2>1. Counting' = Counting
    BY <1>1, <1>2, <1>4, CountingMoves
  <2>2. PICK total \in F!Totals : refusals = count + Cardinality(Counting) + total[Len(lines)]
    BY <1>2 DEF CountStands
  <2>3. PICK l \in Nat : l = Len(lines)
    BY <1>6
  <2>4. /\ total \in [0 .. l -> 0 .. refusals] /\ total[0] = 0
        /\ \A i \in 1 .. l : total[i] = total[i - 1] + lines[i].n
    BY <2>2, <2>3 DEF F!Totals
  <2>5. PICK c \in Nat : c = Cardinality(Counting)
    BY <1>2, CountingIs
  <2>6. PICK sum \in 0 .. refusals : sum = total[l]
    <3>1. l \in 0 .. l
      OBVIOUS
    <3> QED BY <2>4, <3>1
  <2>7. refusals = count + c + sum
    BY <2>2, <2>3, <2>5, <2>6
  <2>8. sum + count \in 0 .. refusals
    BY <1>3, <2>7
  <2> DEFINE further == [i \in 0 .. l + 1 |-> IF i = l + 1 THEN sum + count ELSE total[i]]
  <2>9. further \in [0 .. l + 1 -> 0 .. refusals]
    <3> SUFFICES ASSUME NEW i \in 0 .. l + 1 PROVE further[i] \in 0 .. refusals
      BY DEF further
    <3>1. CASE i = l + 1
      BY <2>8, <3>1
    <3>2. CASE i \in 0 .. l
      BY <2>4, <3>2
    <3> QED BY <3>1, <3>2
  <2>10. further[0] = 0 /\ further[l + 1] = sum + count /\ \A i \in 0 .. l : further[i] = total[i]
    BY <2>4
  <2> HIDE DEF further
  <2>11. \A i \in 1 .. l + 1 : further[i] = further[i - 1] + lines'[i].n
    <3> SUFFICES ASSUME NEW i \in 1 .. l + 1 PROVE further[i] = further[i - 1] + lines'[i].n
      OBVIOUS
    <3>1. CASE i = l + 1
      <4>1. further[i - 1] = sum /\ lines'[i].n = count
        BY <1>5, <1>6, <2>3, <2>6, <2>10, <3>1
      <4> QED BY <2>10, <3>1, <4>1
    <3>2. CASE i \in 1 .. l
      <4>1. i \in 0 .. l /\ i - 1 \in 0 .. l
        BY <3>2
      <4>2. further[i] = total[i] /\ further[i - 1] = total[i - 1] /\ lines'[i] = lines[i]
        BY <1>6, <2>3, <2>10, <3>2, <4>1
      <4> QED BY <2>4, <3>2, <4>2
    <3> QED BY <3>1, <3>2
  <2>12. Len(lines') = l + 1
    BY <1>6, <2>3
  <2>13. further \in F!Totals'
    BY <1>1, <2>9, <2>10, <2>11, <2>12 DEF F!Totals
  <2>14. refusals = 0 + c + (sum + count)
    BY <1>3, <2>7
  <2>15. refusals' = count' + Cardinality(Counting') + further[Len(lines')]
    BY <1>1, <2>1, <2>5, <2>10, <2>12, <2>14
  <2> QED BY <2>13, <2>15 DEF CountStands
<1> QED BY <1>7, <1>9, <1>10 DEF ThrottleInv

\* A step that leaves the throttle alone.
LEMMA ThrottleKept ==
  ASSUME ThrottleInv, UNCHANGED <<flood, last, count, task, lines, refusals>>, time' \in 0 .. FloodTime
  PROVE  ThrottleInv'
<1>1. FloodTypes'
  BY DEF ThrottleInv, FloodTypes
<1>2. LinesStand'
  BY DEF ThrottleInv, LinesStand
<1>3. Counting' = Counting
  BY DEF Counting
<1>4. CountStands'
  BY <1>3, CountUntouched
<1> QED BY <1>1, <1>2, <1>4 DEF ThrottleInv

LEMMA ThrottleStep ==
  ASSUME ThrottleInv, [F!Next]_(F!vars)
  PROVE  ThrottleInv'
<1>1. ASSUME NEW c \in Callers, NEW header \in Nets \cup {F!Absent}, F!Request(c, header)
      PROVE  ThrottleInv'
  BY <1>1, ThrottleKept DEF F!Request, F!throttle, ThrottleInv, FloodTypes
<1>2. CASE F!Tick
  <2>1. /\ time < FloodTime /\ time' = time + 1
        /\ UNCHANGED <<flood, last, count, task, lines, refusals>>
    BY <1>2 DEF F!Tick, F!throttle
  <2>2. time' \in 0 .. FloodTime
    BY <2>1, FloodConstants DEF ThrottleInv, FloodTypes
  <2> QED BY <2>1, <2>2, ThrottleKept
<1>3. CASE UNCHANGED F!vars
  BY <1>3, ThrottleKept DEF F!vars, ThrottleInv, FloodTypes
<1> QED BY <1>1, <1>2, <1>3, BeginsStand, CountsStand, LoadsStand, ExchangesStand, WritesALine DEF F!Next

LEMMA ThrottleInit ==
  ASSUME F!Init
  PROVE  ThrottleInv
<1>1. /\ time = 0 /\ flood \in {"throttle", "limit"} /\ last = F!Absent /\ count = 0 /\ refusals = 0
      /\ lines = << >> /\ task = [t \in Tasks |-> F!Idle]
  BY DEF F!Init
<1>2. 0 \in 0 .. FloodTime
  BY FloodConstants
<1>3. F!Idle \in TaskRecord /\ F!Idle.step = "idle"
  BY <1>2 DEF F!Idle, TaskRecord, FloodSteps
<1>4. FloodTypes
  BY <1>1, <1>2, <1>3 DEF FloodTypes
<1>5. \A t \in Tasks : task[t].step = "idle"
  BY <1>1, <1>3
<1>6. LinesStand
  BY <1>1, <1>5 DEF LinesStand
<1>7. Counting = {}
  BY <1>5 DEF Counting
<1> DEFINE none == [i \in 0 .. 0 |-> 0]
<1>8. none \in F!Totals /\ none[0] = 0
  BY <1>1 DEF F!Totals
<1>9. CountStands
  BY <1>1, <1>7, <1>8, FS_EmptySet DEF CountStands
<1> QED BY <1>4, <1>6, <1>9 DEF ThrottleInv

\* What net n was let through since, or between.
LEMMA GrantsAre ==
  ASSUME LimitTypes, NEW n, NEW a \in Int, NEW b \in Int
  PROVE  /\ IsFiniteSet(Since(n, a)) /\ Cardinality(Since(n, a)) \in Nat
         /\ IsFiniteSet(Between(n, a, b)) /\ Cardinality(Between(n, a, b)) \in Nat
<1>1. Since(n, a) \subseteq granted /\ Between(n, a, b) \subseteq granted /\ IsFiniteSet(granted)
  BY DEF Since, Between, LimitTypes
<1> QED BY <1>1, FS_Subset, FS_CardinalityType

\* A clock that moves on takes nothing from a budget.
LEMMA LimitTicks ==
  ASSUME LimitInv, UNCHANGED F!limit, time' \in {time, time + 1}
  PROVE  LimitInv'
<1>1. LimitTypes /\ UNCHANGED <<seen, requests, granted, forgot>>
  BY DEF LimitInv, F!limit
<1>2. time \in Nat /\ time' \in Nat /\ time <= time'
  BY <1>1 DEF LimitTypes
<1>3. LimitTypes'
  <2>1. \A n \in DOMAIN seen : seen[n] \in [start : 0 .. time', count : Nat \ {0}]
    BY <1>1, <1>2 DEF LimitTypes
  <2>2. \A g \in granted : g.at \in 0 .. time'
    BY <1>1, <1>2 DEF LimitTypes
  <2> QED BY <1>1, <1>2, <2>1, <2>2 DEF LimitTypes
<1>4. ASSUME NEW n \in Nets, ~TrustProxy, n \notin forgot PROVE BudgetStands(n)'
  <2>1. BudgetStands(n)
    BY <1>4 DEF LimitInv
  <2>2. CASE time' = time
    BY <1>1, <2>1, <2>2 DEF BudgetStands, Since, Between
  <2>3. CASE time' = time + 1
    <3> USE FloodConstants
    <3>1. ASSUME n \notin DOMAIN seen
          PROVE  Cardinality(Since(n, time' - Window + 1)) <= PerMinute /\ Since(n, time') = {}
      <4>1. Since(n, time' - Window + 1) \subseteq Since(n, time - Window + 1)
        BY <1>1, <1>2, <2>3 DEF Since, LimitTypes
      <4>2. Since(n, time') = {}
        BY <1>1, <1>2, <2>3 DEF Since, LimitTypes
      <4>3. time - Window + 1 \in Int /\ time' - Window + 1 \in Int
        BY <1>2
      <4>4. Cardinality(Since(n, time' - Window + 1)) <= Cardinality(Since(n, time - Window + 1))
        BY <1>1, <4>1, <4>3, GrantsAre, FS_Subset
      <4>5. /\ Cardinality(Since(n, time' - Window + 1)) \in Nat
            /\ Cardinality(Since(n, time - Window + 1)) \in Nat
        BY <1>1, <4>3, GrantsAre
      <4>6. Cardinality(Since(n, time - Window + 1)) <= PerMinute
        BY <2>1, <3>1 DEF BudgetStands
      <4> QED BY <4>2, <4>4, <4>5, <4>6
    <3>2. ASSUME NEW from \in 0 .. time'
          PROVE  Cardinality(Between(n, from, from + Window - 1)) <= 2 * PerMinute
      <4>1. CASE from \in 0 .. time
        BY <2>1, <4>1 DEF BudgetStands
      <4>2. CASE from = time'
        <5>1. Between(n, from, from + Window - 1) = {}
          BY <1>1, <1>2, <2>3, <4>2 DEF Between, LimitTypes
        <5> QED BY <5>1, FS_EmptySet
      <4> QED BY <1>2, <2>3, <4>1, <4>2
    <3> QED BY <1>1, <2>1, <3>1, <3>2 DEF BudgetStands, Since, Between
  <2> QED BY <2>2, <2>3
<1> QED BY <1>1, <1>3, <1>4 DEF LimitInv

\* Who stays in the table when n is counted.
LEMMA KeptAre ==
  ASSUME LimitTypes, NEW n \in Nets, NEW kept \in F!Kept(n)
  PROVE  /\ kept \subseteq DOMAIN seen /\ (n \in DOMAIN seen => kept = DOMAIN seen)
         /\ IsFiniteSet(kept \cup {n}) /\ Cardinality(kept \cup {n}) <= MaxTracked
<1> DEFINE D == DOMAIN seen
           current == {m \in D : F!Current(m)}
<1>1. /\ IsFiniteSet(D) /\ Cardinality(D) \in Nat /\ Cardinality(D) <= MaxTracked
      /\ MaxTracked \in Nat /\ MaxTracked > 0
  BY FloodConstants, FS_CardinalityType DEF LimitTypes
<1>2. IsFiniteSet(current) /\ Cardinality(current) \in Nat /\ Cardinality(current) <= Cardinality(D)
  BY <1>1, FS_Subset, FS_CardinalityType
<1>3. CASE n \in D
  <2>1. kept = D
    BY <1>3 DEF F!Kept
  <2>2. kept \cup {n} = D
    BY <1>3, <2>1
  <2> QED BY <1>1, <2>1, <2>2
<1>4. CASE n \notin D
  <2>1. kept \subseteq D /\ IsFiniteSet(kept) /\ Cardinality(kept) \in Nat /\ Cardinality(kept) < MaxTracked
    <3>1. CASE Cardinality(D) < MaxTracked
      <4>1. kept = D
        BY <3>1, Cards DEF F!Kept
      <4> QED BY <1>1, <3>1, <4>1
    <3>2. CASE ~(Cardinality(D) < MaxTracked) /\ Cardinality(current) < MaxTracked
      <4>1. kept = current
        BY <1>4, <3>2, Cards DEF F!Kept
      <4> QED BY <1>2, <3>2, <4>1
    <3>3. CASE ~(Cardinality(D) < MaxTracked) /\ ~(Cardinality(current) < MaxTracked)
      <4>1. \E m \in current : kept = current \ {m}
        BY <1>4, <3>3, Cards DEF F!Kept
      <4>2. PICK m \in current : kept = current \ {m}
        BY <4>1
      <4>3. IsFiniteSet(kept) /\ Cardinality(kept) = Cardinality(current) - 1
        BY <1>2, <4>2, FS_RemoveElement
      <4>4. PICK a \in Nat : a = Cardinality(current)
        BY <1>2
      <4>5. PICK b \in Nat : b = Cardinality(kept)
        BY <4>3, FS_CardinalityType
      <4>6. b = a - 1 /\ a <= MaxTracked
        <5>1. PICK d \in Nat : d = Cardinality(D)
          BY <1>1
        <5> QED BY <1>1, <1>2, <4>3, <4>4, <4>5, <5>1
      <4>7. b < MaxTracked
        BY <1>1, <4>6
      <4>8. kept \subseteq D
        BY <4>2
      <4> QED BY <4>3, <4>5, <4>7, <4>8
    <3> QED BY <3>1, <3>2, <3>3
  <2>2. n \notin kept
    BY <1>4, <2>1
  <2>3. IsFiniteSet(kept \cup {n}) /\ Cardinality(kept \cup {n}) = Cardinality(kept) + 1
    BY <2>1, <2>2, FS_AddElement
  <2> QED BY <1>1, <1>4, <2>1, <2>3
<1> QED BY <1>3, <1>4

\* Some grants and those of a part of them.
LEMMA FewerGrants ==
  ASSUME NEW S, NEW T, IsFiniteSet(S), T \subseteq S, NEW k \in Nat, Cardinality(S) <= k
  PROVE  Cardinality(T) <= k /\ Cardinality(T) \in Nat /\ IsFiniteSet(T)
<1>1. /\ IsFiniteSet(T) /\ Cardinality(T) <= Cardinality(S)
      /\ Cardinality(T) \in Nat /\ Cardinality(S) \in Nat
  BY FS_Subset, FS_CardinalityType
<1> QED BY <1>1

\* A net that leaves the table after its window, or was not in it.
LEMMA AbsentBudget ==
  ASSUME LimitTypes, NEW n \in Nets, BudgetStands(n),
         n \in DOMAIN seen => time - seen[n].start >= Window
  PROVE  Cardinality(Since(n, time - Window + 1)) <= PerMinute /\ Since(n, time) = {}
<1> USE FloodConstants
<1>1. CASE n \notin DOMAIN seen
  BY <1>1 DEF BudgetStands
<1>2. CASE n \in DOMAIN seen
  <2>1. PICK s \in Nat : s = seen[n].start
    BY <1>2 DEF LimitTypes
  <2>2. time \in Nat /\ time - s >= Window
    BY <1>2, <2>1 DEF LimitTypes
  <2>3. /\ Cardinality(Since(n, s)) <= PerMinute /\ \A g \in Since(n, s) : g.at < s + Window
        /\ \A g \in granted : g.at \in 0 .. time
    BY <1>2, <2>1 DEF BudgetStands, LimitTypes
  <2>4. Since(n, time - Window + 1) \subseteq Since(n, s)
    BY <2>2, <2>3 DEF Since
  <2>5. Since(n, time) = {}
    BY <2>2, <2>3 DEF Since
  <2> QED BY <2>3, <2>4, <2>5, GrantsAre, FewerGrants
<1> QED BY <1>1, <1>2

\* One more grant.
LEMMA OneMoreGrant ==
  ASSUME NEW S, NEW T, NEW g, IsFiniteSet(S), T \subseteq S \cup {g}, NEW k \in Nat, Cardinality(S) <= k
  PROVE  IsFiniteSet(T) /\ Cardinality(T) \in Nat /\ Cardinality(T) <= k + 1
<1>1. /\ IsFiniteSet(S \cup {g}) /\ Cardinality(S \cup {g}) \in {Cardinality(S), Cardinality(S) + 1}
      /\ Cardinality(S) \in Nat
  <2>1. CASE g \in S
    <3>1. S \cup {g} = S
      BY <2>1
    <3> QED BY <3>1, FS_CardinalityType
  <2>2. CASE g \notin S
    BY <2>2, FS_AddElement, FS_CardinalityType
  <2> QED BY <2>1, <2>2
<1>2. Cardinality(S \cup {g}) <= k + 1
  BY <1>1
<1> QED BY <1>1, <1>2, FewerGrants

LEMMA TwoBudgets ==
  ASSUME NEW S, NEW T, NEW U, IsFiniteSet(S), IsFiniteSet(T), U \subseteq S \cup T, NEW k \in Nat,
         Cardinality(S) <= k, Cardinality(T) <= k
  PROVE  Cardinality(U) <= 2 * k
<1>1. /\ IsFiniteSet(S \cup T)
      /\ Cardinality(S \cup T) = Cardinality(S) + Cardinality(T) - Cardinality(S \cap T)
  BY FS_Union
<1>2. Cardinality(S) \in Nat /\ Cardinality(T) \in Nat /\ Cardinality(S \cap T) \in Nat
  BY FS_CardinalityType, FS_Intersection
<1>3. Cardinality(S \cup T) <= 2 * k /\ 2 * k \in Nat
  BY <1>1, <1>2
<1> QED BY <1>1, <1>3, FewerGrants

\* The budget of the net that a request counts against: s is when its window began, n
\* the requests in it.
LEMMA CountedBudget ==
  ASSUME LimitTypes, NEW n \in Nets, BudgetStands(n),
         NEW g, g.at = time, Home[g.by] = n,
         NEW s \in Nat, NEW k \in Nat, F!Counted(n) = [start |-> s, count |-> k],
         n \in DOMAIN seen', seen'[n] = F!Counted(n), time' = time,
         granted' = IF k <= PerMinute THEN granted \cup {g} ELSE granted
  PROVE  BudgetStands(n)'
<1> USE FloodConstants
<1>1. time \in Nat /\ \A h \in granted : h.at \in 0 .. time
  BY DEF LimitTypes
<1>2. s <= time /\ time - s < Window /\ k > 0
      /\ Cardinality(Since(n, s)) <= k - 1 /\ Cardinality(Since(n, s)) <= PerMinute
      /\ (\A h \in Since(n, s) : h.at < s + Window)
      /\ Cardinality(Between(n, s - Window + 1, s - 1)) <= PerMinute
  <2>1. CASE n \in DOMAIN seen /\ F!Current(n)
    <3>1. seen[n] \in [start : 0 .. time, count : Nat \ {0}]
      BY <2>1 DEF LimitTypes
    <3>2. F!Counted(n) = [seen[n] EXCEPT !.count = @ + 1]
      BY <2>1 DEF F!Counted
    <3>3. s = seen[n].start /\ k = seen[n].count + 1
      BY <3>1, <3>2
    <3>4. s \in 0 .. time /\ time - s < Window /\ seen[n].count \in Nat
      BY <2>1, <3>1, <3>3 DEF F!Current
    <3>5. /\ Cardinality(Since(n, s)) <= seen[n].count /\ Cardinality(Since(n, s)) <= PerMinute
          /\ \A h \in Since(n, s) : h.at < s + Window
          /\ Cardinality(Between(n, s - Window + 1, s - 1)) <= PerMinute
      BY <2>1, <3>3 DEF BudgetStands
    <3>6. seen[n].count = k - 1 /\ k > 0
      BY <3>3, <3>4
    <3> QED BY <1>1, <3>4, <3>5, <3>6
  <2>2. CASE ~(n \in DOMAIN seen /\ F!Current(n))
    <3>1. F!Counted(n) = [start |-> time, count |-> 1]
      BY <2>2 DEF F!Counted
    <3>2. s = time /\ k = 1
      BY <3>1
    <3>3. n \in DOMAIN seen => time - seen[n].start >= Window
      <4> SUFFICES ASSUME n \in DOMAIN seen PROVE time - seen[n].start >= Window
        OBVIOUS
      <4>1. seen[n].start \in Nat
        BY DEF LimitTypes
      <4> QED BY <1>1, <2>2, <4>1 DEF F!Current
    <3>4. Cardinality(Since(n, time - Window + 1)) <= PerMinute /\ Since(n, time) = {}
      BY <3>3, AbsentBudget
    <3>5. Between(n, s - Window + 1, s - 1) \subseteq Since(n, time - Window + 1)
      BY <1>1, <3>2 DEF Since, Between
    <3>6. Cardinality(Between(n, s - Window + 1, s - 1)) <= PerMinute
      <4>1. time - Window + 1 \in Int
        BY <1>1
      <4>2. IsFiniteSet(Since(n, time - Window + 1))
        BY <4>1, GrantsAre
      <4> DEFINE S == Since(n, time - Window + 1)
                 T == Between(n, s - Window + 1, s - 1)
      <4>3. IsFiniteSet(S) /\ T \subseteq S /\ Cardinality(S) <= PerMinute
        BY <3>4, <3>5, <4>2
      <4> HIDE DEF S, T
      <4>4. Cardinality(T) <= PerMinute
        BY <4>3, FewerGrants
      <4> QED BY <4>4 DEF T
    <3>7. Since(n, s) = {} /\ Cardinality({}) = 0
      BY <3>2, <3>4, FS_EmptySet
    <3> QED BY <1>1, <3>2, <3>6, <3>7
  <2> QED BY <2>1, <2>2
<1>3. IsFiniteSet(Since(n, s)) /\ IsFiniteSet(Between(n, s - Window + 1, s - 1))
  <2>1. s \in Int /\ s - Window + 1 \in Int /\ s - 1 \in Int
    OBVIOUS
  <2> QED BY <2>1, GrantsAre
<1>4. /\ Since(n, s)' \subseteq Since(n, s) \cup {g}
      /\ k > PerMinute => Since(n, s)' = Since(n, s)
  BY DEF Since
<1>5. /\ IsFiniteSet(Since(n, s)') /\ Cardinality(Since(n, s)') <= k
      /\ Cardinality(Since(n, s)') <= PerMinute
  <2>1. k - 1 \in Nat /\ (k - 1) + 1 = k
    BY <1>2
  <2>2. IsFiniteSet(Since(n, s)') /\ Cardinality(Since(n, s)') \in Nat /\ Cardinality(Since(n, s)') <= k
    <3> DEFINE S == Since(n, s)
               T == Since(n, s)'
               m == k - 1
    <3>1. IsFiniteSet(S) /\ T \subseteq S \cup {g} /\ m \in Nat /\ Cardinality(S) <= m /\ m + 1 = k
      BY <1>2, <1>3, <1>4, <2>1
    <3> HIDE DEF S, T, m
    <3>2. IsFiniteSet(T) /\ Cardinality(T) \in Nat /\ Cardinality(T) <= m + 1
      BY <3>1, OneMoreGrant
    <3> QED BY <3>1, <3>2 DEF T
  <2>3. CASE k <= PerMinute
    BY <2>2, <2>3
  <2>4. CASE k > PerMinute
    BY <1>2, <1>4, <2>2, <2>4
  <2> QED BY <2>2, <2>3, <2>4
<1>6. \A h \in Since(n, s)' : h.at < s + Window
  BY <1>1, <1>2, <1>4
<1>7. Between(n, s - Window + 1, s - 1)' = Between(n, s - Window + 1, s - 1)
  BY <1>1, <1>2 DEF Between
<1>8. ASSUME NEW from \in 0 .. time
      PROVE  Cardinality(Between(n, from, from + Window - 1)') <= 2 * PerMinute
  <2>1. CASE from + Window - 1 < time
    <3>1. Between(n, from, from + Window - 1)' = Between(n, from, from + Window - 1)
      BY <1>1, <2>1 DEF Between
    <3> QED BY <3>1 DEF BudgetStands
  <2>2. CASE from + Window - 1 >= time
    <3>1. from >= s - Window + 1
      BY <1>1, <1>2, <2>2
    <3>2. \A h \in granted' : h.at \in 0 .. time
      BY <1>1
    <3>3. Between(n, from, from + Window - 1)' \subseteq
            Between(n, s - Window + 1, s - 1)' \cup Since(n, s)'
      BY <1>1, <3>1, <3>2 DEF Between, Since
    <3> DEFINE S == Between(n, s - Window + 1, s - 1)'
               T == Since(n, s)'
               U == Between(n, from, from + Window - 1)'
    <3>4. IsFiniteSet(S) /\ IsFiniteSet(T) /\ U \subseteq S \cup T
          /\ Cardinality(S) <= PerMinute /\ Cardinality(T) <= PerMinute
      BY <1>2, <1>3, <1>5, <1>7, <3>3
    <3> HIDE DEF S, T, U
    <3>5. Cardinality(U) <= 2 * PerMinute
      BY <3>4, TwoBudgets
    <3> QED BY <3>5 DEF U
  <2> QED BY <1>1, <2>1, <2>2
<1>9. seen'[n].start = s /\ seen'[n].count = k
  OBVIOUS
<1> QED BY <1>2, <1>5, <1>6, <1>7, <1>8, <1>9 DEF BudgetStands, Since, Between

\* The budget of a net that a request does not count against: it stays in the table, or
\* leaves it once its window is over.
LEMMA OtherBudget ==
  ASSUME LimitTypes, NEW n \in Nets, BudgetStands(n), time' = time,
         n \in DOMAIN seen' <=> n \in DOMAIN seen /\ n \in DOMAIN seen',
         n \in DOMAIN seen' => seen'[n] = seen[n],
         n \in DOMAIN seen \ DOMAIN seen' => ~F!Current(n),
         \A a, b \in Int : Since(n, a)' = Since(n, a) /\ Between(n, a, b)' = Between(n, a, b)
  PROVE  BudgetStands(n)'
<1> USE FloodConstants
<1>1. time \in Nat
  BY DEF LimitTypes
<1>2. CASE n \in DOMAIN seen'
  <2>1. PICK s \in Nat : s = seen[n].start
    BY <1>2 DEF LimitTypes
  <2>2. s \in Int /\ s - Window + 1 \in Int /\ s - 1 \in Int /\ seen'[n] = seen[n] /\ seen'[n].start = s
    BY <1>2, <2>1
  <2>3. /\ Cardinality(Since(n, s)) <= seen[n].count /\ Cardinality(Since(n, s)) <= PerMinute
        /\ \A g \in Since(n, s) : g.at < s + Window
        /\ Cardinality(Between(n, s - Window + 1, s - 1)) <= PerMinute
    BY <1>2, <2>1 DEF BudgetStands
  <2>4. /\ Cardinality(Since(n, s)') <= seen'[n].count /\ Cardinality(Since(n, s)') <= PerMinute
        /\ \A g \in Since(n, s)' : g.at < s + Window
        /\ Cardinality(Between(n, s - Window + 1, s - 1)') <= PerMinute
    BY <2>2, <2>3
  <2>5. \A from \in 0 .. time : Cardinality(Between(n, from, from + Window - 1)') <= 2 * PerMinute
    BY <1>1 DEF BudgetStands
  <2> QED BY <1>2, <2>2, <2>4, <2>5 DEF BudgetStands, Since, Between
<1>3. CASE n \notin DOMAIN seen'
  <2>1. n \in DOMAIN seen => time - seen[n].start >= Window
    <3> SUFFICES ASSUME n \in DOMAIN seen PROVE time - seen[n].start >= Window
      OBVIOUS
    <3>1. seen[n].start \in Nat
      BY DEF LimitTypes
    <3> QED BY <1>1, <1>3, <3>1 DEF F!Current
  <2>2. Cardinality(Since(n, time - Window + 1)) <= PerMinute /\ Since(n, time) = {}
    BY <2>1, AbsentBudget
  <2>3. PICK a \in Int : a = time - Window + 1
    BY <1>1
  <2>4. PICK b \in Int : b = time
    BY <1>1
  <2>5. Cardinality(Since(n, a)') <= PerMinute /\ Since(n, b)' = {}
    BY <2>2, <2>3, <2>4
  <2>6. \A from \in 0 .. time : Cardinality(Between(n, from, from + Window - 1)') <= 2 * PerMinute
    BY <1>1 DEF BudgetStands
  <2> QED BY <1>3, <2>3, <2>4, <2>5, <2>6 DEF BudgetStands, Since, Between
<1> QED BY <1>2, <1>3

LEMMA RequestStands ==
  ASSUME LimitInv, NEW c \in Callers, NEW header \in Nets \cup {F!Absent}, F!Request(c, header)
  PROVE  LimitInv'
<1>1. LimitTypes /\ time \in Nat
  BY DEF LimitInv, LimitTypes
<1>2. PICK n \in Nets : n = F!ClientAddr(c, header) /\ (~TrustProxy => n = Home[c])
  BY FloodConstants DEF F!ClientAddr
<1>3. PICK kept \in F!Kept(n) :
        /\ seen' = [m \in kept \cup {n} |-> IF m = n THEN F!Counted(n) ELSE seen[m]]
        /\ forgot' = forgot \cup {m \in DOMAIN seen \ kept : F!Current(m)}
  BY <1>2 DEF F!Request
<1> DEFINE g == [by |-> c, at |-> time, no |-> requests]
<1>4. /\ requests < MaxRequests /\ requests' = requests + 1 /\ time' = time
      /\ granted' = IF F!Counted(n).count <= PerMinute THEN granted \cup {g} ELSE granted
  BY <1>2 DEF F!Request
<1>5. g.at = time /\ g.by = c
  OBVIOUS
<1> HIDE DEF g
<1>6. /\ kept \subseteq DOMAIN seen /\ (n \in DOMAIN seen => kept = DOMAIN seen)
      /\ IsFiniteSet(kept \cup {n}) /\ Cardinality(kept \cup {n}) <= MaxTracked
  BY <1>1, KeptAre
<1>7. PICK s \in Nat, k \in Nat \ {0} : F!Counted(n) = [start |-> s, count |-> k] /\ s <= time
  <2>1. CASE n \in DOMAIN seen /\ F!Current(n)
    <3>1. seen[n] \in [start : 0 .. time, count : Nat \ {0}]
      BY <1>1, <2>1 DEF LimitTypes
    <3>2. F!Counted(n) = [seen[n] EXCEPT !.count = @ + 1]
      BY <2>1 DEF F!Counted
    <3>3. F!Counted(n) = [start |-> seen[n].start, count |-> seen[n].count + 1]
      BY <3>1, <3>2
    <3>4. seen[n].start \in Nat /\ seen[n].count + 1 \in Nat \ {0} /\ seen[n].start <= time
      BY <1>1, <3>1
    <3> QED BY <3>3, <3>4
  <2>2. CASE ~(n \in DOMAIN seen /\ F!Current(n))
    BY <1>1, <2>2 DEF F!Counted
  <2> QED BY <2>1, <2>2
<1>8. F!Counted(n) \in [start : 0 .. time, count : Nat \ {0}] /\ F!Counted(n).count = k
  BY <1>1, <1>7
<1>9. /\ DOMAIN seen' = kept \cup {n} /\ seen'[n] = F!Counted(n)
      /\ \A m \in kept : m # n => seen'[m] = seen[m]
      /\ seen' = [m \in DOMAIN seen' |-> seen'[m]]
  BY <1>3
<1>10. LimitTypes'
  <2>1. DOMAIN seen' \subseteq Nets
    BY <1>1, <1>6, <1>9 DEF LimitTypes
  <2>2. \A m \in DOMAIN seen' : seen'[m] \in [start : 0 .. time, count : Nat \ {0}]
    BY <1>1, <1>6, <1>8, <1>9 DEF LimitTypes
  <2>3. requests' \in 0 .. MaxRequests
    BY <1>1, <1>4, FloodConstants DEF LimitTypes
  <2>4. IsFiniteSet(granted')
    BY <1>1, <1>4, FS_AddElement DEF LimitTypes
  <2>5. \A h \in granted' : h.at \in 0 .. time
    BY <1>1, <1>4, <1>5 DEF LimitTypes
  <2> QED BY <1>1, <1>4, <1>6, <1>9, <2>1, <2>2, <2>3, <2>4, <2>5 DEF LimitTypes
<1>11. ASSUME NEW m \in Nets, ~TrustProxy, m \notin forgot' PROVE BudgetStands(m)'
  <2>1. BudgetStands(m) /\ Home[c] = n
    BY <1>2, <1>3, <1>11 DEF LimitInv
  <2>2. CASE m = n
    <3>1. granted' = IF k <= PerMinute THEN granted \cup {g} ELSE granted
      BY <1>4, <1>8
    <3>2. BudgetStands(n) /\ n \in DOMAIN seen' /\ Home[g.by] = n
      BY <1>5, <1>9, <2>1, <2>2
    <3>3. k \in Nat
      OBVIOUS
    <3>4. BudgetStands(n)'
      BY <1>1, <1>4, <1>5, <1>7, <1>9, <3>1, <3>2, <3>3, CountedBudget
    <3> QED BY <2>2, <3>4
  <2>3. CASE m # n
    <3>1. \A a, b \in Int : Since(m, a)' = Since(m, a) /\ Between(m, a, b)' = Between(m, a, b)
      BY <1>4, <1>5, <2>1, <2>3 DEF Since, Between
    <3>2. /\ m \in DOMAIN seen' <=> m \in DOMAIN seen /\ m \in DOMAIN seen'
          /\ m \in DOMAIN seen' => seen'[m] = seen[m]
      BY <1>6, <1>9, <2>3
    <3>3. m \in DOMAIN seen \ DOMAIN seen' => ~F!Current(m)
      BY <1>3, <1>9, <1>11
    <3> QED BY <1>1, <1>4, <2>1, <3>1, <3>2, <3>3, OtherBudget
  <2> QED BY <2>2, <2>3
<1> QED BY <1>10, <1>11 DEF LimitInv

LEMMA LimitStep ==
  ASSUME LimitInv, [F!Next]_(F!vars)
  PROVE  LimitInv'
<1>1. ASSUME NEW t \in Tasks, F!Begin(t) \/ F!Count(t) \/ F!Load(t) \/ F!Exchange(t) \/ F!Write(t)
      PROVE  LimitInv'
  <2>1. UNCHANGED F!limit /\ time' = time
    BY <1>1 DEF F!Begin, F!Count, F!Load, F!Exchange, F!Write
  <2> QED BY <2>1, LimitTicks
<1>2. CASE F!Tick
  <2>1. UNCHANGED F!limit /\ time' = time + 1
    BY <1>2 DEF F!Tick
  <2> QED BY <2>1, LimitTicks
<1>3. CASE UNCHANGED F!vars
  <2>1. UNCHANGED F!limit /\ time' = time
    BY <1>3 DEF F!vars, F!limit
  <2> QED BY <2>1, LimitTicks
<1> QED BY <1>1, <1>2, <1>3, RequestStands DEF F!Next

LEMMA LimitInit ==
  ASSUME F!Init
  PROVE  LimitInv
<1>1. /\ time = 0 /\ seen = [n \in {} |-> 0] /\ requests = 0 /\ granted = {} /\ forgot = {}
  BY DEF F!Init
<1>2. DOMAIN seen = {} /\ IsFiniteSet({}) /\ Cardinality({}) = 0
  BY <1>1, FS_EmptySet
<1>3. LimitTypes
  BY <1>1, <1>2, FloodConstants DEF LimitTypes
<1>4. \A n, a, b : Since(n, a) = {} /\ Between(n, a, b) = {}
  BY <1>1 DEF Since, Between
<1>5. ASSUME NEW n PROVE BudgetStands(n)
  <2>1. n \notin DOMAIN seen /\ Since(n, time) = {}
    BY <1>2, <1>4
  <2>2. Cardinality(Since(n, time - Window + 1)) <= PerMinute
    <3>1. Since(n, time - Window + 1) = {}
      BY <1>4
    <3>2. 0 <= PerMinute
      BY FloodConstants
    <3> QED BY <1>2, <3>1, <3>2
  <2>3. 0 <= 2 * PerMinute
    BY FloodConstants
  <2>4. \A from \in 0 .. time : Cardinality(Between(n, from, from + Window - 1)) <= 2 * PerMinute
    BY <1>2, <1>4, <2>3
  <2> QED BY <2>1, <2>2, <2>4 DEF BudgetStands
<1> QED BY <1>3, <1>5 DEF LimitInv

LEMMA FloodsArePart ==
  /\ MCInit => F!Init
  /\ [MCNext]_<<vars, verified, framed, flooded, part>> => [F!Next]_(F!vars)
<1>1. MCInit => F!Init
  BY DEF MCInit
<1>2. ASSUME MCNext PROVE [F!Next]_(F!vars)
  BY <1>2 DEF MCNext, F!vars, flooded
<1>3. UNCHANGED <<vars, verified, framed, flooded, part>> => UNCHANGED F!vars
  BY DEF F!vars, flooded
<1> QED BY <1>1, <1>2, <1>3

\* For any refusals at once, clients, nets and limits: the lines of the throttled log are
\* EVERY_MS apart whatever the interleaving, and every refusal is in one, in the next or
\* about to be counted (transport.rs, Throttle); and the clients behind one address get no
\* more through than two windows' worth in the time of one, unless a full table put the
\* address out (mod.rs, RateLimit).
THEOREM FloodsStayBounded == MCSpec => []FloodsAreBounded
<1>1. ThrottleInv /\ LimitInv => FloodsAreBounded
  <2> SUFFICES ASSUME ThrottleInv, LimitInv PROVE F!FloodsAreBounded
    BY DEF FloodsAreBounded
  <2>1. FloodTypes /\ LinesStand /\ CountStands /\ LimitTypes
    BY DEF ThrottleInv, LimitInv
  <2>2. F!TypeOK
    BY <2>1 DEF FloodTypes, LimitTypes, TaskRecord, FloodSteps, F!TypeOK
  <2>3. F!EveryRefusalCounted
    <3>1. DOMAIN lines = 1 .. Len(lines)
      BY <2>1 DEF FloodTypes
    <3>2. \A i, j \in DOMAIN lines : i # j => \/ lines[i].at - lines[j].at >= Every
                                              \/ lines[j].at - lines[i].at >= Every
      BY <2>1, <3>1 DEF LinesStand, Apart
    <3> QED BY <2>1, <3>2, Cards DEF CountStands, Counting, F!EveryRefusalCounted
  <2>4. F!OneBudgetAnAddress
    <3>1. F!Cardinality(DOMAIN seen) <= MaxTracked
      BY <2>1, Cards DEF LimitTypes
    <3>2. ASSUME NEW n \in Nets, ~TrustProxy, n \notin forgot, NEW from \in 0 .. time
          PROVE  F!Cardinality({g \in granted : Home[g.by] = n /\ g.at \in from .. from + Window - 1})
                   <= 2 * PerMinute
      BY <3>2, Cards DEF LimitInv, BudgetStands, Between
    <3> QED BY <3>1, <3>2 DEF F!OneBudgetAnAddress
  <2> QED BY <2>2, <2>3, <2>4 DEF F!FloodsAreBounded
<1> QED BY <1>1, ThrottleInit, LimitInit, ThrottleStep, LimitStep, FloodsArePart, PTL DEF MCSpec

-----------------------------------------------------------------------------
(* Messages on a stream. *)


Digit == {0, 1}
Byte == {0, 1, M!NewLine}

\* How many bytes a protocol adds to a body.
Extra(p) == IF p = "lines" THEN 1 ELSE M!Prefix

\* What a writer wrote, or was writing.
Writings == {b \in Seq(Digit) : M!Encodes(proto, b)}

Code(i) == M!Encode(proto, sent[i])
-----------------------------------------------------------------------------
(* Sequences joined and cut. *)

LEMMA Joined ==
  ASSUME NEW S, NEW a \in Seq(S), NEW b \in Seq(S)
  PROVE  /\ a \o b \in Seq(S) /\ Len(a \o b) = Len(a) + Len(b)
         /\ \A k \in 1 .. Len(a) : (a \o b)[k] = a[k]
         /\ \A k \in 1 .. Len(b) : (a \o b)[Len(a) + k] = b[k]
<1>1. Len(a) \in Nat /\ Len(b) \in Nat
  BY LenProperties
<1>2. /\ a \o b \in Seq(S) /\ Len(a \o b) = Len(a) + Len(b)
      /\ \A k \in 1 .. Len(a) + Len(b) :
           (a \o b)[k] = IF k <= Len(a) THEN a[k] ELSE b[k - Len(a)]
  BY ConcatProperties
<1>3. ASSUME NEW k \in 1 .. Len(a) PROVE (a \o b)[k] = a[k]
  <2>1. k \in 1 .. Len(a) + Len(b) /\ k <= Len(a)
    BY <1>1
  <2> QED
    BY <1>2, <2>1
<1>4. ASSUME NEW k \in 1 .. Len(b) PROVE (a \o b)[Len(a) + k] = b[k]
  <2>1. Len(a) + k \in 1 .. Len(a) + Len(b) /\ ~(Len(a) + k <= Len(a)) /\ (Len(a) + k) - Len(a) = k
    BY <1>1
  <2> QED
    BY <1>2, <2>1
<1> QED
  BY <1>2, <1>3, <1>4

LEMMA Part ==
  ASSUME NEW S, NEW s \in Seq(S), NEW m \in Nat, NEW n \in Nat, m <= n, n <= Len(s)
  PROVE  /\ SubSeq(s, m + 1, n) \in Seq(S) /\ Len(SubSeq(s, m + 1, n)) = n - m
         /\ \A k \in 1 .. n - m : SubSeq(s, m + 1, n)[k] = s[m + k]
<1>1. Len(s) \in Nat /\ m + 1 \in Int /\ n \in Int
  BY LenProperties
<1>2. \A k \in m + 1 .. n : s[k] \in S
  <2> TAKE k \in m + 1 .. n
  <2>1. k \in 1 .. Len(s)
    BY <1>1
  <2> QED
    BY <2>1, ElementOfSeq
<1>3. /\ SubSeq(s, m + 1, n) \in Seq(S)
      /\ Len(SubSeq(s, m + 1, n)) = (IF m + 1 <= n THEN n - (m + 1) + 1 ELSE 0)
      /\ \A k \in 1 .. n - (m + 1) + 1 : SubSeq(s, m + 1, n)[k] = s[(m + 1) + k - 1]
  BY <1>1, <1>2, SubSeqProperties
<1>4. Len(SubSeq(s, m + 1, n)) = n - m
  BY <1>1, <1>3
<1>5. ASSUME NEW k \in 1 .. n - m PROVE SubSeq(s, m + 1, n)[k] = s[m + k]
  <2>1. k \in 1 .. n - (m + 1) + 1 /\ (m + 1) + k - 1 = m + k
    BY <1>1
  <2> QED
    BY <1>3, <2>1
<1> QED
  BY <1>3, <1>4, <1>5

-----------------------------------------------------------------------------
(* What is written for a body. *)

LEMMA LimitsAre ==
  ASSUME M!LimitAssumption, NEW p \in M!Protocols, NEW n \in Nat \ {0}
  PROVE  M!Limit(p, n) \in Nat /\ M!Limit(p, n) <= M!Largest
<1>1. p \in {"session", "inbox", "requests", "subscribe", "answers", "lines"}
  BY DEF M!Protocols, M!Limits
<1>2. M!Limits[p] \in Seq({Small, Large}) /\ Len(M!Limits[p]) \in Nat \ {0}
  <2>1. CASE p \in {"session", "requests"}
    <3>1. M!Limits[p] = <<Small, Small, Large>>
      BY <2>1 DEF M!Limits
    <3> QED
      BY <3>1
  <2>2. CASE p = "inbox"
    <3>1. M!Limits[p] = <<Small, Large>>
      BY <2>2 DEF M!Limits
    <3> QED
      BY <3>1
  <2>3. CASE p = "subscribe"
    <3>1. M!Limits[p] = <<Small>>
      BY <2>3 DEF M!Limits
    <3> QED
      BY <3>1
  <2>4. CASE p \in {"answers", "lines"}
    <3>1. M!Limits[p] = <<Large>>
      BY <2>4 DEF M!Limits
    <3> QED
      BY <3>1
  <2> QED
    BY <1>1, <2>1, <2>2, <2>3, <2>4
<1>3. DOMAIN M!Limits[p] = 1 .. Len(M!Limits[p]) /\ \A i \in DOMAIN M!Limits[p] : M!Limits[p][i] \in {Small, Large}
  BY <1>2, LenProperties
<1>4. (IF n <= Len(M!Limits[p]) THEN n ELSE Len(M!Limits[p])) \in DOMAIN M!Limits[p]
  BY <1>2, <1>3
<1>5. M!Limit(p, n) \in {Small, Large}
  BY <1>3, <1>4 DEF M!Limit
<1> QED
  BY <1>5 DEF M!LimitAssumption, M!Largest

LEMMA DigitsSayTheLength ==
  ASSUME NEW n \in 0 .. M!Largest
  PROVE  /\ M!BigEndian(n) \in Seq(Digit) /\ Len(M!BigEndian(n)) = M!Prefix
         /\ 4 * M!BigEndian(n)[1] + 2 * M!BigEndian(n)[2] + M!BigEndian(n)[3] = n
<1>1. n \in {0, 1, 2, 3, 4, 5, 6, 7}
  BY DEF M!Largest
<1>2. (n \div 4) % 2 \in Digit /\ (n \div 2) % 2 \in Digit /\ n % 2 \in Digit
        /\ 4 * ((n \div 4) % 2) + 2 * ((n \div 2) % 2) + (n % 2) = n
  BY <1>1 DEF Digit
<1> QED
  BY <1>2 DEF M!BigEndian, M!Prefix

LEMMA EncodeIs ==
  ASSUME M!LimitAssumption, proto \in M!Protocols, NEW b \in Writings
  PROVE  /\ Len(b) \in Nat
         /\ M!Encode(proto, b) \in Seq(Byte)
         /\ Len(M!Encode(proto, b)) = Len(b) + Extra(proto)
         /\ ~M!Framed => /\ \A k \in 1 .. Len(b) : M!Encode(proto, b)[k] = b[k]
                         /\ M!Encode(proto, b)[Len(b) + 1] = M!NewLine
         /\ M!Framed => /\ Len(b) <= M!Largest
                        /\ \A k \in 1 .. M!Prefix : M!Encode(proto, b)[k] = M!BigEndian(Len(b))[k]
                        /\ \A k \in 1 .. Len(b) : M!Encode(proto, b)[M!Prefix + k] = b[k]
<1>1. b \in Seq(Digit) /\ M!Encodes(proto, b)
  BY DEF Writings
<1>2. b \in Seq(Byte) /\ Len(b) \in Nat
  BY <1>1, SeqMonotonic, LenProperties DEF Digit, Byte
<1>3. CASE proto = "lines"
  <2>1. M!Encode(proto, b) = Append(b, M!NewLine) /\ M!NewLine \in Byte
    BY <1>3 DEF M!Encode, Byte
  <2> QED
    BY <1>2, <1>3, <2>1, AppendProperties DEF Extra, M!Framed
<1>4. CASE proto # "lines"
  <2>1. M!Encode(proto, b) = M!BigEndian(Len(b)) \o b
    BY <1>4 DEF M!Encode, M!LengthPrefixed
  <2>2. Len(b) <= M!Largest
    BY <1>1, <1>2, <1>4 DEF M!Encodes, M!LimitAssumption, M!Largest
  <2>3. M!BigEndian(Len(b)) \in Seq(Digit) /\ Len(M!BigEndian(Len(b))) = M!Prefix
    BY <1>2, <2>2, DigitsSayTheLength DEF M!Largest
  <2>4. M!BigEndian(Len(b)) \in Seq(Byte)
    BY <2>3, SeqMonotonic DEF Digit, Byte
  <2> DEFINE e == M!BigEndian(Len(b))
  <2> HIDE DEF e
  <2>5. /\ e \o b \in Seq(Byte) /\ Len(e \o b) = M!Prefix + Len(b)
        /\ \A k \in 1 .. M!Prefix : (e \o b)[k] = e[k]
        /\ \A k \in 1 .. Len(b) : (e \o b)[M!Prefix + k] = b[k]
    <3>1. e \in Seq(Byte) /\ Len(e) = M!Prefix
      BY <2>3, <2>4 DEF e
    <3>2. /\ e \o b \in Seq(Byte) /\ Len(e \o b) = M!Prefix + Len(b)
          /\ \A k \in 1 .. M!Prefix + Len(b) : (e \o b)[k] = IF k <= M!Prefix THEN e[k] ELSE b[k - M!Prefix]
      BY <1>2, <3>1, ConcatProperties
    <3> QED
      BY <1>2, <3>2 DEF M!Prefix
  <2>6. M!Encode(proto, b) = e \o b
    BY <2>1 DEF e
  <2>7. Len(M!Encode(proto, b)) = Len(b) + Extra(proto)
    BY <1>2, <1>4, <2>5, <2>6 DEF Extra, M!Prefix
  <2>8. \A k \in 1 .. M!Prefix : M!Encode(proto, b)[k] = M!BigEndian(Len(b))[k]
    BY <2>5, <2>6 DEF e
  <2>9. \A k \in 1 .. Len(b) : M!Encode(proto, b)[M!Prefix + k] = b[k]
    BY <2>5, <2>6
  <2> QED
    BY <1>2, <1>4, <2>2, <2>5, <2>6, <2>7, <2>8, <2>9 DEF M!Framed
<1> QED
  BY <1>3, <1>4

-----------------------------------------------------------------------------
(* Where the reader stands in what was written. *)

\* all is every byte written, in order, of which at[i] are of the first i messages:
\* each is whole, but the last when the writer was cut or the connection lost.
History(all, at) ==
  /\ all \in Seq(Byte) /\ at \in [0 .. Len(sent) -> Nat]
  /\ at[0] = 0 /\ at[Len(sent)] = Len(all)
  /\ \A i, j \in 0 .. Len(sent) : i <= j => at[i] <= at[j]
  /\ \A i \in 1 .. Len(sent) :
       /\ at[i] <= at[i - 1] + Len(Code(i))
       /\ i < Len(sent) \/ ending \in {"open", "finished"} => at[i] = at[i - 1] + Len(Code(i))
       /\ \A k \in 1 .. at[i] - at[i - 1] : all[at[i - 1] + k] = Code(i)[k]

\* Where the bytes in the reader's hands end.
Place(at) == at[Len(got)] + Len(buf)

\* buf is how the message after those read begins, and stream what follows.
Reading(all, at) ==
  /\ Len(got) <= Len(sent)
  /\ Place(at) + Len(stream) <= Len(all)
  /\ ending # "reset" => Place(at) + Len(stream) = Len(all)
  /\ \A k \in 1 .. Len(stream) : stream[k] = all[Place(at) + k]
  /\ Len(got) < Len(sent) => /\ Place(at) <= at[Len(got) + 1]
                             /\ \A k \in 1 .. Len(buf) : buf[k] = Code(Len(got) + 1)[k]
  /\ Len(got) = Len(sent) => buf = << >>

\* A line in hand has not ended, nor passed the limit.
Lined == ~M!Framed => Len(buf) <= M!Cap /\ \A k \in 1 .. Len(buf) : buf[k] # M!NewLine

FrameTyped ==
  /\ proto \in M!Protocols /\ ending \in {"open", "finished", "cut", "reset"}
  /\ sent \in Seq(Writings) /\ Len(sent) <= Messages
  /\ got \in Seq(Seq(Byte)) /\ buf \in Seq(Byte) /\ stream \in Seq(Byte)

\* A reader stopped at an end the writer made, or at a message it wrote.
Settled ==
  /\ result = "end" => ending # "open"
  /\ result \in {"too large", "malformed"} => Len(got) < Len(sent)

FrameInv ==
  /\ M!LimitAssumption
  /\ FrameTyped
  /\ M!MessagesAsWritten
  /\ Settled
  /\ result = "reading" => Lined /\ \E all, at : History(all, at) /\ Reading(all, at)

LEMMA LengthsAre ==
  ASSUME FrameTyped
  PROVE  /\ Len(sent) \in Nat /\ DOMAIN sent = 1 .. Len(sent)
         /\ Len(got) \in Nat /\ DOMAIN got = 1 .. Len(got)
         /\ Len(buf) \in Nat /\ Len(stream) \in Nat
  BY LenProperties DEF FrameTyped

LEMMA CodeIs ==
  ASSUME M!LimitAssumption, FrameTyped, NEW i \in 1 .. Len(sent)
  PROVE  /\ sent[i] \in Seq(Digit) /\ Len(sent[i]) \in Nat /\ Code(i) \in Seq(Byte)
         /\ Len(Code(i)) = Len(sent[i]) + Extra(proto)
         /\ ~M!Framed => /\ \A k \in 1 .. Len(sent[i]) : Code(i)[k] = sent[i][k]
                         /\ Code(i)[Len(sent[i]) + 1] = M!NewLine
         /\ M!Framed => /\ Len(sent[i]) <= M!Largest
                        /\ \A k \in 1 .. M!Prefix : Code(i)[k] = M!BigEndian(Len(sent[i]))[k]
                        /\ \A k \in 1 .. Len(sent[i]) : Code(i)[M!Prefix + k] = sent[i][k]
<1>1. sent[i] \in Writings /\ proto \in M!Protocols
  BY ElementOfSeq DEF FrameTyped
<1>2. sent[i] \in Seq(Digit)
  BY <1>1 DEF Writings
<1> QED
  BY <1>1, <1>2, EncodeIs DEF Code

\* The next message, while there is more on the stream or in hand.
LEMMA ThereIsANext ==
  ASSUME FrameTyped, NEW all, NEW at, History(all, at), Reading(all, at),
         Len(stream) > 0 \/ Len(buf) > 0
  PROVE  Len(got) < Len(sent) /\ Len(got) + 1 \in 1 .. Len(sent)
<1>1. Len(got) # Len(sent)
  <2>1. SUFFICES ASSUME Len(got) = Len(sent) PROVE FALSE
    OBVIOUS
  <2>2. buf = << >> /\ Len(buf) = 0
    BY <2>1 DEF Reading
  <2>3. at[Len(got)] = Len(all) /\ Len(all) \in Nat
    BY <2>1, LenProperties DEF History
  <2>4. Place(at) + Len(stream) <= Len(all)
    BY DEF Reading
  <2>5. Len(stream) <= 0
    BY <2>2, <2>3, <2>4, LengthsAre DEF Place
  <2> QED
    BY <2>2, <2>5, LengthsAre
<1>2. Len(got) <= Len(sent) /\ Len(got) \in Nat /\ Len(sent) \in Nat
  BY LengthsAre DEF Reading
<1> QED
  BY <1>1, <1>2

\* The numbers at that place.
LEMMA NextAt ==
  ASSUME M!LimitAssumption, FrameTyped, NEW all, NEW at, History(all, at), Reading(all, at),
         Len(got) < Len(sent)
  PROVE  LET g == Len(got) IN
         /\ g \in 0 .. Len(sent) /\ g + 1 \in 1 .. Len(sent)
         /\ at[g] \in Nat /\ at[g + 1] \in Nat /\ Len(all) \in Nat
         /\ at[g] <= at[g + 1] /\ at[g + 1] <= Len(all)
         /\ at[g + 1] <= at[g] + Len(Code(g + 1))
         /\ g + 1 < Len(sent) \/ ending \in {"open", "finished"} =>
              at[g + 1] = at[g] + Len(Code(g + 1))
         /\ g + 1 = Len(sent) => at[g + 1] = Len(all)
         /\ \A k \in 1 .. at[g + 1] - at[g] : all[at[g] + k] = Code(g + 1)[k]
<1> DEFINE g == Len(got)
<1>1. g \in 0 .. Len(sent) /\ g + 1 \in 1 .. Len(sent) /\ g + 1 \in 0 .. Len(sent)
        /\ (g + 1) - 1 = g /\ Len(sent) \in 0 .. Len(sent)
  BY LengthsAre
<1>2. at[g] \in Nat /\ at[g + 1] \in Nat /\ at[Len(sent)] = Len(all) /\ Len(all) \in Nat
  BY <1>1, LenProperties DEF History
<1>3. at[g] <= at[g + 1] /\ at[g + 1] <= at[Len(sent)]
  BY <1>1 DEF History
<1>4. /\ at[g + 1] <= at[(g + 1) - 1] + Len(Code(g + 1))
      /\ g + 1 < Len(sent) \/ ending \in {"open", "finished"} =>
           at[g + 1] = at[(g + 1) - 1] + Len(Code(g + 1))
      /\ \A k \in 1 .. at[g + 1] - at[(g + 1) - 1] : all[at[(g + 1) - 1] + k] = Code(g + 1)[k]
  BY <1>1 DEF History
<1> QED
  BY <1>1, <1>2, <1>3, <1>4

\* What comes next on the stream is of the message being read, as far as that goes.
LEMMA StreamIs ==
  ASSUME M!LimitAssumption, FrameTyped, NEW all, NEW at, History(all, at), Reading(all, at),
         Len(got) < Len(sent), NEW k \in 1 .. Len(stream), Place(at) + k <= at[Len(got) + 1]
  PROVE  stream[k] = Code(Len(got) + 1)[Len(buf) + k]
<1> DEFINE g == Len(got)
<1>1. at[g] \in Nat /\ at[g + 1] \in Nat /\ Len(buf) \in Nat
        /\ \A m \in 1 .. at[g + 1] - at[g] : all[at[g] + m] = Code(g + 1)[m]
  BY NextAt, LengthsAre
<1>2. Len(buf) + k \in 1 .. at[g + 1] - at[g]
  BY <1>1 DEF Place
<1>3. stream[k] = all[Place(at) + k] /\ Place(at) + k = at[g] + (Len(buf) + k)
  BY <1>1 DEF Reading, Place
<1> QED
  BY <1>1, <1>2, <1>3

\* The prefix in hand is that of the message being read.
LEMMA PrefixLenIs ==
  ASSUME M!LimitAssumption, FrameTyped, NEW all, NEW at, History(all, at), Reading(all, at),
         M!Framed, M!HasPrefix(buf)
  PROVE  Len(got) < Len(sent) /\ M!PrefixLen(buf) = Len(sent[Len(got) + 1])
<1> DEFINE g == Len(got)
           n == Len(sent[g + 1])
<1>1. Len(buf) \in Nat /\ Len(buf) >= 3 /\ buf \in Seq(Byte)
  BY LengthsAre DEF M!HasPrefix, M!Prefix, FrameTyped
<1>2. g < Len(sent) /\ g + 1 \in 1 .. Len(sent)
  BY <1>1, ThereIsANext
<1>8. n \in Nat /\ n <= M!Largest /\ \A k \in 1 .. 3 : Code(g + 1)[k] = M!BigEndian(n)[k]
  BY <1>2, CodeIs DEF M!Prefix
<1>9. \A k \in 1 .. Len(buf) : buf[k] = Code(g + 1)[k]
  BY <1>2 DEF Reading
<1>3. \A k \in 1 .. 3 : buf[k] = M!BigEndian(n)[k]
  BY <1>1, <1>8, <1>9
<1>4. n \in 0 .. M!Largest
  <2> HIDE DEF n
  <2> QED
    BY <1>8 DEF M!Largest
<1>5. \A i \in 1 .. 3 : buf[i] \in Byte
  BY <1>1, ElementOfSeq
<1>6. \A i \in 1 .. 3 : SubSeq(buf, 1, 3)[i] = buf[i]
  <2>1. \A i \in 1 .. (3 - 1 + 1) : SubSeq(buf, 1, 3)[i] = buf[1 + i - 1]
    BY <1>5, SubSeqProperties
  <2> QED
    BY <2>1
<1>7. M!PrefixLen(buf) = 4 * M!BigEndian(n)[1] + 2 * M!BigEndian(n)[2] + M!BigEndian(n)[3]
  BY <1>3, <1>6 DEF M!PrefixLen, M!FromBigEndian, M!Prefix
<1> QED
  BY <1>2, <1>4, <1>7, DigitsSayTheLength

-----------------------------------------------------------------------------
(* What a step does to the reader's place. *)

LEMMA HistoryKept ==
  ASSUME NEW all, NEW at, History(all, at), UNCHANGED <<proto, sent, ending>>
  PROVE  History(all, at)'
  BY DEF History, Code

\* What is on the stream of one message is of that message: it is whole, or the last.
LEMMA StaysWithin ==
  ASSUME M!LimitAssumption, FrameTyped, NEW all, NEW at, History(all, at), Reading(all, at),
         Len(got) < Len(sent), NEW n \in 0 .. Len(stream),
         Len(buf) + n <= Len(Code(Len(got) + 1))
  PROVE  Place(at) + n <= at[Len(got) + 1]
<1> DEFINE g == Len(got)
           c == Len(Code(g + 1))
<1>1. /\ at[g] \in Nat /\ at[g + 1] \in Nat /\ Len(all) \in Nat
      /\ g + 1 < Len(sent) \/ ending \in {"open", "finished"} => at[g + 1] = at[g] + c
      /\ g + 1 = Len(sent) => at[g + 1] = Len(all)
  BY NextAt
<1>2. Place(at) = at[g] + Len(buf) /\ Place(at) + Len(stream) <= Len(all)
  BY DEF Place, Reading
<1>3. Len(stream) \in Nat /\ Len(buf) \in Nat /\ g \in Nat /\ Len(sent) \in Nat
  BY LengthsAre
<1>6. Len(buf) + n <= c /\ c \in Nat /\ n \in Nat /\ n <= Len(stream) /\ g < Len(sent)
  <2>1. g + 1 \in 1 .. Len(sent)
    BY <1>3
  <2>2. Code(g + 1) \in Seq(Byte)
    BY <2>1, CodeIs
  <2> QED
    BY <1>3, <2>2, LenProperties
<1> HIDE DEF c, g
<1>7. Place(at) \in Nat
  BY <1>1, <1>2, <1>3
<1>4. CASE g + 1 < Len(sent)
  <2>1. at[g + 1] = at[g] + c
    BY <1>1, <1>4
  <2>2. Place(at) = at[g] + Len(buf) /\ at[g] \in Nat /\ Len(buf) \in Nat
          /\ Len(buf) + n <= c /\ c \in Nat /\ n \in Nat
    BY <1>1, <1>2, <1>3, <1>6
  <2>3. Place(at) + n <= at[g + 1]
    BY <2>1, <2>2
  <2> QED
    BY <2>3 DEF g
<1>5. CASE g + 1 = Len(sent)
  <2>1. at[g + 1] = Len(all)
    BY <1>1, <1>5
  <2>2. Place(at) + Len(stream) <= Len(all) /\ Place(at) \in Nat /\ Len(all) \in Nat
          /\ n \in Nat /\ n <= Len(stream) /\ Len(stream) \in Nat
    BY <1>1, <1>2, <1>3, <1>6, <1>7
  <2>3. Place(at) + n <= at[g + 1]
    BY <2>1, <2>2
  <2> QED
    BY <2>3 DEF g
<1> QED
  BY <1>3, <1>4, <1>5, <1>6

\* More of the message being read.
LEMMA Takes ==
  ASSUME M!LimitAssumption, FrameTyped, NEW all, NEW at, History(all, at), Reading(all, at),
         Len(got) < Len(sent), NEW n \in 1 .. Len(stream), Place(at) + n <= at[Len(got) + 1],
         buf' = buf \o SubSeq(stream, 1, n), stream' = SubSeq(stream, n + 1, Len(stream)),
         UNCHANGED <<proto, sent, ending, got>>
  PROVE  /\ FrameTyped' /\ History(all, at)' /\ Reading(all, at)'
         /\ Len(buf') = Len(buf) + n
         /\ \A k \in 1 .. Len(buf) : buf'[k] = buf[k]
         /\ \A k \in 1 .. n : buf'[Len(buf) + k] = stream[k]
         /\ \A k \in 1 .. Len(buf') : buf'[k] = Code(Len(got) + 1)[k]
<1> DEFINE g == Len(got)
           c == SubSeq(stream, 1, n)
<1>1. Len(stream) \in Nat /\ Len(buf) \in Nat /\ stream \in Seq(Byte) /\ buf \in Seq(Byte)
        /\ g \in Nat /\ Len(sent) \in Nat
  BY LengthsAre DEF FrameTyped
<1>2. c \in Seq(Byte) /\ Len(c) = n /\ \A k \in 1 .. n : c[k] = stream[k]
  <2>1. \A k \in 1 .. n : stream[k] \in Byte
    BY <1>1, ElementOfSeq
  <2>2. /\ c \in Seq(Byte) /\ Len(c) = (IF 1 <= n THEN n - 1 + 1 ELSE 0)
        /\ \A k \in 1 .. n - 1 + 1 : c[k] = stream[1 + k - 1]
    <3>1. n \in Int /\ 1 \in Int
      BY <1>1
    <3> QED
      BY <2>1, <3>1, SubSeqProperties
  <2> HIDE DEF c
  <2> QED
    BY <1>1, <2>2
<1>3. /\ buf' \in Seq(Byte) /\ Len(buf') = Len(buf) + n
      /\ \A k \in 1 .. Len(buf) + n : buf'[k] = IF k <= Len(buf) THEN buf[k] ELSE c[k - Len(buf)]
  BY <1>1, <1>2, ConcatProperties
<1>4. /\ stream' \in Seq(Byte) /\ Len(stream') = Len(stream) - n
      /\ \A k \in 1 .. Len(stream) - n : stream'[k] = stream[n + k]
  <2>1. \A k \in n + 1 .. Len(stream) : stream[k] \in Byte
    BY <1>1, ElementOfSeq
  <2>2. stream' \in Seq(Byte)
          /\ Len(stream') = (IF n + 1 <= Len(stream) THEN Len(stream) - (n + 1) + 1 ELSE 0)
          /\ \A k \in 1 .. Len(stream) - (n + 1) + 1 : stream'[k] = stream[(n + 1) + k - 1]
    BY <1>1, <2>1, SubSeqProperties
  <2> QED
    BY <1>1, <2>2
<1>5. \A k \in 1 .. Len(buf) : buf'[k] = buf[k]
  BY <1>1, <1>3
<1>6. \A k \in 1 .. n : buf'[Len(buf) + k] = stream[k]
  <2> TAKE k \in 1 .. n
  <2>1. Len(buf) + k \in 1 .. Len(buf) + n /\ ~(Len(buf) + k <= Len(buf)) /\ (Len(buf) + k) - Len(buf) = k
    BY <1>1
  <2> HIDE DEF c
  <2> QED
    BY <1>2, <1>3, <2>1
<1>7. \A k \in 1 .. Len(buf') : buf'[k] = Code(g + 1)[k]
  <2> TAKE k \in 1 .. Len(buf')
  <2>1. CASE k <= Len(buf)
    <3>1. k \in 1 .. Len(buf)
      BY <2>1, <1>1, <1>3
    <3> QED
      BY <3>1, <1>5 DEF Reading
  <2>2. CASE ~(k <= Len(buf))
    <3> DEFINE m == k - Len(buf)
    <3>1. m \in 1 .. n /\ k = Len(buf) + m
      BY <2>2, <1>1, <1>3
    <3>2. m \in 1 .. Len(stream) /\ Place(at) + m <= at[g + 1]
      <4>1. at[g] \in Nat /\ at[g + 1] \in Nat
        BY NextAt
      <4>2. Place(at) = at[g] + Len(buf) /\ Place(at) \in Nat
        BY <1>1, <4>1 DEF Place
      <4> HIDE DEF m, g
      <4>3. m \in 1 .. n
        BY <3>1
      <4>4. Place(at) + n <= at[g + 1]
        BY DEF g
      <4>5. m \in Nat /\ m <= n /\ 1 <= m /\ n \in Nat /\ n <= Len(stream) /\ Len(stream) \in Nat
        BY <1>1, <4>3
      <4>6. m \in 1 .. Len(stream)
        BY <4>5
      <4>8. Place(at) \in Nat /\ at[g + 1] \in Nat /\ m \in Nat /\ n \in Nat /\ m <= n
        BY <4>1, <4>2, <4>5
      <4>7. Place(at) + m <= at[g + 1]
        BY <4>4, <4>8
      <4> QED
        BY <4>6, <4>7 DEF m, g
    <3>3. stream[m] = Code(g + 1)[Len(buf) + m]
      BY <3>2, StreamIs
    <3> QED
      BY <3>1, <3>3, <1>6
  <2> QED
    BY <2>1, <2>2
<1>8. FrameTyped'
  BY <1>3, <1>4 DEF FrameTyped, Writings
<1>9. History(all, at)'
  BY HistoryKept
<1>10. Place(at)' = Place(at) + n /\ Place(at) \in Nat /\ Len(all) \in Nat
  <2>1. at[g] \in Nat /\ Len(all) \in Nat
    BY NextAt
  <2> QED
    BY <1>1, <1>3, <2>1 DEF Place
<1>11. Reading(all, at)'
  <2>1. Len(got') <= Len(sent') /\ (Len(got) = Len(sent) => buf' = << >>)
    BY <1>1
  <2>2. Place(at)' + Len(stream') = Place(at) + Len(stream)
    BY <1>1, <1>4, <1>10
  <2>3. \A k \in 1 .. Len(stream') : stream'[k] = all[Place(at)' + k]
    <3> TAKE k \in 1 .. Len(stream')
    <3>1. n + k \in 1 .. Len(stream) /\ stream'[k] = stream[n + k]
      BY <1>1, <1>4
    <3>2. Place(at)' + k = Place(at) + (n + k)
      BY <1>10, <1>4, <1>1
    <3> QED
      BY <3>1, <3>2 DEF Reading
  <2>4. Code(g + 1)' = Code(g + 1)
    BY DEF Code
  <2>5. /\ Place(at) + Len(stream) <= Len(all)
        /\ ending # "reset" => Place(at) + Len(stream) = Len(all)
    BY DEF Reading
  <2> QED
    BY <1>7, <1>10, <2>1, <2>2, <2>3, <2>4, <2>5 DEF Reading
<1> QED
  BY <1>3, <1>5, <1>6, <1>7, <1>8, <1>9, <1>11

\* The rest of the message, and on to the next.
LEMMA Delivers ==
  ASSUME M!LimitAssumption, FrameTyped, NEW all, NEW at, History(all, at), Reading(all, at),
         Len(got) < Len(sent), NEW m \in 0 .. Len(stream), Place(at) + m = at[Len(got) + 1],
         NEW x \in Seq(Byte), got' = Append(got, x), buf' = << >>,
         stream' \in Seq(Byte), Len(stream') = Len(stream) - m,
         \A k \in 1 .. Len(stream) - m : stream'[k] = stream[m + k],
         UNCHANGED <<proto, sent, ending>>
  PROVE  FrameTyped' /\ History(all, at)' /\ Reading(all, at)'
<1> DEFINE g == Len(got)
<1>1. Len(stream) \in Nat /\ Len(buf) \in Nat /\ g \in Nat /\ Len(sent) \in Nat
        /\ got \in Seq(Seq(Byte)) /\ << >> \in Seq(Byte)
  BY LengthsAre, EmptySeq DEF FrameTyped
<1>2. got' \in Seq(Seq(Byte)) /\ Len(got') = g + 1
  BY <1>1, AppendProperties
<1>3. Len(buf') = 0
  OBVIOUS
<1>4. FrameTyped'
  BY <1>1, <1>2 DEF FrameTyped, Writings
<1>5. History(all, at)'
  BY HistoryKept
<1>6. at[g + 1] \in Nat /\ Len(all) \in Nat /\ Place(at) \in Nat /\ at[g] \in Nat
  <2>1. at[g + 1] \in Nat /\ Len(all) \in Nat /\ at[g] \in Nat
    BY NextAt
  <2> QED
    BY <2>1, <1>1 DEF Place
<1>7. Place(at)' = Place(at) + m
  <2>1. Place(at)' = at[Len(got')] + Len(buf')
    BY DEF Place
  <2>2. Place(at)' = at[g + 1]
    BY <1>2, <1>3, <1>6, <2>1
  <2> QED BY <2>2, <1>6
<1>8. \A k \in 1 .. Len(stream') : stream'[k] = all[Place(at)' + k]
  <2> TAKE k \in 1 .. Len(stream')
  <2>1. m + k \in 1 .. Len(stream) /\ stream'[k] = stream[m + k]
    BY <1>1
  <2>2. Place(at)' + k = Place(at) + (m + k)
    BY <1>1, <1>6, <1>7
  <2> QED
    BY <2>1, <2>2 DEF Reading
<1>9. Place(at)' + Len(stream') = Place(at) + Len(stream)
  BY <1>1, <1>6, <1>7
<1>10. g + 1 < Len(sent) => at[g + 1] <= at[g + 2]
  <2>1. g + 1 < Len(sent) => g + 1 \in 0 .. Len(sent) /\ g + 2 \in 0 .. Len(sent) /\ g + 1 <= g + 2
    BY <1>1
  <2> QED
    BY <2>1 DEF History
<1>11. /\ Place(at) + Len(stream) <= Len(all)
       /\ ending # "reset" => Place(at) + Len(stream) = Len(all)
  BY DEF Reading
<1>12. Len(got') < Len(sent') => Place(at)' <= at[Len(got') + 1]
  <2>1. Place(at)' = at[g + 1]
    BY <1>7
  <2>2. (g + 1) + 1 = g + 2
    BY <1>1
  <2> QED
    BY <1>2, <1>10, <2>1, <2>2
<1>13. Len(got') <= Len(sent')
  BY <1>1, <1>2
<1>14. Reading(all, at)'
  BY <1>3, <1>8, <1>9, <1>11, <1>12, <1>13 DEF Reading
<1> QED
  BY <1>4, <1>5, <1>14

-----------------------------------------------------------------------------
(* The writer's steps. *)

\* One more message, or the first n bytes of it.
LEMMA Extends ==
  ASSUME M!LimitAssumption, FrameTyped, NEW all, NEW at, History(all, at), Reading(all, at),
         ending = "open", NEW body \in Writings, NEW n \in 0 .. Len(M!Encode(proto, body)),
         sent' = Append(sent, body), stream' = stream \o SubSeq(M!Encode(proto, body), 1, n),
         (ending' = "open" /\ n = Len(M!Encode(proto, body))) \/ ending' = "cut",
         UNCHANGED <<proto, buf, got>>
  PROVE  /\ stream' \in Seq(Byte)
         /\ \E all2, at2 : History(all2, at2)' /\ Reading(all2, at2)'
<1> PICK g, s, e : g = Len(got) /\ s = Len(sent) /\ e = M!Encode(proto, body)
  OBVIOUS
<1> DEFINE c == SubSeq(e, 1, n)
           L == Len(all)
<1>1. Len(stream) \in Nat /\ Len(buf) \in Nat /\ stream \in Seq(Byte) /\ buf \in Seq(Byte)
        /\ g \in Nat /\ s \in Nat /\ sent \in Seq(Writings)
  BY LengthsAre DEF FrameTyped
<1>2. all \in Seq(Byte) /\ L \in Nat /\ at \in [0 .. s -> Nat] /\ at[0] = 0 /\ at[s] = L
  BY LenProperties DEF History
<1>3. e \in Seq(Byte) /\ Len(e) \in Nat /\ n \in Nat /\ n <= Len(e)
  <2>1. proto \in M!Protocols
    BY DEF FrameTyped
  <2>2. e \in Seq(Byte)
    BY <2>1, EncodeIs
  <2> QED
    BY <2>2, LenProperties
<1>4. c \in Seq(Byte) /\ Len(c) = n /\ \A k \in 1 .. n : c[k] = e[k]
  <2>1. \A k \in 1 .. n : e[k] \in Byte
    BY <1>3, ElementOfSeq
  <2>2. n \in Int /\ 1 \in Int
    BY <1>3
  <2>3. /\ c \in Seq(Byte) /\ Len(c) = (IF 1 <= n THEN n - 1 + 1 ELSE 0)
        /\ \A k \in 1 .. n - 1 + 1 : c[k] = e[1 + k - 1]
    BY <2>1, <2>2, SubSeqProperties
  <2> HIDE DEF c
  <2> QED
    BY <1>3, <2>3
<1>5. PICK all2 : all2 = all \o c
  OBVIOUS
<1>6. PICK at2 : at2 = [i \in 0 .. s + 1 |-> IF i <= s THEN at[i] ELSE L + n]
  OBVIOUS
<1>7. /\ all2 \in Seq(Byte) /\ Len(all2) = L + n
      /\ \A k \in 1 .. L : all2[k] = all[k]
      /\ \A k \in 1 .. n : all2[L + k] = c[k]
  <2> HIDE DEF c
  <2>1. all \in Seq(Byte) /\ c \in Seq(Byte)
    BY <1>2, <1>4
  <2>2. /\ all \o c \in Seq(Byte) /\ Len(all \o c) = L + Len(c)
        /\ \A k \in 1 .. L : (all \o c)[k] = all[k]
        /\ \A k \in 1 .. Len(c) : (all \o c)[L + k] = c[k]
    BY <2>1, Joined
  <2> QED
    BY <1>4, <1>5, <2>2
<1>8. /\ at2 \in [0 .. s + 1 -> Nat] /\ at2[s + 1] = L + n
      /\ \A i \in 0 .. s : at2[i] = at[i]
  <2> HIDE DEF L
  <2> QED
    BY <1>1, <1>2, <1>3, <1>6
<1>9. /\ sent' \in Seq(Writings) /\ Len(sent') = s + 1 /\ sent'[s + 1] = body
      /\ \A i \in 1 .. s : sent'[i] = sent[i]
  BY <1>1, AppendProperties
<1>10. Code(s + 1)' = e /\ \A i \in 1 .. s : Code(i)' = Code(i)
  BY <1>9 DEF Code
<1>11. /\ stream' \in Seq(Byte) /\ Len(stream') = Len(stream) + n
       /\ \A k \in 1 .. Len(stream) : stream'[k] = stream[k]
       /\ \A k \in 1 .. n : stream'[Len(stream) + k] = c[k]
  <2>1. stream' = stream \o c
    OBVIOUS
  <2> HIDE DEF c
  <2>2. stream \in Seq(Byte) /\ c \in Seq(Byte) /\ Len(c) = n
    BY <1>1, <1>4
  <2>3. /\ stream \o c \in Seq(Byte) /\ Len(stream \o c) = Len(stream) + Len(c)
        /\ \A k \in 1 .. Len(stream) : (stream \o c)[k] = stream[k]
        /\ \A k \in 1 .. Len(c) : (stream \o c)[Len(stream) + k] = c[k]
    <3>1. \A a, b \in Seq(Byte) :
            /\ a \o b \in Seq(Byte) /\ Len(a \o b) = Len(a) + Len(b)
            /\ \A k \in 1 .. Len(a) : (a \o b)[k] = a[k]
            /\ \A k \in 1 .. Len(b) : (a \o b)[Len(a) + k] = b[k]
      BY Joined
    <3>2. stream \in Seq(Byte) /\ c \in Seq(Byte)
      BY <2>2
    <3> QED
      BY <3>1, <3>2
  <2> QED
    BY <2>1, <2>2, <2>3
<1>12. History(all2, at2)'
  <2>1. \A i, j \in 0 .. s + 1 : i <= j => at2[i] <= at2[j]
    <3> SUFFICES ASSUME NEW i \in 0 .. s + 1, NEW j \in 0 .. s + 1, i <= j
                 PROVE  at2[i] <= at2[j]
      OBVIOUS
    <3>1. \A k \in 0 .. s : at[k] <= L /\ at[k] \in Nat
      <4> TAKE k \in 0 .. s
      <4>1. s \in 0 .. s /\ k <= s
        BY <1>1
      <4>2. at[k] <= at[s]
        BY <4>1 DEF History
      <4> QED
        BY <1>2, <4>2
    <3>2. CASE j <= s
      <4>1. i \in 0 .. s /\ j \in 0 .. s
        BY <1>1, <3>2
      <4>2. at[i] <= at[j]
        BY <4>1 DEF History
      <4> QED
        BY <1>8, <4>1, <4>2
    <3>3. CASE j = s + 1 /\ i <= s
      <4>1. i \in 0 .. s
        BY <1>1, <3>3
      <4>2. at2[i] = at[i] /\ at[i] <= L /\ at[i] \in Nat /\ at2[j] = L + n
        BY <1>8, <3>1, <3>3, <4>1
      <4> HIDE DEF L
      <4> QED
        BY <1>2, <1>3, <4>2
    <3>4. CASE j = s + 1 /\ i = s + 1
      <4> HIDE DEF L
      <4> QED
        BY <1>2, <1>3, <1>8, <3>4
    <3> QED
      BY <1>1, <3>2, <3>3, <3>4
  <2>2. ASSUME NEW i \in 1 .. s
        PROVE  /\ at2[i] = at2[i - 1] + Len(Code(i)')
               /\ \A k \in 1 .. at2[i] - at2[i - 1] : all2[at2[i - 1] + k] = Code(i)'[k]
    <3>1. i \in 0 .. s /\ i - 1 \in 0 .. s /\ s \in 0 .. s
      BY <1>1
    <3>2. /\ at[i] = at[i - 1] + Len(Code(i))
          /\ \A k \in 1 .. at[i] - at[i - 1] : all[at[i - 1] + k] = Code(i)[k]
      BY DEF History
    <3>3. at2[i] = at[i] /\ at2[i - 1] = at[i - 1] /\ Code(i)' = Code(i)
      BY <1>8, <1>10, <3>1
    <3>4. at[i] \in Nat /\ at[i - 1] \in Nat /\ at[i] <= L
      <4>1. at[i] <= at[s]
        BY <3>1 DEF History
      <4> QED
        BY <1>2, <3>1, <4>1
    <3>5. ASSUME NEW k \in 1 .. at[i] - at[i - 1]
          PROVE  all2[at[i - 1] + k] = all[at[i - 1] + k]
      <4>1. at[i - 1] + k \in 1 .. L
        <5> HIDE DEF L
        <5> QED
          BY <1>2, <3>4
      <4> QED
        BY <1>7, <4>1
    <3> QED
      BY <3>2, <3>3, <3>5
  <2>3. /\ at2[s + 1] <= at2[s] + Len(e)
        /\ ending' = "open" => at2[s + 1] = at2[s] + Len(e)
        /\ at2[s + 1] - at2[s] = n /\ at2[s] = L
    <3>1. at2[s] = L /\ at2[s + 1] = L + n
      <4>1. s \in 0 .. s
        BY <1>1
      <4> QED
        BY <4>1, <1>2, <1>8
    <3>2. ending' = "open" => n = Len(e)
      OBVIOUS
    <3>3. L \in Nat /\ n \in Nat /\ Len(e) \in Nat /\ n <= Len(e)
      BY <1>2, <1>3
    <3> HIDE DEF L
    <3>4. at2[s + 1] <= at2[s] + Len(e)
      BY <3>1, <3>3
    <3>5. at2[s + 1] - at2[s] = n
      BY <3>1, <3>3
    <3>6. ending' = "open" => at2[s + 1] = at2[s] + Len(e)
      BY <3>1, <3>2
    <3> QED
      BY <3>1, <3>4, <3>5, <3>6
  <2>4. \A k \in 1 .. n : all2[L + k] = e[k]
    BY <1>4, <1>7
  <2>5. ASSUME NEW i \in 1 .. s + 1
        PROVE  /\ at2[i] <= at2[i - 1] + Len(Code(i)')
               /\ i < s + 1 \/ ending' \in {"open", "finished"} => at2[i] = at2[i - 1] + Len(Code(i)')
               /\ \A k \in 1 .. at2[i] - at2[i - 1] : all2[at2[i - 1] + k] = Code(i)'[k]
    <3>1. CASE i <= s
      <4>1. i \in 1 .. s /\ i \in 0 .. s /\ i - 1 \in 0 .. s
        BY <1>1, <3>1
      <4>2. at2[i] = at2[i - 1] + Len(Code(i)')
        BY <2>2, <4>1
      <4>6. i \in 0 .. s + 1
        BY <1>1, <4>1
      <4>7. at2[i] \in Nat
        BY <1>8, <4>6
      <4>3. at2[i] \in Nat /\ at2[i] <= at2[i]
        BY <4>7
      <4>4. \A k \in 1 .. at2[i] - at2[i - 1] : all2[at2[i - 1] + k] = Code(i)'[k]
        BY <2>2, <4>1
      <4>5. at2[i] <= at2[i - 1] + Len(Code(i)')
        BY <4>2, <4>3
      <4> QED
        BY <4>2, <4>4, <4>5
    <3>2. CASE i = s + 1
      <4>1. i - 1 = s /\ ~(i < s + 1) /\ ending' \in {"open", "cut"} /\ Code(i)' = e
        BY <1>1, <1>10, <3>2
      <4>2. at2[i] = at2[s + 1] /\ at2[i - 1] = at2[s]
        BY <3>2, <4>1
      <4> HIDE DEF L
      <4>3. at2[i] <= at2[i - 1] + Len(Code(i)')
        BY <2>3, <4>1, <4>2
      <4>4. i < s + 1 \/ ending' \in {"open", "finished"} => at2[i] = at2[i - 1] + Len(Code(i)')
        BY <2>3, <4>1, <4>2
      <4>5. \A k \in 1 .. at2[i] - at2[i - 1] : all2[at2[i - 1] + k] = Code(i)'[k]
        BY <2>3, <2>4, <4>1, <4>2
      <4> QED
        BY <4>3, <4>4, <4>5
    <3> QED
      BY <1>1, <3>1, <3>2
  <2>6. at2[0] = 0
    BY <1>1, <1>2, <1>8
  <2> QED
    BY <1>7, <1>8, <1>9, <2>1, <2>5, <2>6 DEF History
<1>13. Reading(all2, at2)'
  <2>1. g <= s
    BY DEF Reading
  <2>2. at2[g] = at[g] /\ Place(at2)' = Place(at) /\ at[g] \in Nat
    BY <1>1, <1>2, <1>8, <2>1 DEF Place
  <2>3. Place(at) \in Nat /\ Place(at) + Len(stream) = L
    BY <1>1, <2>2 DEF Place, Reading
  <2>4. Place(at) + Len(stream') = Len(all2)
    <3>1. Len(stream') = Len(stream) + n /\ Len(all2) = L + n
      BY <1>7, <1>11
    <3>2. Len(stream) \in Nat /\ n \in Nat
      BY <1>1, <1>3
    <3> HIDE DEF L
    <3> QED
      BY <3>1, <3>2, <2>3
  <2>5. \A k \in 1 .. Len(stream') : stream'[k] = all2[Place(at) + k]
    <3> TAKE k \in 1 .. Len(stream')
    <3>1. CASE k <= Len(stream)
      <4>1. k \in 1 .. Len(stream)
        BY <1>1, <1>3, <1>11, <3>1
      <4>2. stream'[k] = stream[k] /\ stream[k] = all[Place(at) + k]
        BY <1>11, <3>1, <4>1 DEF Reading
      <4>3. Place(at) + k \in 1 .. L
        <5> HIDE DEF L
        <5> QED
          BY <1>1, <1>2, <2>3, <4>1
      <4> QED
        BY <1>7, <4>2, <4>3
    <3>2. CASE ~(k <= Len(stream))
      <4>1. PICK j \in 1 .. n : k = Len(stream) + j
        <5>1. k - Len(stream) \in 1 .. n /\ k = Len(stream) + (k - Len(stream))
          BY <1>1, <1>3, <1>11, <3>2
        <5> QED
          BY <5>1
      <4>2. stream'[k] = c[j]
        BY <1>11, <4>1
      <4>3. all2[L + j] = c[j]
        BY <1>7, <4>1
      <4>4. L + j = Place(at) + k
        <5>1. Place(at) \in Nat /\ Len(stream) \in Nat /\ j \in Nat /\ L = Place(at) + Len(stream)
          BY <1>1, <1>3, <2>3
        <5> HIDE DEF L
        <5> QED
          BY <4>1, <5>1
      <4> QED
        BY <4>2, <4>3, <4>4
    <3> QED
      BY <3>1, <3>2
  <2>6. /\ Place(at) <= at2[g + 1]
        /\ \A k \in 1 .. Len(buf) : buf[k] = Code(g + 1)'[k]
    <3>1. CASE g < s
      <4>1. g + 1 \in 0 .. s /\ g + 1 \in 1 .. s
        BY <1>1, <3>1
      <4>2. at2[g + 1] = at[g + 1] /\ Code(g + 1)' = Code(g + 1)
        BY <1>8, <1>10, <4>1
      <4> QED
        BY <3>1, <4>2 DEF Reading
    <3>2. CASE g = s
      <4>1. buf = << >> /\ Len(buf) = 0
        BY <3>2 DEF Reading
      <4>2. Place(at) = L /\ at2[g + 1] = L + n
        BY <1>2, <1>8, <3>2, <4>1 DEF Place
      <4> HIDE DEF L
      <4>3. L <= L + n
        BY <1>2, <1>3
      <4> QED
        BY <4>1, <4>2, <4>3
    <3> QED
      BY <1>1, <2>1, <3>1, <3>2
  <2>7. g <= s + 1 /\ g # s + 1
    BY <1>1, <2>1
  <2>8. Place(at) + Len(stream') <= Len(all2)
    BY <1>1, <1>3, <1>11, <2>3, <2>4
  <2> QED
    BY <1>9, <2>2, <2>4, <2>5, <2>6, <2>7, <2>8 DEF Reading
<1> QED
  BY <1>11, <1>12, <1>13

LEMMA FrameTypeOK == FrameInv => M!TypeOK /\ M!MessagesAsWritten
<1> SUFFICES ASSUME FrameInv PROVE M!TypeOK
  BY DEF FrameInv
<1>1. Len(got) <= Len(sent) /\ Len(sent) <= Messages /\ Messages \in Nat
  BY DEF FrameInv, M!MessagesAsWritten, FrameTyped, M!LimitAssumption
<1>2. Len(got) \in Nat /\ Len(sent) \in Nat
  BY LengthsAre DEF FrameInv
<1>3. Len(got) <= Messages
  BY <1>1, <1>2
<1> QED
  BY <1>1, <1>3 DEF M!TypeOK, FrameInv, FrameTyped

\* What is read stays as written, whatever else the writer does.
LEMMA WriterKeepsIt ==
  ASSUME FrameTyped, FrameTyped', M!MessagesAsWritten, Settled,
         UNCHANGED <<proto, buf, got, result>>,
         sent' = sent \/ (ending = "open" /\ \E b \in Writings : sent' = Append(sent, b)),
         ending' = ending \/ ending = "open" \/ ending' = "reset"
  PROVE  M!MessagesAsWritten' /\ Settled'
<1>1. Len(sent) \in Nat /\ Len(got) \in Nat /\ DOMAIN got = 1 .. Len(got) /\ Len(got) <= Len(sent)
        /\ sent \in Seq(Writings)
  BY LengthsAre DEF M!MessagesAsWritten, FrameTyped
<1>2. Len(sent') \in Nat /\ Len(sent) <= Len(sent') /\ \A i \in 1 .. Len(sent) : sent'[i] = sent[i]
  <2>1. CASE sent' = sent
    BY <2>1, <1>1
  <2>2. CASE \E b \in Writings : sent' = Append(sent, b)
    <3>1. PICK b \in Writings : sent' = Append(sent, b)
      BY <2>2
    <3>2. Len(sent') = Len(sent) + 1 /\ \A i \in 1 .. Len(sent) : sent'[i] = sent[i]
      BY <3>1, <1>1, AppendProperties
    <3> QED
      BY <3>2, <1>1
  <2> QED
    BY <2>1, <2>2
<1>3. result = "end" => ending # "open" /\ sent' = sent /\ (ending' = ending \/ ending' = "reset")
  BY DEF Settled
<1>4. \A i \in DOMAIN got : i \in 1 .. Len(sent) /\ sent'[i] = sent[i]
  BY <1>1, <1>2
<1>5. ASSUME NEW i \in DOMAIN got'
      PROVE  /\ \/ got'[i] = sent'[i]
                \/ ~M!Framed' /\ result' = "end" /\ i = Len(sent') /\ M!IsPrefix(got'[i], sent'[i])
             /\ Len(got'[i]) <= M!Limit(proto', i) + (IF M!Framed' THEN 0 ELSE Buffer - 1)
  <2>1. /\ \/ got[i] = sent[i]
           \/ ~M!Framed /\ result = "end" /\ i = Len(sent) /\ M!IsPrefix(got[i], sent[i])
        /\ Len(got[i]) <= M!Limit(proto, i) + (IF M!Framed THEN 0 ELSE Buffer - 1)
    BY DEF M!MessagesAsWritten
  <2> QED
    BY <2>1, <1>3, <1>4 DEF M!Framed
<1>6. result \in {"too large", "malformed"} =>
         Len(got) + 1 \in 1 .. Len(sent) /\ sent'[Len(got) + 1] = sent[Len(got) + 1]
           /\ Len(got) < Len(sent')
  <2> SUFFICES ASSUME Len(got) < Len(sent)
               PROVE  Len(got) + 1 \in 1 .. Len(sent) /\ Len(got) < Len(sent')
    BY <1>2 DEF Settled
  <2>1. Len(got) + 1 \in 1 .. Len(sent)
    BY <1>1
  <2>2. Len(got) < Len(sent')
    BY <1>1, <1>2
  <2> QED
    BY <2>1, <2>2
<1>7. /\ result' = "too large" => Len(sent'[Len(got') + 1]) > M!Cap'
      /\ result' = "malformed" => M!Malformed(sent'[Len(got') + 1])
  BY <1>6 DEF M!MessagesAsWritten, M!Cap
<1>8. result' = "end" => Len(got') >= Len(sent') - (IF ending' = "finished" THEN 0 ELSE 1)
  <2> SUFFICES ASSUME result = "end"
               PROVE  Len(got) >= Len(sent) - (IF ending' = "finished" THEN 0 ELSE 1)
    BY <1>3
  <2>1. Len(got) >= Len(sent) - (IF ending = "finished" THEN 0 ELSE 1)
    BY DEF M!MessagesAsWritten
  <2> QED
    BY <1>1, <1>3, <2>1
<1>9. M!Framed' => Len(buf') <= M!Prefix + M!Cap'
  BY DEF M!MessagesAsWritten, M!Framed, M!Cap
<1>10. Len(got') <= Len(sent')
  BY <1>1, <1>2
<1>11. Settled'
  BY <1>3, <1>6 DEF Settled
<1> QED
  BY <1>5, <1>7, <1>8, <1>9, <1>10, <1>11 DEF M!MessagesAsWritten

LEMMA BodiesAreTyped ==
  ASSUME M!LimitAssumption, NEW body \in M!Bodies
  PROVE  body \in Seq(Digit)
<1>1. PICK n \in Lengths, t \in M!Tags, c \in {0, 1} : body = [i \in 1 .. n |-> IF i = 1 THEN t ELSE c]
  BY DEF M!Bodies
<1>2. n \in Nat /\ t \in Digit /\ c \in Digit
  BY <1>1 DEF M!LimitAssumption, M!Tags, Digit
<1>3. body \in [1 .. n -> Digit]
  BY <1>1, <1>2
<1> QED
  BY <1>2, <1>3, SeqDef

LEMMA WritesKeep ==
  ASSUME FrameInv, NEW body \in M!Bodies, M!Write(body) \/ \E n \in 0 .. Len(body) + M!Prefix : M!Cut(body, n)
  PROVE  FrameInv'
<1>1. M!LimitAssumption /\ FrameTyped /\ M!MessagesAsWritten /\ Settled
  BY DEF FrameInv
<1> PICK e : e = M!Encode(proto, body)
  OBVIOUS
<1>2. ending = "open" /\ body \in Writings /\ Len(sent) < Messages
        /\ sent' = Append(sent, body) /\ UNCHANGED <<proto, buf, got, result>>
  BY <1>1, BodiesAreTyped DEF M!Write, M!Cut, Writings
<1>3. e \in Seq(Byte) /\ Len(e) \in Nat
  <2>1. e \in Seq(Byte)
    BY <1>1, <1>2, EncodeIs DEF FrameTyped
  <2> QED
    BY <2>1, LenProperties
<1>4. PICK n \in 0 .. Len(e) :
        /\ stream' = stream \o SubSeq(e, 1, n)
        /\ (ending' = "open" /\ n = Len(e)) \/ ending' = "cut"
  <2>1. CASE M!Write(body)
    <3>1. SubSeq(e, 1, Len(e)) = e /\ Len(e) \in 0 .. Len(e)
      BY <1>3, SubSeqFull
    <3>2. stream' = stream \o e /\ ending' = "open"
      BY <2>1, <1>2 DEF M!Write
    <3> QED
      BY <3>1, <3>2
  <2>2. CASE \E n \in 0 .. Len(body) + M!Prefix : M!Cut(body, n)
    <3>1. PICK n \in 0 .. Len(body) + M!Prefix : M!Cut(body, n)
      BY <2>2
    <3>2. n < Len(e) /\ stream' = stream \o SubSeq(e, 1, n) /\ ending' = "cut"
      BY <3>1 DEF M!Cut
    <3>3. n \in 0 .. Len(e)
      BY <3>2, <1>3
    <3> QED
      BY <3>2, <3>3
  <2> QED
    BY <2>1, <2>2
<1>5. FrameTyped'
  <2>1. sent' \in Seq(Writings) /\ Len(sent') = Len(sent) + 1 /\ Len(sent) \in Nat
    BY <1>1, <1>2, AppendProperties, LengthsAre DEF FrameTyped
  <2>2. Len(sent') <= Messages
    BY <2>1, <1>1, <1>2 DEF M!LimitAssumption
  <2>3. stream' \in Seq(Byte)
    <3>1. SubSeq(e, 0 + 1, n) \in Seq(Byte)
      BY <1>3, Part
    <3>2. stream \in Seq(Byte)
      BY <1>1 DEF FrameTyped
    <3> QED
      BY <1>4, <3>1, <3>2, ConcatProperties
  <2> QED
    BY <1>1, <1>2, <1>4, <2>1, <2>2, <2>3 DEF FrameTyped, Writings
<1>6. M!MessagesAsWritten' /\ Settled'
  BY <1>1, <1>2, <1>5, WriterKeepsIt
<1>7. ASSUME result' = "reading"
      PROVE  Lined' /\ \E all, at : History(all, at)' /\ Reading(all, at)'
  <2>1. PICK all, at : History(all, at) /\ Reading(all, at)
    BY <1>2, <1>7 DEF FrameInv
  <2>2. Lined'
    BY <1>2, <1>7 DEF FrameInv, Lined, M!Framed, M!Cap
  <2> QED
    BY <1>1, <1>2, <1>4, <2>1, <2>2, Extends
<1> QED
  BY <1>1, <1>5, <1>6, <1>7 DEF FrameInv

LEMMA FinishKeeps ==
  ASSUME FrameInv, M!Finish
  PROVE  FrameInv'
<1>1. M!LimitAssumption /\ FrameTyped /\ M!MessagesAsWritten /\ Settled
  BY DEF FrameInv
<1>2. ending = "open" /\ ending' = "finished" /\ UNCHANGED <<proto, sent, stream, buf, got, result>>
  BY DEF M!Finish
<1>3. FrameTyped'
  BY <1>1, <1>2 DEF FrameTyped, Writings
<1>4. M!MessagesAsWritten' /\ Settled'
  BY <1>1, <1>2, <1>3, WriterKeepsIt
<1>5. ASSUME result' = "reading"
      PROVE  Lined' /\ \E all, at : History(all, at)' /\ Reading(all, at)'
  <2>1. PICK all, at : History(all, at) /\ Reading(all, at)
    BY <1>2, <1>5 DEF FrameInv
  <2>2. Lined'
    BY <1>2, <1>5 DEF FrameInv, Lined, M!Framed, M!Cap
  <2>3. History(all, at)'
    BY <1>2, <2>1 DEF History, Code
  <2>4. Reading(all, at)'
    BY <1>2, <2>1 DEF Reading, Place, Code
  <2> QED
    BY <2>2, <2>3, <2>4
<1> QED
  BY <1>1, <1>3, <1>4, <1>5 DEF FrameInv

LEMMA ResetKeeps ==
  ASSUME FrameInv, M!Reset
  PROVE  FrameInv'
<1>1. M!LimitAssumption /\ FrameTyped /\ M!MessagesAsWritten /\ Settled
  BY DEF FrameInv
<1>2. ending' = "reset" /\ stream' = << >> /\ UNCHANGED <<proto, sent, buf, got, result>>
  BY DEF M!Reset
<1>3. FrameTyped'
  BY <1>1, <1>2, EmptySeq DEF FrameTyped, Writings
<1>4. M!MessagesAsWritten' /\ Settled'
  BY <1>1, <1>2, <1>3, WriterKeepsIt
<1>5. ASSUME result' = "reading"
      PROVE  Lined' /\ \E all, at : History(all, at)' /\ Reading(all, at)'
  <2>1. PICK all, at : History(all, at) /\ Reading(all, at)
    BY <1>2, <1>5 DEF FrameInv
  <2>2. Lined'
    BY <1>2, <1>5 DEF FrameInv, Lined, M!Framed, M!Cap
  <2>3. History(all, at)'
    BY <1>2, <2>1 DEF History, Code
  <2>4. Reading(all, at)'
    <3>1. Len(stream') = 0 /\ Place(at)' = Place(at)
      BY <1>2 DEF Place
    <3>2. Place(at) \in Nat /\ Len(all) \in Nat /\ Len(stream) \in Nat
      <4>1. Len(got) \in 0 .. Len(sent) /\ Len(buf) \in Nat /\ Len(stream) \in Nat
        <5>1. Len(got) <= Len(sent)
          BY <2>1 DEF Reading
        <5>2. Len(got) \in Nat /\ Len(sent) \in Nat /\ Len(buf) \in Nat /\ Len(stream) \in Nat
          BY <1>1, LengthsAre
        <5> QED
          BY <5>1, <5>2
      <4>2. at[Len(got)] \in Nat /\ Len(all) \in Nat
        BY <2>1, <4>1, LenProperties DEF History
      <4> QED
        BY <4>1, <4>2 DEF Place
    <3>3. Place(at) + Len(stream') <= Len(all)
      BY <2>1, <3>1, <3>2 DEF Reading
    <3> QED
      BY <1>2, <2>1, <3>1, <3>3 DEF Reading, Code
  <2> QED
    BY <2>2, <2>3, <2>4
<1> QED
  BY <1>1, <1>3, <1>4, <1>5 DEF FrameInv

-----------------------------------------------------------------------------
(* The reader's steps. *)

\* It stops, with cause.
LEMMA StopKeeps ==
  ASSUME FrameInv, NEW why, M!Stop(why), result = "reading", why # "reading",
         why = "too large" => Len(got) < Len(sent) /\ Len(sent[Len(got) + 1]) > M!Cap,
         why = "malformed" => Len(got) < Len(sent) /\ M!Malformed(sent[Len(got) + 1]),
         why = "end" => /\ ending # "open"
                        /\ Len(got) >= Len(sent) - (IF ending = "finished" THEN 0 ELSE 1)
  PROVE  FrameInv'
<1>1. M!LimitAssumption /\ FrameTyped /\ M!MessagesAsWritten /\ Settled
  BY DEF FrameInv
<1>2. result' = why /\ UNCHANGED <<proto, sent, stream, ending, buf, got>>
  BY DEF M!Stop
<1>3. FrameTyped'
  BY <1>1, <1>2 DEF FrameTyped, Writings
<1>4. Settled'
  BY <1>2 DEF Settled
<1>5. \A i \in DOMAIN got : /\ got[i] = sent[i]
                            /\ Len(got[i]) <= M!Limit(proto, i) + (IF M!Framed THEN 0 ELSE Buffer - 1)
  BY <1>1 DEF M!MessagesAsWritten
<1>6. \A i \in DOMAIN got' :
        /\ \/ got'[i] = sent'[i]
           \/ ~M!Framed' /\ result' = "end" /\ i = Len(sent') /\ M!IsPrefix(got'[i], sent'[i])
        /\ Len(got'[i]) <= M!Limit(proto', i) + (IF M!Framed' THEN 0 ELSE Buffer - 1)
  BY <1>2, <1>5 DEF M!Framed
<1>7. Len(got') <= Len(sent') /\ (M!Framed' => Len(buf') <= M!Prefix + M!Cap')
  BY <1>1, <1>2 DEF M!MessagesAsWritten, M!Framed, M!Cap
<1>8. M!MessagesAsWritten'
  BY <1>2, <1>6, <1>7 DEF M!MessagesAsWritten, M!Cap
<1> QED
  BY <1>1, <1>2, <1>3, <1>4, <1>8 DEF FrameInv

\* It has read x, and what was written is x, or begins with it when it ended there.
LEMMA GotOneMore ==
  ASSUME M!LimitAssumption, FrameTyped, M!MessagesAsWritten, Settled, result = "reading",
         Len(got) < Len(sent),
         NEW x, got' = Append(got, x), x \in Seq(Byte), buf' = << >>,
         UNCHANGED <<proto, sent, ending>>,
         Len(x) <= M!Cap + (IF M!Framed THEN 0 ELSE Buffer - 1),
         \/ result' = "reading" /\ x = sent[Len(got) + 1]
         \/ /\ ~M!Framed /\ result' = "end" /\ ending = "cut" /\ Len(got) + 1 = Len(sent)
            /\ M!IsPrefix(x, sent[Len(got) + 1])
  PROVE  M!MessagesAsWritten' /\ Settled'
<1> PICK g : g = Len(got)
  OBVIOUS
<1>1. g \in Nat /\ Len(sent) \in Nat /\ DOMAIN got = 1 .. g /\ got \in Seq(Seq(Byte))
  BY LengthsAre DEF FrameTyped
<1>2. got' \in Seq(Seq(Byte)) /\ Len(got') = g + 1 /\ got'[g + 1] = x
        /\ \A i \in 1 .. g : got'[i] = got[i]
  BY <1>1, AppendProperties
<1>3. DOMAIN got' = 1 .. g + 1
  BY <1>2, LenProperties
<1>4. \A i \in DOMAIN got : /\ got[i] = sent[i]
                            /\ Len(got[i]) <= M!Limit(proto, i) + (IF M!Framed THEN 0 ELSE Buffer - 1)
  BY DEF M!MessagesAsWritten
<1>5. ASSUME NEW i \in DOMAIN got'
      PROVE  /\ \/ got'[i] = sent'[i]
                \/ ~M!Framed' /\ result' = "end" /\ i = Len(sent') /\ M!IsPrefix(got'[i], sent'[i])
             /\ Len(got'[i]) <= M!Limit(proto', i) + (IF M!Framed' THEN 0 ELSE Buffer - 1)
  <2>1. CASE i \in 1 .. g
    BY <1>1, <1>2, <1>4, <2>1 DEF M!Framed
  <2>2. CASE i = g + 1
    BY <1>1, <1>2, <2>2 DEF M!Framed, M!Cap
  <2> QED
    BY <1>1, <1>3, <2>1, <2>2
<1>6. Len(got') <= Len(sent')
  BY <1>1, <1>2
<1>7. M!Framed' => Len(buf') <= M!Prefix + M!Cap'
  <2>1. M!Cap' = M!Limit(proto, g + 2)
    <3>1. (g + 1) + 1 = g + 2
      BY <1>1
    <3> QED
      BY <1>2, <3>1 DEF M!Cap
  <2>2. M!Cap' \in Nat
    <3>1. g + 2 \in Nat \ {0} /\ proto \in M!Protocols
      BY <1>1 DEF FrameTyped
    <3> QED
      BY <2>1, <3>1, LimitsAre
  <2>3. Len(buf') = 0
    OBVIOUS
  <2>5. \A c \in Nat : 0 <= M!Prefix + c
    BY DEF M!Prefix
  <2>4. 0 <= M!Prefix + M!Cap'
    BY <2>2, <2>5
  <2> QED
    BY <2>3, <2>4
<1>8. result' = "end" => Len(got') >= Len(sent') - (IF ending' = "finished" THEN 0 ELSE 1)
  BY <1>1, <1>2
<1>9. Settled'
  BY DEF Settled
<1> QED
  BY <1>5, <1>6, <1>7, <1>8, <1>9 DEF M!MessagesAsWritten

LEMMA ReadKeeps ==
  ASSUME FrameInv, NEW n \in 1 .. Len(stream), M!Read(n)
  PROVE  FrameInv'
<1>1. M!LimitAssumption /\ FrameTyped /\ M!MessagesAsWritten /\ Settled
  BY DEF FrameInv
<1>2. /\ M!Framed /\ result = "reading" /\ ~M!Whole(buf) /\ ~M!TooLarge /\ n <= M!Wanted
      /\ buf' = buf \o SubSeq(stream, 1, n) /\ stream' = SubSeq(stream, n + 1, Len(stream))
      /\ UNCHANGED <<proto, sent, ending, got, result>>
  BY DEF M!Read
<1>3. PICK all, at : History(all, at) /\ Reading(all, at)
  BY <1>2 DEF FrameInv
<1> PICK g : g = Len(got)
  OBVIOUS
<1>4. Len(stream) \in Nat /\ Len(buf) \in Nat /\ g \in Nat /\ Len(sent) \in Nat /\ n \in Nat
        /\ buf \in Seq(Byte)
  BY <1>1, LengthsAre DEF FrameTyped
<1>5. g < Len(sent) /\ g + 1 \in 1 .. Len(sent)
  <2>1. Len(stream) > 0
    BY <1>4
  <2> QED
    BY <1>1, <1>3, <2>1, ThereIsANext
<1>6. Len(sent[g + 1]) \in Nat /\ Len(Code(g + 1)) = Len(sent[g + 1]) + M!Prefix
  <2>1. /\ Len(sent[g + 1]) \in Nat
        /\ Len(Code(g + 1)) = Len(sent[g + 1]) + Extra(proto)
    BY <1>1, <1>5, CodeIs
  <2> QED
    BY <1>2, <2>1 DEF Extra, M!Framed
<1>7. M!Cap \in Nat
  <2>1. g + 1 \in Nat \ {0} /\ proto \in M!Protocols
    BY <1>1, <1>4 DEF FrameTyped
  <2> QED
    BY <1>1, <2>1, LimitsAre DEF M!Cap
<1>8. /\ Len(buf) + n <= Len(Code(g + 1))
      /\ Len(buf) + n <= M!Prefix + M!Cap
  <2>1. CASE M!HasPrefix(buf)
    <3>1. M!PrefixLen(buf) = Len(sent[g + 1])
      BY <1>1, <1>2, <1>3, <2>1, PrefixLenIs
    <3>5. ~(M!PrefixLen(buf) > M!Cap)
      BY <1>2, <2>1 DEF M!TooLarge
    <3>2. M!PrefixLen(buf) \in Nat /\ Len(buf) \in Nat /\ n \in Nat /\ n <= M!Wanted
      BY <1>2, <1>4, <1>6, <3>1
    <3>3. n <= M!Prefix + M!PrefixLen(buf) - Len(buf)
      BY <2>1, <3>2 DEF M!Wanted, M!Prefix
    <3>4. Len(sent[g + 1]) <= M!Cap /\ n <= M!Prefix + Len(sent[g + 1]) - Len(buf)
      BY <1>6, <1>7, <3>1, <3>3, <3>5
    <3> QED
      BY <1>4, <1>6, <1>7, <3>4 DEF M!Prefix
  <2>2. CASE ~M!HasPrefix(buf)
    <3>1. n <= M!Prefix - Len(buf)
      BY <1>2, <2>2 DEF M!Wanted
    <3> QED
      BY <1>4, <1>6, <1>7, <3>1 DEF M!Prefix
  <2> QED
    BY <2>1, <2>2
<1>9. Place(at) + n <= at[g + 1]
  <2>1. n \in 0 .. Len(stream)
    BY <1>4
  <2> QED
    BY <1>1, <1>3, <1>5, <1>8, <2>1, StaysWithin
<1>10. FrameTyped' /\ History(all, at)' /\ Reading(all, at)' /\ Len(buf') = Len(buf) + n
  BY <1>1, <1>2, <1>3, <1>5, <1>9, Takes
<1>11. Settled' /\ Lined'
  BY <1>1, <1>2 DEF Settled, Lined, M!Framed
<1>12. M!Framed' => Len(buf') <= M!Prefix + M!Cap'
  BY <1>2, <1>8, <1>10 DEF M!Cap, M!Framed
<1>13. M!MessagesAsWritten'
  BY <1>1, <1>2, <1>12 DEF M!MessagesAsWritten, M!Cap, M!Framed
<1> QED
  BY <1>1, <1>10, <1>11, <1>13 DEF FrameInv

LEMMA RefuseKeeps ==
  ASSUME FrameInv, M!Refuse
  PROVE  FrameInv'
<1>1. M!LimitAssumption /\ FrameTyped /\ result = "reading" /\ M!TooLarge /\ M!Stop("too large")
  BY DEF FrameInv, M!Refuse
<1>2. PICK all, at : History(all, at) /\ Reading(all, at)
  BY <1>1 DEF FrameInv
<1>3. M!Framed /\ M!HasPrefix(buf) /\ M!PrefixLen(buf) > M!Cap
  BY <1>1 DEF M!TooLarge
<1>4. Len(got) < Len(sent) /\ M!PrefixLen(buf) = Len(sent[Len(got) + 1])
  BY <1>1, <1>2, <1>3, PrefixLenIs
<1> QED
  BY <1>1, <1>3, <1>4, StopKeeps

LEMMA DecodeKeeps ==
  ASSUME FrameInv, M!Decode
  PROVE  FrameInv'
<1>1. M!LimitAssumption /\ FrameTyped /\ M!MessagesAsWritten /\ Settled
  BY DEF FrameInv
<1>2. M!Framed /\ result = "reading" /\ M!Whole(buf) /\ ~M!TooLarge
  BY DEF M!Decode
<1>3. PICK all, at : History(all, at) /\ Reading(all, at)
  BY <1>2 DEF FrameInv
<1> PICK g : g = Len(got)
  OBVIOUS
<1> DEFINE m == sent[g + 1]
<1>4. Len(buf) \in Nat /\ g \in Nat /\ Len(sent) \in Nat /\ buf \in Seq(Byte) /\ Len(stream) \in Nat
  BY <1>1, LengthsAre DEF FrameTyped
<1>5. g < Len(sent) /\ M!PrefixLen(buf) = Len(m) /\ M!HasPrefix(buf)
  <2>1. M!HasPrefix(buf)
    BY <1>2 DEF M!Whole
  <2> QED
    BY <1>1, <1>2, <1>3, <2>1, PrefixLenIs
<1>6. g + 1 \in 1 .. Len(sent)
  BY <1>4, <1>5
<1>7. /\ m \in Seq(Digit) /\ Len(m) \in Nat /\ Len(Code(g + 1)) = Len(m) + 3
      /\ \A k \in 1 .. Len(m) : Code(g + 1)[3 + k] = m[k]
  <2>1. /\ m \in Seq(Digit) /\ Len(m) \in Nat /\ Len(Code(g + 1)) = Len(m) + Extra(proto)
        /\ \A k \in 1 .. Len(m) : Code(g + 1)[M!Prefix + k] = m[k]
    BY <1>1, <1>2, <1>6, CodeIs
  <2> QED
    BY <1>2, <2>1 DEF Extra, M!Framed, M!Prefix
<1>8. /\ at[g] \in Nat /\ at[g + 1] \in Nat /\ at[g + 1] <= at[g] + (Len(m) + 3)
      /\ Place(at) = at[g] + Len(buf) /\ Place(at) <= at[g + 1]
      /\ \A k \in 1 .. Len(buf) : buf[k] = Code(g + 1)[k]
  <2>1. at[g] \in Nat /\ at[g + 1] \in Nat /\ at[g + 1] <= at[g] + Len(Code(g + 1))
    BY <1>1, <1>3, <1>5, NextAt
  <2> QED
    BY <1>3, <1>5, <1>7, <2>1 DEF Reading, Place
<1>9. Len(buf) >= 3 + Len(m)
  BY <1>2, <1>5 DEF M!Whole, M!Prefix
<1>10. Len(buf) = Len(m) + 3 /\ Place(at) = at[g + 1]
  <2>1. Len(m) \in Nat /\ Len(buf) \in Nat /\ at[g] \in Nat /\ at[g + 1] \in Nat
    BY <1>4, <1>7, <1>8
  <2>2. at[g] + Len(buf) <= at[g + 1] /\ at[g + 1] <= at[g] + (Len(m) + 3)
    BY <1>8
  <2> HIDE DEF m
  <2>3. Len(buf) = Len(m) + 3
    BY <1>9, <2>1, <2>2
  <2> QED
    BY <1>8, <2>1, <2>2, <2>3
<1>11. M!Body(buf) = m
  <2> PICK b : b = M!Body(buf)
    OBVIOUS
  <2>1. b = SubSeq(buf, M!Prefix + 1, Len(buf))
    BY DEF M!Body
  <2>2. M!Prefix \in Nat /\ M!Prefix <= Len(buf) /\ Len(buf) <= Len(buf)
    BY <1>4, <1>7, <1>9 DEF M!Prefix
  <2>8. /\ b \in Seq(Byte) /\ Len(b) = Len(buf) - M!Prefix
        /\ \A k \in 1 .. Len(buf) - M!Prefix : b[k] = buf[M!Prefix + k]
    BY <1>4, <2>1, <2>2, Part
  <2>3. /\ b \in Seq(Byte) /\ Len(b) = Len(buf) - 3
        /\ \A k \in 1 .. Len(buf) - 3 : b[k] = buf[3 + k]
    BY <2>8 DEF M!Prefix
  <2>4. Len(b) = Len(m)
    BY <1>4, <1>7, <1>10, <2>3
  <2>5. \A k \in 1 .. Len(b) : b[k] = m[k]
    <3> TAKE k \in 1 .. Len(b)
    <3>1. k \in 1 .. Len(m) /\ k \in 1 .. Len(buf) - 3 /\ 3 + k \in 1 .. Len(buf)
      <4>1. Len(m) \in Nat /\ Len(b) = Len(m) /\ Len(buf) = Len(m) + 3
        BY <1>7, <1>10, <2>4
      <4> HIDE DEF m
      <4> QED
        BY <4>1
    <3> QED
      BY <1>7, <1>8, <2>3, <3>1
  <2>6. m \in Seq(Byte)
    BY <1>7, SeqMonotonic DEF Digit, Byte
  <2>7. b = m
    <3> HIDE DEF m
    <3> QED
      BY <2>3, <2>4, <2>5, <2>6, SeqEqual
  <2> QED
    BY <2>7
<1>12. CASE M!Malformed(m)
  <2>1. M!Stop("malformed")
    BY <1>11, <1>12 DEF M!Decode
  <2> QED
    BY <1>2, <1>5, <1>12, <2>1, StopKeeps
<1>13. CASE ~M!Malformed(m)
  <2>1. got' = Append(got, m) /\ buf' = << >> /\ UNCHANGED <<proto, sent, stream, ending, result>>
    BY <1>11, <1>13 DEF M!Decode
  <2>2. Len(m) <= M!Cap
    <3>1. ~(M!PrefixLen(buf) > M!Cap)
      BY <1>2, <1>5 DEF M!TooLarge
    <3>2. M!Cap \in Nat
      <4>1. g + 1 \in Nat \ {0} /\ proto \in M!Protocols
        BY <1>1, <1>4 DEF FrameTyped
      <4> QED
        BY <1>1, <4>1, LimitsAre DEF M!Cap
    <3> QED
      BY <1>5, <1>7, <3>1, <3>2
  <2>3. m \in Seq(Byte)
    BY <1>7, SeqMonotonic DEF Digit, Byte
  <2>4. Len(m) <= M!Cap + (IF M!Framed THEN 0 ELSE Buffer - 1)
    <3>1. M!Cap \in Nat
      <4>1. g + 1 \in Nat \ {0} /\ proto \in M!Protocols
        BY <1>1, <1>4 DEF FrameTyped
      <4> QED
        BY <1>1, <4>1, LimitsAre DEF M!Cap
    <3> QED
      BY <1>2, <2>2, <3>1
  <2>5. M!MessagesAsWritten' /\ Settled'
    BY <1>1, <1>2, <1>5, <2>1, <2>3, <2>4, GotOneMore
  <2>6. FrameTyped' /\ History(all, at)' /\ Reading(all, at)'
    <3>1. 0 \in 0 .. Len(stream) /\ Place(at) + 0 = at[g + 1] /\ Len(stream) - 0 = Len(stream)
            /\ \A k \in 1 .. Len(stream) : stream[0 + k] = stream[k]
      BY <1>4, <1>8, <1>10
    <3>2. stream' \in Seq(Byte) /\ Len(stream') = Len(stream) - 0
            /\ \A k \in 1 .. Len(stream) - 0 : stream'[k] = stream[0 + k]
      BY <1>1, <2>1, <3>1 DEF FrameTyped
    <3> QED
      BY <1>1, <1>3, <1>5, <2>1, <2>3, <3>1, <3>2, Delivers
  <2>7. Lined'
    BY <1>2, <2>1 DEF Lined, M!Framed
  <2> QED
    BY <1>1, <2>5, <2>6, <2>7 DEF FrameInv
<1> QED
  BY <1>12, <1>13

LEMMA EndsKeeps ==
  ASSUME FrameInv, M!Ends
  PROVE  FrameInv'
<1>1. M!LimitAssumption /\ FrameTyped /\ M!MessagesAsWritten /\ Settled
  BY DEF FrameInv
<1>2. M!Framed /\ result = "reading" /\ M!AtEnd /\ M!Stop(IF M!HasPrefix(buf) THEN "truncated" ELSE "end")
        /\ ~M!Whole(buf) /\ ending \in {"finished", "cut"} /\ stream = << >>
  BY DEF M!Ends, M!AtEnd
<1>3. CASE M!HasPrefix(buf)
  <2>1. M!Stop("truncated")
    BY <1>2, <1>3
  <2> QED
    BY <1>2, <2>1, StopKeeps
<1>4. CASE ~M!HasPrefix(buf)
  <2>1. M!Stop("end")
    BY <1>2, <1>4
  <2>2. PICK all, at : History(all, at) /\ Reading(all, at)
    BY <1>2 DEF FrameInv
  <2> PICK g : g = Len(got)
    OBVIOUS
  <2>3. Len(buf) \in Nat /\ g \in Nat /\ Len(sent) \in Nat /\ Len(stream) = 0 /\ g <= Len(sent)
    BY <1>1, <1>2, <2>2, LengthsAre DEF Reading
  <2>4. Len(buf) < 3
    BY <1>4, <2>3 DEF M!HasPrefix, M!Prefix
  <2>5. ASSUME g < Len(sent) PROVE g + 1 = Len(sent) /\ ending # "finished"
    <3>1. g + 1 \in 1 .. Len(sent)
      BY <2>3, <2>5
    <3>2. /\ at[g] \in Nat /\ at[g + 1] \in Nat /\ Len(all) \in Nat /\ at[g + 1] <= Len(all)
          /\ g + 1 < Len(sent) \/ ending \in {"open", "finished"} =>
               at[g + 1] = at[g] + Len(Code(g + 1))
      BY <1>1, <2>2, <2>5, NextAt
    <3>3. Len(Code(g + 1)) \in Nat /\ Len(Code(g + 1)) >= 3
      <4>1. Len(sent[g + 1]) \in Nat /\ Len(Code(g + 1)) = Len(sent[g + 1]) + Extra(proto)
        BY <1>1, <3>1, CodeIs
      <4> QED
        BY <1>2, <4>1 DEF Extra, M!Framed, M!Prefix
    <3>4. at[g] + Len(buf) = Len(all)
      <4>1. Place(at) + Len(stream) = Len(all)
        BY <1>2, <2>2 DEF Reading
      <4>2. Place(at) = at[g] + Len(buf)
        BY DEF Place
      <4> QED
        BY <2>3, <3>2, <4>1, <4>2
    <3>5. at[g + 1] # at[g] + Len(Code(g + 1))
      <4>1. at[g + 1] <= at[g] + Len(buf) /\ at[g] \in Nat /\ at[g + 1] \in Nat
        BY <3>2, <3>4
      <4> QED
        BY <2>3, <2>4, <3>3, <4>1
    <3>6. ~(g + 1 < Len(sent)) /\ ending \notin {"open", "finished"}
      BY <3>2, <3>5
    <3> QED
      BY <2>3, <2>5, <3>6
  <2>6. g >= Len(sent) - (IF ending = "finished" THEN 0 ELSE 1)
    BY <2>3, <2>5
  <2> QED
    BY <1>2, <2>1, <2>6, StopKeeps
<1> QED
  BY <1>3, <1>4

LEMMA FailsKeeps ==
  ASSUME FrameInv, M!Fails \/ M!TimesOut
  PROVE  FrameInv'
<1>1. result = "reading" /\ (M!Stop("lost") \/ M!Stop("timed out"))
  BY DEF M!Fails, M!TimesOut
<1>2. CASE M!Stop("lost")
  BY <1>1, <1>2, StopKeeps
<1>3. CASE M!Stop("timed out")
  BY <1>1, <1>3, StopKeeps
<1> QED
  BY <1>1, <1>2, <1>3

-----------------------------------------------------------------------------
(* Lines. *)

\* Min is of sets of numbers here.
LEMMA LeastIndex ==
  ASSUME NEW I \in SUBSET Nat, I # {}
  PROVE  M!Min(I) \in I /\ \A i \in I : M!Min(I) <= i
<1>1. \E x \in I : \A y \in I : x <= y
  <2> DEFINE R == OpToRel(<, Nat)
  <2>1. IsWellFoundedOn(R, Nat)
    BY NatLessThanWellFounded
  <2>2. PICK x \in I : \A y \in I : <<y, x>> \notin R
    <3> HIDE DEF R
    <3> QED
      BY <2>1, WFMin
  <2>3. \A y \in I : ~(y < x)
    BY <2>2 DEF OpToRel
  <2> QED
    BY <2>3
<1> QED
  BY <1>1 DEF M!Min

\* SelectInSeq finds the first newline there is.
LEMMA FirstNewLine ==
  ASSUME NEW s \in Seq(Byte), NEW j, j = M!SelectInSeq(s, LAMBDA b : b = M!NewLine)
  PROVE  \/ j = 0 /\ \A k \in 1 .. Len(s) : s[k] # M!NewLine
         \/ j \in 1 .. Len(s) /\ s[j] = M!NewLine /\ \A k \in 1 .. j - 1 : s[k] # M!NewLine
<1> DEFINE I == {k \in 1 .. Len(s) : s[k] = M!NewLine}
<1>1. j = IF I = {} THEN 0 ELSE M!Min(I)
  BY DEF M!SelectInSeq
<1>2. Len(s) \in Nat
  BY LenProperties
<1>3. CASE I = {}
  BY <1>1, <1>3
<1>4. CASE I # {}
  <2>1. I \in SUBSET Nat
    BY <1>2
  <2>2. j \in I /\ \A i \in I : j <= i
    <3> HIDE DEF I
    <3>1. j = M!Min(I)
      BY <1>1, <1>4
    <3>2. M!Min(I) \in I /\ \A i \in I : M!Min(I) <= i
      BY <1>4, <2>1, LeastIndex
    <3> QED
      BY <3>1, <3>2
  <2>3. \A k \in 1 .. j - 1 : s[k] # M!NewLine
    <3> TAKE k \in 1 .. j - 1
    <3>1. k \in 1 .. Len(s) /\ ~(j <= k)
      BY <1>2, <2>2
    <3> QED
      BY <2>2, <3>1
  <2> QED
    BY <2>2, <2>3
<1> QED
  BY <1>3, <1>4

\* Of the line being read, what is in hand has no newline; its code has one, last.
LEMMA LineIs ==
  ASSUME M!LimitAssumption, FrameTyped, ~M!Framed, NEW i \in 1 .. Len(sent)
  PROVE  /\ Len(sent[i]) \in Nat /\ Len(Code(i)) = Len(sent[i]) + 1 /\ sent[i] \in Seq(Byte)
         /\ \A k \in 1 .. Len(sent[i]) : Code(i)[k] = sent[i][k] /\ Code(i)[k] # M!NewLine
         /\ Code(i)[Len(sent[i]) + 1] = M!NewLine
<1>1. /\ sent[i] \in Seq(Digit) /\ Len(sent[i]) \in Nat
      /\ Len(Code(i)) = Len(sent[i]) + Extra(proto)
      /\ \A k \in 1 .. Len(sent[i]) : Code(i)[k] = sent[i][k]
      /\ Code(i)[Len(sent[i]) + 1] = M!NewLine
  BY CodeIs
<1>2. Extra(proto) = 1
  BY DEF Extra, M!Framed
<1>3. \A k \in 1 .. Len(sent[i]) : sent[i][k] \in Digit
  BY <1>1, ElementOfSeq
<1>4. sent[i] \in Seq(Byte)
  BY <1>1, SeqMonotonic DEF Digit, Byte
<1>5. \A k \in 1 .. Len(sent[i]) : Code(i)[k] # M!NewLine
  BY <1>1, <1>3 DEF Digit, M!NewLine
<1> QED
  BY <1>1, <1>2, <1>4, <1>5

\* A reader of lines with no newline before the n-th byte to come is still in its line.
LEMMA LineGoesOn ==
  ASSUME M!LimitAssumption, FrameTyped, ~M!Framed, Lined,
         NEW all, NEW at, History(all, at), Reading(all, at),
         Len(got) < Len(sent), NEW n \in 0 .. Len(stream),
         \A k \in 1 .. n - 1 : stream[k] # M!NewLine
  PROVE  /\ Len(buf) <= Len(sent[Len(got) + 1])
         /\ Place(at) + n <= at[Len(got) + 1]
<1> PICK g : g = Len(got)
  OBVIOUS
<1> DEFINE l == Len(sent[g + 1])
<1>1. Len(stream) \in Nat /\ Len(buf) \in Nat /\ g \in Nat /\ Len(sent) \in Nat /\ n \in Nat
        /\ g < Len(sent) /\ g + 1 \in 1 .. Len(sent)
  BY LengthsAre
<1>2. /\ l \in Nat /\ Len(Code(g + 1)) = l + 1
      /\ \A k \in 1 .. l : Code(g + 1)[k] # M!NewLine
      /\ Code(g + 1)[l + 1] = M!NewLine
  BY <1>1, LineIs
<1> HIDE DEF l
<1>3. /\ at[g] \in Nat /\ at[g + 1] \in Nat /\ at[g + 1] <= at[g] + (l + 1)
      /\ Place(at) = at[g] + Len(buf) /\ Place(at) <= at[g + 1]
      /\ \A k \in 1 .. Len(buf) : buf[k] = Code(g + 1)[k]
  <2>1. at[g] \in Nat /\ at[g + 1] \in Nat /\ at[g + 1] <= at[g] + Len(Code(g + 1))
    BY NextAt
  <2> QED
    BY <1>1, <1>2, <2>1 DEF Reading, Place
<1>4. Len(buf) <= l
  <2>1. Len(buf) <= l + 1
    <3>1. at[g] + Len(buf) <= at[g + 1] /\ at[g] \in Nat /\ at[g + 1] \in Nat
            /\ at[g + 1] <= at[g] + (l + 1)
      BY <1>3
    <3> QED
      BY <1>1, <1>2, <3>1
  <2>2. Len(buf) # l + 1
    <3> SUFFICES ASSUME Len(buf) = l + 1 PROVE FALSE
      OBVIOUS
    <3>1. l + 1 \in 1 .. Len(buf)
      BY <1>2
    <3>2. buf[l + 1] = M!NewLine
      BY <1>2, <1>3, <3>1
    <3> QED
      BY <3>1, <3>2 DEF Lined
  <2> QED
    BY <1>1, <1>2, <2>1, <2>2
<1>5. Len(buf) + n <= l + 1
  <2> SUFFICES ASSUME Len(buf) + n > l + 1 PROVE FALSE
    BY <1>1, <1>2
  <2> PICK m : m = l + 1 - Len(buf)
    OBVIOUS
  <2>1. m \in Nat /\ m >= 1 /\ m < n /\ Len(buf) + m = l + 1
    BY <1>1, <1>2, <1>4
  <2>2. m \in 0 .. Len(stream) /\ m \in 1 .. Len(stream) /\ m \in 1 .. n - 1
    BY <1>1, <2>1
  <2>3. Place(at) + m <= at[g + 1]
    <3>1. Len(buf) + m <= Len(Code(g + 1))
      BY <1>2, <2>1
    <3> QED
      BY <2>2, <3>1, StaysWithin
  <2>4. stream[m] = Code(g + 1)[Len(buf) + m]
    BY <2>2, <2>3, StreamIs
  <2>5. stream[m] = M!NewLine
    BY <1>2, <2>1, <2>4
  <2> QED
    BY <2>2, <2>5
<1>6. Place(at) + n <= at[g + 1]
  <2>1. Len(buf) + n <= Len(Code(g + 1))
    BY <1>2, <1>5
  <2> QED
    BY <2>1, StaysWithin
<1> QED
  BY <1>4, <1>6 DEF l

LEMMA ReadLineKeeps ==
  ASSUME FrameInv, NEW n \in 1 .. (IF Len(stream) < Buffer THEN Len(stream) ELSE Buffer), M!ReadLine(n)
  PROVE  FrameInv'
<1>1. M!LimitAssumption /\ FrameTyped /\ M!MessagesAsWritten /\ Settled
  BY DEF FrameInv
<1>2. ~M!Framed /\ result = "reading" /\ UNCHANGED <<proto, sent, ending>>
  BY DEF M!ReadLine
<1>3. Lined
  BY <1>2 DEF FrameInv
<1>4. PICK all, at : History(all, at) /\ Reading(all, at)
  BY <1>2 DEF FrameInv
<1> PICK g : g = Len(got)
  OBVIOUS
<1>15. PICK chunk : chunk = SubSeq(stream, 1, n)
  OBVIOUS
<1>16. PICK j : j = M!SelectInSeq(chunk, LAMBDA b : b = M!NewLine)
  OBVIOUS
<1>17. PICK m : m = sent[g + 1]
  OBVIOUS
<1>5. Len(stream) \in Nat /\ Len(buf) \in Nat /\ g \in Nat /\ Len(sent) \in Nat
        /\ buf \in Seq(Byte) /\ stream \in Seq(Byte)
  BY <1>1, LengthsAre DEF FrameTyped
<1>6. n \in Nat /\ n >= 1 /\ n <= Len(stream) /\ n <= Buffer /\ Buffer \in Nat
  BY <1>1, <1>5 DEF M!LimitAssumption
<1>7. g < Len(sent) /\ g + 1 \in 1 .. Len(sent)
  <2>1. Len(stream) > 0
    BY <1>5, <1>6
  <2> QED
    BY <1>1, <1>4, <2>1, ThereIsANext
<1>8. /\ m \in Seq(Byte) /\ Len(m) \in Nat /\ Len(Code(g + 1)) = Len(m) + 1
      /\ \A k \in 1 .. Len(m) : Code(g + 1)[k] = m[k] /\ Code(g + 1)[k] # M!NewLine
      /\ Code(g + 1)[Len(m) + 1] = M!NewLine
  BY <1>1, <1>2, <1>7, <1>17, LineIs
<1>9. M!Cap \in Nat
  <2>1. g + 1 \in Nat \ {0} /\ proto \in M!Protocols
    BY <1>1, <1>5 DEF FrameTyped
  <2> QED
    BY <1>1, <2>1, LimitsAre DEF M!Cap
<1>10. chunk \in Seq(Byte) /\ Len(chunk) = n /\ \A k \in 1 .. n : chunk[k] = stream[k]
  <2>1. 0 \in Nat /\ 0 <= n
    BY <1>6
  <2>2. /\ SubSeq(stream, 0 + 1, n) \in Seq(Byte) /\ Len(SubSeq(stream, 0 + 1, n)) = n - 0
        /\ \A k \in 1 .. n - 0 : SubSeq(stream, 0 + 1, n)[k] = stream[0 + k]
    BY <1>5, <1>6, <2>1, Part
  <2> QED
    BY <1>6, <1>15, <2>2
<1>14. IF j > 0 THEN /\ got' = Append(got, buf \o SubSeq(chunk, 1, j - 1))
                     /\ buf' = << >>
                     /\ stream' = SubSeq(stream, j + 1, Len(stream))
                     /\ UNCHANGED result
       ELSE /\ buf' = buf \o chunk
            /\ stream' = SubSeq(stream, n + 1, Len(stream))
            /\ result' = IF Len(buf') > M!Cap THEN "too large" ELSE result
            /\ UNCHANGED got
  BY <1>15, <1>16 DEF M!ReadLine
<1>11. \/ j = 0 /\ \A k \in 1 .. n : stream[k] # M!NewLine
       \/ j \in 1 .. n /\ stream[j] = M!NewLine /\ \A k \in 1 .. j - 1 : stream[k] # M!NewLine
  <2>1. \/ j = 0 /\ \A k \in 1 .. Len(chunk) : chunk[k] # M!NewLine
        \/ j \in 1 .. Len(chunk) /\ chunk[j] = M!NewLine /\ \A k \in 1 .. j - 1 : chunk[k] # M!NewLine
    BY <1>10, <1>16, FirstNewLine
  <2>2. j \in 1 .. n => \A k \in 1 .. j - 1 : k \in 1 .. n
    BY <1>6
  <2> QED
    BY <1>10, <2>1, <2>2
<1>12. CASE j = 0
  <2>1. /\ buf' = buf \o chunk /\ stream' = SubSeq(stream, n + 1, Len(stream)) /\ UNCHANGED got
        /\ result' = IF Len(buf') > M!Cap THEN "too large" ELSE result
    <3>1. ~(j > 0)
      BY <1>12
    <3> QED
      BY <1>14, <3>1
  <2>2. \A k \in 1 .. n : stream[k] # M!NewLine
    <3>1. ~(j \in 1 .. n)
      BY <1>6, <1>12
    <3> QED
      BY <1>11, <3>1
  <2>3. n \in 0 .. Len(stream) /\ n \in 1 .. Len(stream) /\ \A k \in 1 .. n - 1 : k \in 1 .. n
    BY <1>5, <1>6
  <2>4. Place(at) + n <= at[g + 1] /\ Len(buf) <= Len(m)
    BY <1>1, <1>2, <1>3, <1>4, <1>7, <1>17, <2>2, <2>3, LineGoesOn
  <2>5. /\ FrameTyped' /\ History(all, at)' /\ Reading(all, at)'
        /\ Len(buf') = Len(buf) + n
        /\ \A k \in 1 .. Len(buf) : buf'[k] = buf[k]
        /\ \A k \in 1 .. n : buf'[Len(buf) + k] = stream[k]
        /\ \A k \in 1 .. Len(buf') : buf'[k] = Code(g + 1)[k]
    BY <1>1, <1>2, <1>4, <1>7, <1>15, <2>1, <2>3, <2>4, Takes
  <2>6. \A k \in 1 .. Len(buf') : buf'[k] # M!NewLine
    <3> TAKE k \in 1 .. Len(buf')
    <3>1. CASE k \in 1 .. Len(buf)
      BY <1>2, <1>3, <2>5, <3>1 DEF Lined
    <3>2. CASE k \notin 1 .. Len(buf)
      <4>1. k - Len(buf) \in 1 .. n /\ k = Len(buf) + (k - Len(buf))
        BY <1>5, <1>6, <2>5, <3>2
      <4> QED
        BY <2>2, <2>5, <4>1
    <3> QED
      BY <3>1, <3>2
  <2>7. Len(buf') <= Len(m)
    <3>1. Len(buf') \in Nat /\ Len(buf') <= Len(m) + 1
      <4>1. Place(at) = at[g] + Len(buf) /\ at[g] \in Nat /\ at[g + 1] \in Nat
              /\ at[g + 1] <= at[g] + Len(Code(g + 1))
        BY <1>1, <1>4, <1>7, NextAt DEF Place
      <4>2. (at[g] + Len(buf)) + n <= at[g + 1] /\ at[g + 1] <= at[g] + (Len(m) + 1)
        BY <1>8, <2>4, <4>1
      <4>3. Len(buf) \in Nat /\ n \in Nat /\ Len(m) \in Nat /\ Len(buf') = Len(buf) + n
        BY <1>5, <1>6, <1>8, <2>5
      <4> QED
        BY <4>1, <4>2, <4>3
    <3>2. Len(buf') # Len(m) + 1
      <4> SUFFICES ASSUME Len(buf') = Len(m) + 1 PROVE FALSE
        OBVIOUS
      <4>1. Len(m) + 1 \in 1 .. Len(buf')
        BY <1>8
      <4> QED
        BY <1>8, <2>5, <2>6, <4>1
    <3> QED
      BY <1>8, <3>1, <3>2
  <2>8. ASSUME Len(buf') > M!Cap PROVE FrameInv'
    <3>1. Len(m) > M!Cap /\ result' = "too large"
      <4>1. Len(buf') \in Nat
        BY <1>5, <1>6, <2>5
      <4>2. Len(m) \in Nat
        BY <1>8
      <4>3. Len(m) > M!Cap
        BY <1>9, <2>7, <2>8, <4>1, <4>2
      <4>4. result' = "too large"
        BY <2>1, <2>8
      <4> QED
        BY <4>3, <4>4
    <3>2. Settled'
      BY <1>2, <1>7, <2>1, <3>1 DEF Settled
    <3>3. \A i \in DOMAIN got : /\ got[i] = sent[i]
                                /\ Len(got[i]) <= M!Limit(proto, i) + (IF M!Framed THEN 0 ELSE Buffer - 1)
      BY <1>1, <1>2 DEF M!MessagesAsWritten
    <3>4. M!MessagesAsWritten'
      BY <1>1, <1>2, <1>17, <2>1, <3>1, <3>3 DEF M!MessagesAsWritten, M!Cap, M!Framed
    <3> QED
      BY <1>1, <2>5, <3>1, <3>2, <3>4 DEF FrameInv
  <2>9. ASSUME ~(Len(buf') > M!Cap) PROVE FrameInv'
    <3>1. result' = result
      BY <2>1, <2>9
    <3>2. Lined'
      <4>1. Len(buf') \in Nat
        BY <1>5, <1>6, <2>5
      <4>2. Len(buf') <= M!Cap /\ M!Cap' = M!Cap
        BY <1>2, <1>9, <2>1, <2>9, <4>1 DEF M!Cap
      <4> QED
        BY <2>6, <4>2 DEF Lined
    <3>3. Settled' /\ M!MessagesAsWritten'
      BY <1>1, <1>2, <2>1, <3>1 DEF M!MessagesAsWritten, Settled, M!Cap, M!Framed
    <3> QED
      BY <1>1, <2>5, <3>2, <3>3 DEF FrameInv
  <2> QED
    BY <2>8, <2>9
<1>13. CASE j \in 1 .. n /\ stream[j] = M!NewLine /\ \A k \in 1 .. j - 1 : stream[k] # M!NewLine
  <2>14. PICK h : h = SubSeq(chunk, 1, j - 1)
    OBVIOUS
  <2>15. PICK x : x = buf \o h
    OBVIOUS
  <2>1. /\ got' = Append(got, x) /\ buf' = << >>
        /\ stream' = SubSeq(stream, j + 1, Len(stream)) /\ UNCHANGED result
    <3>1. j > 0
      BY <1>13
    <3> QED
      BY <1>14, <2>14, <2>15, <3>1
  <2>2. j \in Nat /\ j >= 1 /\ j <= n /\ j \in 0 .. Len(stream) /\ j \in 1 .. Len(stream)
    BY <1>5, <1>6, <1>13
  <2>3. Place(at) + j <= at[g + 1] /\ Len(buf) <= Len(m)
    BY <1>1, <1>2, <1>3, <1>4, <1>7, <1>13, <1>17, <2>2, LineGoesOn
  <2>4. stream[j] = Code(g + 1)[Len(buf) + j]
    BY <1>1, <1>4, <1>7, <2>2, <2>3, StreamIs
  <2>5. Place(at) = at[g] + Len(buf) /\ at[g] \in Nat /\ at[g + 1] \in Nat
          /\ at[g + 1] <= at[g] + (Len(m) + 1)
    BY <1>1, <1>4, <1>7, <1>8, NextAt DEF Place
  <2>6. Len(buf) + j = Len(m) + 1 /\ Place(at) + j = at[g + 1]
    <3>1. Len(m) \in Nat /\ Len(buf) \in Nat
      BY <1>5, <1>8
    <3>2. ~(Len(buf) + j \in 1 .. Len(m))
      BY <1>8, <1>13, <2>4
    <3>3. (at[g] + Len(buf)) + j <= at[g + 1]
      BY <2>3, <2>5
    <3>4. Len(buf) + j <= Len(m) + 1
      BY <2>2, <2>5, <3>1, <3>3
    <3>5. Len(buf) + j = Len(m) + 1
      BY <2>2, <3>1, <3>2, <3>4
    <3>6. Place(at) + j = (at[g] + Len(buf)) + j /\ Place(at) + j = at[g] + (Len(m) + 1)
      BY <2>2, <2>5, <3>1, <3>5
    <3>7. Place(at) + j \in Nat
      BY <2>2, <2>5, <3>1
    <3>8. Place(at) + j = at[g + 1]
      BY <2>5, <3>3, <3>6, <3>7
    <3> QED
      BY <3>5, <3>8
  <2>7. h \in Seq(Byte) /\ Len(h) = j - 1 /\ \A k \in 1 .. j - 1 : h[k] = stream[k]
    <3>1. 0 \in Nat /\ j - 1 \in Nat /\ 0 <= j - 1 /\ j - 1 <= Len(chunk)
      BY <1>6, <1>10, <2>2
    <3>2. /\ SubSeq(chunk, 0 + 1, j - 1) \in Seq(Byte) /\ Len(SubSeq(chunk, 0 + 1, j - 1)) = j - 1 - 0
          /\ \A k \in 1 .. j - 1 - 0 : SubSeq(chunk, 0 + 1, j - 1)[k] = chunk[0 + k]
      BY <1>10, <3>1, Part
    <3>3. \A k \in 1 .. j - 1 : k \in 1 .. n
      BY <1>6, <2>2
    <3> QED
      BY <1>10, <2>2, <2>14, <3>2, <3>3
  <2>8. /\ x \in Seq(Byte) /\ Len(x) = Len(buf) + (j - 1)
        /\ \A k \in 1 .. Len(buf) : x[k] = buf[k]
        /\ \A k \in 1 .. j - 1 : x[Len(buf) + k] = h[k]
    <3>2. h \in Seq(Byte) /\ buf \in Seq(Byte)
      BY <1>5, <2>7
    <3>1. /\ buf \o h \in Seq(Byte) /\ Len(buf \o h) = Len(buf) + Len(h)
          /\ \A k \in 1 .. Len(buf) : (buf \o h)[k] = buf[k]
          /\ \A k \in 1 .. Len(h) : (buf \o h)[Len(buf) + k] = h[k]
      BY <3>2, Joined
    <3> QED
      BY <2>2, <2>7, <2>15, <3>1
  <2>9. x = m
    <3>1. Len(x) = Len(m)
      <4>1. Len(m) \in Nat
        BY <1>8
      <4> QED
        BY <1>5, <2>2, <2>6, <2>8, <4>1
    <3>2. ASSUME NEW k \in 1 .. Len(m) PROVE x[k] = m[k]
      <4>1. CASE k \in 1 .. Len(buf)
        BY <1>4, <1>7, <1>8, <2>8, <4>1 DEF Reading
      <4>2. CASE k \notin 1 .. Len(buf)
        <5>1. PICK i \in 1 .. j - 1 : k = Len(buf) + i
          <6>1. k - Len(buf) \in 1 .. j - 1 /\ k = Len(buf) + (k - Len(buf))
            <7>1. Len(m) \in Nat /\ k \in Nat /\ 1 <= k /\ k <= Len(m) /\ k > Len(buf)
              BY <1>5, <1>8, <4>2
            <7> QED
              BY <1>5, <2>2, <2>6, <7>1
          <6> QED
            BY <6>1
        <5>2. i \in 1 .. Len(stream) /\ Place(at) + i <= at[g + 1]
          <6>1. Place(at) \in Nat /\ i \in Nat /\ i <= j - 1 /\ 1 <= i /\ j <= Len(stream)
            BY <1>5, <2>2, <2>5
          <6>2. at[g + 1] \in Nat /\ Place(at) + j <= at[g + 1] /\ j \in Nat
            BY <2>2, <2>3, <2>5
          <6>3. Place(at) + i <= at[g + 1]
            BY <6>1, <6>2
          <6>4. i \in 1 .. Len(stream)
            BY <1>5, <6>1, <6>2
          <6> QED
            BY <6>3, <6>4
        <5>3. stream[i] = Code(g + 1)[Len(buf) + i]
          BY <1>1, <1>4, <1>7, <5>2, StreamIs
        <5> QED
          BY <1>8, <2>7, <2>8, <5>1, <5>3
      <4> QED
        BY <4>1, <4>2
    <3>3. m \in Seq(Byte)
      BY <1>8
    <3> QED
      BY <2>8, <3>1, <3>2, <3>3, SeqEqual
  <2>10. Len(x) <= M!Cap + (IF M!Framed THEN 0 ELSE Buffer - 1)
    <3>1. Len(buf) <= M!Cap
      BY <1>2, <1>3 DEF Lined
    <3>2. Len(buf) + (j - 1) <= M!Cap + (Buffer - 1)
      BY <1>5, <1>6, <1>9, <2>2, <3>1
    <3> QED
      BY <1>2, <2>8, <3>2
  <2>11. M!MessagesAsWritten' /\ Settled'
    BY <1>1, <1>2, <1>7, <1>17, <2>1, <2>8, <2>9, <2>10, GotOneMore
  <2>12. FrameTyped' /\ History(all, at)' /\ Reading(all, at)'
    <3>1. /\ stream' \in Seq(Byte) /\ Len(stream') = Len(stream) - j
          /\ \A k \in 1 .. Len(stream) - j : stream'[k] = stream[j + k]
      <4>1. j <= Len(stream) /\ Len(stream) <= Len(stream)
        BY <1>5, <2>2
      <4> QED
        BY <1>5, <2>1, <2>2, <4>1, Part
    <3> QED
      BY <1>1, <1>2, <1>4, <1>7, <2>1, <2>2, <2>6, <2>8, <3>1, Delivers
  <2>13. Lined'
    <3>1. M!Cap' \in Nat
      <4>1. Len(got') = g + 1
        BY <1>1, <2>1, <2>8, AppendProperties DEF FrameTyped
      <4>2. (g + 1) + 1 \in Nat \ {0} /\ proto \in M!Protocols
        BY <1>1, <1>5 DEF FrameTyped
      <4>3. M!Limit(proto, (g + 1) + 1) \in Nat
        BY <1>1, <4>2, LimitsAre
      <4> QED
        BY <1>2, <4>1, <4>3 DEF M!Cap
    <3>2. Len(buf') = 0
      BY <2>1
    <3>3. \A c \in Nat : 0 <= c
      OBVIOUS
    <3> QED
      BY <3>1, <3>2, <3>3 DEF Lined
  <2> QED
    BY <1>1, <2>11, <2>12, <2>13 DEF FrameInv
<1> QED
  BY <1>11, <1>12, <1>13

\* The end of the stream is the end of the last line, or of what there is of it.
LEMMA LastLine ==
  ASSUME M!LimitAssumption, FrameTyped, ~M!Framed, Lined, ending \in {"finished", "cut"}, stream = << >>,
         NEW all, NEW at, History(all, at), Reading(all, at), Len(got) < Len(sent)
  PROVE  /\ Len(got) + 1 = Len(sent) /\ ending = "cut"
         /\ M!IsPrefix(buf, sent[Len(got) + 1])
<1> PICK g : g = Len(got)
  OBVIOUS
<1>1. PICK m : m = sent[g + 1]
  OBVIOUS
<1>2. Len(buf) \in Nat /\ g \in Nat /\ Len(sent) \in Nat /\ Len(stream) = 0 /\ g < Len(sent)
        /\ g + 1 \in 1 .. Len(sent) /\ buf \in Seq(Byte)
  BY LengthsAre DEF FrameTyped
<1>3. Len(buf) <= Len(m)
  <2>1. 0 \in 0 .. Len(stream) /\ \A k \in 1 .. 0 - 1 : stream[k] # M!NewLine
    BY <1>2
  <2> QED
    BY <1>1, <2>1, LineGoesOn
<1>4. /\ m \in Seq(Byte) /\ Len(m) \in Nat /\ Len(Code(g + 1)) = Len(m) + 1
      /\ \A k \in 1 .. Len(m) : Code(g + 1)[k] = m[k]
  BY <1>1, <1>2, LineIs
<1>5. /\ at[g] \in Nat /\ at[g + 1] \in Nat /\ Len(all) \in Nat /\ at[g + 1] <= Len(all)
      /\ g + 1 < Len(sent) \/ ending \in {"open", "finished"} => at[g + 1] = at[g] + Len(Code(g + 1))
  BY NextAt
<1>6. at[g] + Len(buf) = Len(all)
  <2>1. Place(at) + Len(stream) = Len(all)
    BY DEF Reading
  <2>2. Place(at) = at[g] + Len(buf)
    BY DEF Place
  <2> QED
    BY <1>2, <1>5, <2>1, <2>2
<1>7. at[g + 1] # at[g] + (Len(m) + 1)
  <2>1. Len(m) \in Nat /\ at[g] \in Nat /\ at[g + 1] \in Nat /\ at[g + 1] <= at[g] + Len(buf)
    BY <1>4, <1>5, <1>6
  <2> QED
    BY <1>2, <1>3, <2>1
<1>8. ~(g + 1 < Len(sent)) /\ ending \notin {"open", "finished"}
  BY <1>4, <1>5, <1>7
<1>9. M!IsPrefix(buf, m)
  <2>1. \A k \in 1 .. Len(buf) : buf[k] = m[k]
    <3> TAKE k \in 1 .. Len(buf)
    <3>1. k \in 1 .. Len(m)
      <4>1. Len(m) \in Nat
        BY <1>4
      <4> QED
        BY <1>2, <1>3, <4>1
    <3> QED
      BY <1>4, <3>1 DEF Reading
  <2> PICK l : l = Len(buf)
    OBVIOUS
  <2>2. l \in Nat /\ 0 \in Nat /\ 0 <= l /\ l <= Len(buf) /\ l <= Len(m)
    BY <1>2, <1>3
  <2>3. \A s \in Seq(Byte) : l <= Len(s) =>
          /\ SubSeq(s, 1, l) \in Seq(Byte) /\ Len(SubSeq(s, 1, l)) = l
          /\ \A k \in 1 .. l : SubSeq(s, 1, l)[k] = s[k]
    <3> TAKE s \in Seq(Byte)
    <3> HAVE l <= Len(s)
    <3>1. /\ SubSeq(s, 0 + 1, l) \in Seq(Byte) /\ Len(SubSeq(s, 0 + 1, l)) = l - 0
          /\ \A k \in 1 .. l - 0 : SubSeq(s, 0 + 1, l)[k] = s[0 + k]
      BY <2>2, Part
    <3> QED
      BY <2>2, <3>1
  <2>4. /\ SubSeq(buf, 1, l) \in Seq(Byte) /\ Len(SubSeq(buf, 1, l)) = l
        /\ \A k \in 1 .. l : SubSeq(buf, 1, l)[k] = buf[k]
    BY <1>2, <2>2, <2>3
  <2>5. /\ SubSeq(m, 1, l) \in Seq(Byte) /\ Len(SubSeq(m, 1, l)) = l
        /\ \A k \in 1 .. l : SubSeq(m, 1, l)[k] = m[k]
    BY <1>4, <2>2, <2>3
  <2>6. \A k \in 1 .. l : SubSeq(buf, 1, l)[k] = SubSeq(m, 1, l)[k]
    BY <2>1, <2>4, <2>5
  <2>7. SubSeq(buf, 1, l) = SubSeq(m, 1, l)
    BY <2>4, <2>5, <2>6, SeqEqual
  <2> QED
    BY <1>3, <2>7 DEF M!IsPrefix
<1> QED
  BY <1>1, <1>2, <1>8, <1>9

LEMMA LinesEndKeeps ==
  ASSUME FrameInv, M!LinesEnd
  PROVE  FrameInv'
<1>1. M!LimitAssumption /\ FrameTyped /\ M!MessagesAsWritten /\ Settled
  BY DEF FrameInv
<1>2. /\ ~M!Framed /\ result = "reading" /\ ending \in {"finished", "cut"} /\ stream = << >>
      /\ result' = "end" /\ got' = IF buf = << >> THEN got ELSE Append(got, buf)
      /\ buf' = << >> /\ UNCHANGED <<proto, sent, stream, ending>>
  BY DEF M!LinesEnd, M!AtEnd
<1>3. Lined
  BY <1>2 DEF FrameInv
<1>4. PICK all, at : History(all, at) /\ Reading(all, at)
  BY <1>2 DEF FrameInv
<1>5. Len(buf) \in Nat /\ Len(got) \in Nat /\ Len(sent) \in Nat /\ Len(got) <= Len(sent)
        /\ buf \in Seq(Byte) /\ got \in Seq(Seq(Byte))
  BY <1>1, <1>4, LengthsAre DEF FrameTyped, Reading
<1>6. Len(got) < Len(sent) => /\ Len(got) + 1 = Len(sent) /\ ending = "cut"
                              /\ M!IsPrefix(buf, sent[Len(got) + 1])
  BY <1>1, <1>2, <1>3, <1>4, LastLine
<1>7. CASE buf = << >>
  <2>1. M!Stop("end")
    BY <1>2, <1>7 DEF M!Stop
  <2>2. Len(got) >= Len(sent) - (IF ending = "finished" THEN 0 ELSE 1)
    <3>1. CASE Len(got) < Len(sent)
      BY <1>5, <1>6, <3>1
    <3>2. CASE Len(got) = Len(sent)
      BY <1>5, <3>2
    <3> QED
      BY <1>5, <3>1, <3>2
  <2> QED
    BY <1>2, <2>1, <2>2, StopKeeps
<1>8. CASE buf # << >>
  <2>1. Len(buf) > 0
    BY <1>5, <1>8
  <2>2. Len(got) < Len(sent)
    BY <1>1, <1>4, <2>1, ThereIsANext
  <2>3. got' = Append(got, buf)
    BY <1>2, <1>8
  <2>4. M!Cap \in Nat /\ Buffer \in Nat \ {0}
    <3>1. Len(got) + 1 \in Nat \ {0} /\ proto \in M!Protocols
      BY <1>1, <1>5 DEF FrameTyped
    <3> QED
      BY <1>1, <3>1, LimitsAre DEF M!Cap, M!LimitAssumption
  <2>5. Len(buf) <= M!Cap + (IF M!Framed THEN 0 ELSE Buffer - 1)
    <3>1. Len(buf) <= M!Cap
      BY <1>2, <1>3 DEF Lined
    <3>2. Len(buf) <= M!Cap + (Buffer - 1)
      BY <1>5, <2>4, <3>1
    <3> QED
      BY <1>2, <3>2
  <2>6. M!MessagesAsWritten' /\ Settled'
    BY <1>1, <1>2, <1>5, <1>6, <2>2, <2>3, <2>5, GotOneMore
  <2>7. FrameTyped'
    <3>1. << >> \in Seq(Byte)
      BY EmptySeq
    <3>2. Append(got, buf) \in Seq(Seq(Byte))
      BY <1>5, AppendProperties
    <3> QED
      BY <1>1, <1>2, <2>3, <3>1, <3>2 DEF FrameTyped, Writings
  <2> QED
    BY <1>1, <1>2, <2>6, <2>7 DEF FrameInv
<1> QED
  BY <1>7, <1>8

-----------------------------------------------------------------------------
(* All of it. *)

LEMMA FrameInit ==
  ASSUME M!LimitAssumption, M!Init
  PROVE  FrameInv
<1>1. /\ proto \in M!Protocols /\ ending = "open" /\ result = "reading"
      /\ sent = << >> /\ stream = << >> /\ buf = << >> /\ got = << >>
  BY DEF M!Init
<1>2. Len(sent) = 0 /\ Len(got) = 0 /\ Len(buf) = 0 /\ Len(stream) = 0 /\ DOMAIN got = {}
  BY <1>1
<1>3. FrameTyped
  <2>1. << >> \in Seq(Byte) /\ << >> \in Seq(Seq(Byte)) /\ << >> \in Seq(Writings)
    BY EmptySeq
  <2>2. Len(sent) <= Messages
    BY <1>2 DEF M!LimitAssumption
  <2> QED
    BY <1>1, <2>1, <2>2 DEF FrameTyped
<1>4. M!Cap \in Nat
  <2>1. M!Cap = M!Limit(proto, 1)
    BY <1>2 DEF M!Cap
  <2> QED
    BY <1>1, <2>1, LimitsAre
<1>5. M!MessagesAsWritten
  <2>1. 0 <= M!Prefix + M!Cap
    BY <1>4 DEF M!Prefix
  <2> QED
    BY <1>1, <1>2, <2>1 DEF M!MessagesAsWritten
<1>6. Settled /\ Lined
  BY <1>1, <1>2, <1>4 DEF Settled, Lined
<1>7. \E all, at : History(all, at) /\ Reading(all, at)
  <2> DEFINE at == [i \in 0 .. 0 |-> 0]
  <2>1. at[0] = 0 /\ at \in [0 .. 0 -> Nat] /\ 0 .. 0 = {0}
    OBVIOUS
  <2> HIDE DEF at
  <2>2. History(<< >>, at)
    <3>1. Len(<< >>) = 0 /\ << >> \in Seq(Byte)
      BY EmptySeq
    <3>2. 1 .. Len(sent) = {} /\ 0 .. Len(sent) = {0}
      BY <1>2
    <3> QED
      BY <1>2, <2>1, <3>1, <3>2 DEF History
  <2>3. Reading(<< >>, at)
    <3>1. Place(at) = 0
      BY <1>2, <2>1 DEF Place
    <3>2. Len(<< >>) = 0 /\ 1 .. Len(stream) = {}
      BY <1>2
    <3> QED
      BY <1>1, <1>2, <3>1, <3>2 DEF Reading
  <2> QED
    BY <2>2, <2>3
<1> QED
  BY <1>3, <1>5, <1>6, <1>7 DEF FrameInv

LEMMA FrameStep ==
  ASSUME FrameInv, [M!Next]_(M!vars)
  PROVE  FrameInv'
<1>1. ASSUME UNCHANGED M!vars PROVE FrameInv'
  <2>1. UNCHANGED <<proto, sent, stream, ending, buf, got, result>>
    BY <1>1 DEF M!vars
  <2>2. M!LimitAssumption /\ FrameTyped /\ M!MessagesAsWritten /\ Settled
    BY DEF FrameInv
  <2>3. FrameTyped'
    BY <2>1, <2>2 DEF FrameTyped, Writings
  <2>4. Settled'
    BY <2>1, <2>2 DEF Settled
  <2>5. M!MessagesAsWritten'
    BY <2>1, <2>2 DEF M!MessagesAsWritten, M!Cap, M!Framed
  <2>6. ASSUME result' = "reading"
        PROVE  Lined' /\ \E all, at : History(all, at)' /\ Reading(all, at)'
    <3>1. PICK all, at : History(all, at) /\ Reading(all, at)
      BY <2>1, <2>6 DEF FrameInv
    <3>2. Lined'
      BY <2>1, <2>6 DEF FrameInv, Lined, M!Framed, M!Cap
    <3>3. History(all, at)'
      BY <2>1, <3>1, HistoryKept
    <3>4. Reading(all, at)'
      BY <2>1, <3>1 DEF Reading, Place, Code
    <3> QED
      BY <3>2, <3>3, <3>4
  <2> QED
    BY <2>2, <2>3, <2>4, <2>5, <2>6 DEF FrameInv
<1>2. CASE \E body \in M!Bodies : M!Write(body) \/ (\E n \in 0 .. Len(body) + M!Prefix : M!Cut(body, n))
  BY <1>2, WritesKeep
<1>3. CASE M!Finish
  BY <1>3, FinishKeeps
<1>4. CASE M!Reset
  BY <1>4, ResetKeeps
<1>5. CASE \E n \in 1 .. Len(stream) : M!Read(n)
  BY <1>5, ReadKeeps
<1>6. CASE M!Refuse
  BY <1>6, RefuseKeeps
<1>7. CASE M!Decode
  BY <1>7, DecodeKeeps
<1>8. CASE M!Ends
  BY <1>8, EndsKeeps
<1>9. CASE M!Fails \/ M!TimesOut
  BY <1>9, FailsKeeps
<1>10. CASE \E n \in 1 .. (IF Len(stream) < Buffer THEN Len(stream) ELSE Buffer) : M!ReadLine(n)
  BY <1>10, ReadLineKeeps
<1>11. CASE M!LinesEnd
  BY <1>11, LinesEndKeeps
<1> QED
  BY <1>1, <1>2, <1>3, <1>4, <1>5, <1>6, <1>7, <1>8, <1>9, <1>10, <1>11 DEF M!Next

LEMMA FramesArePart ==
  /\ MCInit => M!Init
  /\ [MCNext]_<<vars, verified, framed, flooded, part>> => [M!Next]_(M!vars)
<1>1. MCInit => M!Init
  BY DEF MCInit
<1>2. ASSUME MCNext PROVE [M!Next]_(M!vars)
  BY <1>2 DEF MCNext, M!vars, framed
<1>3. UNCHANGED <<vars, verified, framed, flooded, part>> => UNCHANGED M!vars
  BY DEF M!vars, framed
<1> QED
  BY <1>1, <1>2, <1>3

\* For any bodies and limits that a prefix can say, and any buffer: however the bytes
\* arrive, and wherever the writer ends, is cut or is lost, a reader of frames or of lines
\* reads the messages that were written, in order, each within the limit of its place, and
\* stops of itself for cause (codec.rs, transport.rs, inbox.rs, wire.rs, control.rs).
THEOREM MessagesAreReadAsWritten == MCSpec => []MessagesAsWritten
<1>1. MCInit => FrameInv
  <2>1. M!LimitAssumption
    BY EdgesAssumption
  <2> QED
    BY <2>1, FramesArePart, FrameInit
<1>2. FrameInv /\ [MCNext]_<<vars, verified, framed, flooded, part>> => FrameInv'
  BY FramesArePart, FrameStep
<1>3. FrameInv => MessagesAsWritten
  BY FrameTypeOK DEF MessagesAsWritten
<1> QED
  BY <1>1, <1>2, <1>3, PTL DEF MCSpec
=============================================================================
