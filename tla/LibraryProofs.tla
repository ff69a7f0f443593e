---------------------------- MODULE LibraryProofs ----------------------------
(***************************************************************************)
(* What TLAPS proves of Library, for any number of operations under way:   *)
(* the shape of the state, and the promises of the library and of the play *)
(* history.                                                                *)
(***************************************************************************)
EXTENDS Library, FiniteSetTheorems, WellFoundedInduction, TLAPS

------------------------------------------------------------------------------
(* The shape of the state. *)

\* The content of a file: an entry of V for some of the keys K.
Maps(K, V) == UNION {[D -> V] : D \in SUBSET K}
GameEntry == [played : Nat, cat : BOOLEAN]
Indexes == Maps(Roms, GameEntry)
Histories == Maps(Sessions, 1 .. MaxOps)

IndexKinds == {"import", "install", "link", "played", "mark", "remove", "repair"}
IndexOps ==
  [kind : IndexKinds, id : Roms, at : 1 .. MaxOps, next : Indexes, stale : BOOLEAN]
HistoryOps ==
  [kind : HistoryKinds, id : Sessions, at : 1 .. MaxOps, next : Histories, stale : BOOLEAN]
Stored == [data : Replies, fresh : BOOLEAN]
Parsed == {c \in Stored : parseRomCatalog(c.data)}
AnyOps == IndexOps \cup HistoryOps
Lists == [kind : {"list"}, old : {NoCatalog} \cup Parsed]

\* Where an operation of each kind may be.
Reading == {"load", "unlink", "aside", "place"}
Writing == {"unlink", "aside", "place"}
Shaped(label, o) ==
  /\ label \in {"confirm", "exists", "store"} => o \in IndexOps /\ o.kind \in Imports
  /\ label \in Reading => o \in AnyOps
  /\ label \in Writing /\ o.kind \in Imports \cup {"link"} => o.id \in DOMAIN o.next
  /\ label = "scan" => o \in IndexOps /\ o.kind = "repair"
  /\ label = "drop" => o \in IndexOps /\ o.kind = "remove"
  /\ label = "reply" => o \in Lists

Labels == {"idle", "confirm", "exists", "store", "load", "scan", "unlink", "aside", "place",
           "drop", "reply"}
FilesOK ==
  /\ roms \in [Roms -> {"none", "good", "bad", "gone"}]
  /\ cur \in [Names -> {NoFile} \cup Indexes \cup Histories]
  /\ prev \in [Names -> {NoFile} \cup Indexes \cup Histories]
  /\ cur["index"] \in {NoFile} \cup Indexes /\ prev["index"] \in {NoFile} \cup Indexes
  /\ cur["history"] \in {NoFile} \cup Histories /\ prev["history"] \in {NoFile} \cup Histories
OpsOK ==
  /\ pc \in [Procs -> Labels]
  /\ op \in [Procs -> AnyOps \cup Lists \cup {NoOp}]
  /\ \A p \in Procs : Shaped(pc[p], op[p])
  /\ begun \in 0 .. MaxOps
PromisesOK ==
  /\ owned \subseteq Roms /\ linked \subseteq owned
  /\ credit \in [Roms -> Nat] /\ acked \in Histories
  /\ cuts \in [Names -> 0 .. 2] /\ hurt \subseteq Names
CatalogOK ==
  /\ cache \in {NoCatalog} \cup Stored
  /\ CatalogChecked
Typed == FilesOK /\ OpsOK /\ PromisesOK /\ CatalogOK

------------------------------------------------------------------------------
(* The times of the sessions differ, so that the last ones are well defined. *)

Distinct(h) == \A s, t \in DOMAIN h : h[s] = h[t] => s = t
Dated(h, now) ==
  Distinct(h) /\ (\A s \in DOMAIN h : h[s] <= now) /\ Cardinality(DOMAIN h) <= MaxSessions
Apart(time, h) == \A s \in DOMAIN h : h[s] # time
Upserting(p) == pc[p] \in Reading /\ op[p].kind = "upsert"
HistoryFiles == {cur["history"], prev["history"]} \ {NoFile}
TimesOK ==
  /\ \A h \in HistoryFiles :
       Dated(h, begun) /\ \A p \in Procs : Upserting(p) => Apart(op[p].at, h)
  /\ \A q \in Procs : Holds(q, "history") =>
       /\ Dated(op[q].next, begun)
       /\ \A p \in Procs : p # q /\ Upserting(p) => Apart(op[p].at, op[q].next)
  /\ \A p \in Procs : Upserting(p) =>
       op[p].at <= begun /\ \A q \in Procs : q # p /\ Upserting(q) => op[q].at # op[p].at

------------------------------------------------------------------------------
(* The promises. *)

\* The index x keeps what the caller was promised of r.
Keeps(x, r) ==
  /\ r \in DOMAIN x /\ x[r].played = credit[r] /\ (r \in linked => x[r].cat)
  /\ roms[r] \in {"good", "bad"}
Full(x, R) == \A r \in R : Keeps(x, r)
\* The history x has the sessions S of a.
Remembers(x, a, S) == \A s \in S : s \in DOMAIN x /\ x[s] = a[s]

\* A recovery that has been begun has removed what is left of f, and holds it.
Gap(f) == cuts[f] = 1 /\ Cut(f) /\ cur[f] = NoFile /\ prev[f] = NoFile
IndexKept == Sound("index") => Full(Candidate("index"), owned) \/ Gap("index")
SessionsKept ==
  Sound("history") => Remembers(Candidate("history"), acked, DOMAIN acked) \/ Gap("history")
AsideOK(f) ==
  f \notin hurt /\ cuts[f] = 0 /\ cur[f] = NoFile /\ prev[f] # NoFile => Replacing(f)

\* q has read f, and nobody has written it since.
Fresh(q, f) == Holds(q, f) /\ ~op[q].stale
\* What the operation o is about to write keeps the promises, with its own change.
WritesIndex(o) ==
  /\ Full(o.next, owned \ IF o.kind \in {"remove", "played"} THEN {o.id} ELSE {})
  /\ o.kind = "link" => o.next[o.id].cat
  /\ o.kind = "played" /\ o.id \in owned =>
       /\ o.id \in DOMAIN o.next /\ o.next[o.id].played = credit[o.id] + 1
       /\ (o.id \in linked => o.next[o.id].cat) /\ roms[o.id] \in {"good", "bad"}
Newer(h, time) == {t \in DOMAIN h : h[t] > time}
WritesHistory(o, a) ==
  /\ o.kind = "upsert" => \A s \in DOMAIN Put(a, o.id, o.at) :
       Cardinality(Newer(o.next, Put(a, o.id, o.at)[s])) < MaxSessions =>
         s \in DOMAIN o.next /\ o.next[s] = Put(a, o.id, o.at)[s]
  /\ o.kind = "forget" => Remembers(o.next, a, DOMAIN a \ {o.id})
IndexWrites == Sound("index") => \A q \in Procs : Fresh(q, "index") => WritesIndex(op[q])
HistoryWrites ==
  Sound("history") => \A q \in Procs : Fresh(q, "history") => WritesHistory(op[q], acked)

Repairing(p) == pc[p] \in Writing /\ op[p].kind = "repair"
\* What it is about to write differs from the file by its own change.
Follows(q) ==
  LET o == op[q]  x == cur["index"] IN
  x # NoFile /\ Fresh(q, "index") => \A r \in DOMAIN x :
    /\ r \in DOMAIN o.next \/ Repairing(q) \/ (o.kind = "remove" /\ o.id = r)
    /\ r \in DOMAIN o.next =>
         o.next[r].played = x[r].played + (IF o.kind = "played" /\ o.id = r THEN 1 ELSE 0)
IndexFollows == Sound("index") => \A q \in Procs : Follows(q)

HistoryInv == SessionsKept /\ HistoryWrites /\ AsideOK("history")
IndexInv == IndexKept /\ IndexWrites /\ IndexFollows /\ AsideOK("index")

------------------------------------------------------------------------------
(* The ROM files behind the entries. *)

HaveRoms(D) == \A r \in D : roms[r] # "none"
\* The file an import has found, or written, is still there.
Found(q) ==
  /\ pc[q] \in Reading /\ op[q].kind \in Imports => roms[op[q].id] \in {"good", "bad"}
  /\ pc[q] = "load" /\ op[q].kind = "link" => roms[op[q].id] # "gone"
  /\ pc[q] \in Writing /\ op[q].kind = "link" => roms[op[q].id] \in {"good", "bad"}
RomsInv ==
  "index" \notin hurt =>
    /\ HaveRoms(DOMAIN Candidate("index"))
    /\ \A q \in Procs : Holds(q, "index") => HaveRoms(DOMAIN op[q].next)
    /\ \A q \in Procs : Found(q)

\* A repair lists every sound ROM but those that imports under way are about to list, and
\* none without a file but those another repair has put away.
Listing(q, r) == pc[q] \in Reading /\ op[q].kind \in Imports /\ op[q].id = r
Rebuilds(p) == \A r \in Roms :
  /\ roms[r] = "good" => r \in DOMAIN op[p].next \/ \E q \in Procs : q # p /\ Listing(q, r)
  /\ r \in DOMAIN op[p].next =>
       roms[r] \in {"good", "bad"} \/ \E q \in Procs : q # p /\ Repairing(q)
RepairInv ==
  "index" \notin hurt => \A p \in Procs : Repairing(p) /\ ~op[p].stale => Rebuilds(p)

------------------------------------------------------------------------------
(* Files: what the operations make of what they read. *)

\* The constants.
LEMMA Bounds ==
  /\ MaxOps \in Nat /\ MaxSessions \in Nat /\ MaxSessions > 0
  /\ \A f \in Offers : f.id \in Roms
BY LibraryAssumption

\* What it is to be the content of a file.
LEMMA OfMap ==
  ASSUME NEW K, NEW V, NEW x \in Maps(K, V)
  PROVE  /\ DOMAIN x \subseteq K /\ x \in [DOMAIN x -> V]
         /\ \A k \in DOMAIN x : x[k] \in V
<1>1. PICK D \in SUBSET K : x \in [D -> V]
  BY DEF Maps
<1> QED BY <1>1

LEMMA IsMap ==
  ASSUME NEW K, NEW V, NEW D \in SUBSET K, NEW x \in [D -> V]
  PROVE  x \in Maps(K, V)
BY DEF Maps

\* The empty file.
LEMMA EmptyMap == ASSUME NEW K, NEW V PROVE Empty \in Maps(K, V) /\ DOMAIN Empty = {}
BY DEF Empty, Maps

\* One entry more, or another in its place.
LEMMA PutMap ==
  ASSUME NEW K, NEW V, NEW x \in Maps(K, V), NEW k \in K, NEW v \in V
  PROVE  Put(x, k, v) \in Maps(K, V)
<1>1. DOMAIN x \subseteq K /\ \A j \in DOMAIN x : x[j] \in V
  BY OfMap
<1>2. Put(x, k, v) \in [DOMAIN x \cup {k} -> V]
  BY <1>1 DEF Put
<1> QED BY <1>1, <1>2, IsMap

\* Some entries fewer.
LEMMA RestrictMap ==
  ASSUME NEW K, NEW V, NEW x \in Maps(K, V), NEW D \in SUBSET DOMAIN x
  PROVE  /\ Restrict(x, D) \in Maps(K, V)
         /\ DOMAIN Restrict(x, D) = D
         /\ \A j \in D : Restrict(x, D)[j] = x[j]
<1>1. DOMAIN x \subseteq K /\ \A j \in DOMAIN x : x[j] \in V
  BY OfMap
<1>2. Restrict(x, D) \in [D -> V]
  BY <1>1 DEF Restrict
<1> QED BY <1>1, <1>2, IsMap DEF Restrict

------------------------------------------------------------------------------
(* The sessions that ended last. *)

\* A set of numbers that is not empty has a least one.
LEMMA Least ==
  ASSUME NEW S, S \subseteq Nat, S # {}
  PROVE  \E m \in S : \A k \in S : m <= k
<1> DEFINE Below == {ss \in Nat \X Nat : ss[1] < ss[2]}
<1>1. \E m \in S : \A k \in S : ~ (<<k, m>> \in OpToRel(<, Nat))
  BY NatLessThanWellFounded, WFMin
<1>2. \E m \in S : \A k \in S : <<k, m>> \notin Below
  BY <1>1, Zenon DEF OpToRel
<1> HIDE DEF Below
<1>3. PICK m \in S : \A k \in S : <<k, m>> \notin Below
  BY <1>2
<1>4. ASSUME NEW k \in S
      PROVE  m <= k
  <2>1. <<k, m>> \in Nat \X Nat /\ <<k, m>>[1] = k /\ <<k, m>>[2] = m
    OBVIOUS
  <2>2. ~ (<<k, m>>[1] < <<k, m>>[2])
    BY <1>3, <2>1 DEF Below
  <2> QED BY <2>1, <2>2
<1> QED BY <1>4

LEMMA EndedAt ==
  ASSUME NEW h \in Histories, NEW s \in DOMAIN h
  PROVE  h[s] \in Nat /\ h[s] \in 1 .. MaxOps
<1>1. h[s] \in 1 .. MaxOps
  BY OfMap DEF Histories
<1> QED BY <1>1, Bounds

\* Sessions that ended at different times are finitely many.
LEMMA HistoryFinite ==
  ASSUME NEW h \in Histories, Distinct(h), NEW D \in SUBSET DOMAIN h
  PROVE  IsFiniteSet(D) /\ Cardinality(D) \in Nat
<1>1. h \in Injection(DOMAIN h, 1 .. MaxOps)
  <2>1. h \in [DOMAIN h -> 1 .. MaxOps]
    BY OfMap DEF Histories
  <2> QED BY <2>1 DEF Distinct, Injection, IsInjective
<1>2. IsFiniteSet(1 .. MaxOps)
  BY Bounds, FS_Interval
<1>3. IsFiniteSet(DOMAIN h)
  BY <1>1, <1>2, FS_Injection
<1> QED BY <1>3, FS_Subset, FS_CardinalityType

\* What Newest keeps.
LEMMA NewestKeeps ==
  ASSUME NEW h \in Histories
  PROVE  /\ Newest(h) \in Histories
         /\ DOMAIN Newest(h) = {s \in DOMAIN h : Cardinality(Newer(h, h[s])) < MaxSessions}
         /\ \A s \in DOMAIN Newest(h) : s \in DOMAIN h /\ Newest(h)[s] = h[s]
<1> DEFINE D == {s \in DOMAIN h : Cardinality(Newer(h, h[s])) < MaxSessions}
<1>1. Newest(h) = Restrict(h, D)
  BY DEF Newest, Newer
<1>2. D \in SUBSET DOMAIN h
  OBVIOUS
<1> HIDE DEF D
<1>3. Restrict(h, D) \in Histories /\ DOMAIN Restrict(h, D) = D
      /\ \A j \in D : Restrict(h, D)[j] = h[j]
  BY <1>2, RestrictMap DEF Histories
<1> QED BY <1>1, <1>2, <1>3 DEF D

\* There are no more than MaxSessions of them: all but the oldest are newer than it.
LEMMA NewestBound ==
  ASSUME NEW h \in Histories, Distinct(h)
  PROVE  Distinct(Newest(h)) /\ Cardinality(DOMAIN Newest(h)) <= MaxSessions
<1> DEFINE D == DOMAIN Newest(h)
<1>1. D \in SUBSET DOMAIN h /\ \A s \in D : Newest(h)[s] = h[s] /\ Cardinality(Newer(h, h[s])) < MaxSessions
  BY NewestKeeps
<1>2. Distinct(Newest(h))
  BY <1>1 DEF Distinct
<1> HIDE DEF D
<1>3. IsFiniteSet(D) /\ Cardinality(D) \in Nat
  BY <1>1, HistoryFinite
<1>4. ASSUME D = {}
      PROVE  Cardinality(DOMAIN Newest(h)) <= MaxSessions
  BY <1>4, FS_EmptySet, Bounds DEF D
<1>5. ASSUME D # {}
      PROVE  Cardinality(DOMAIN Newest(h)) <= MaxSessions
  <2> DEFINE Times == {h[s] : s \in D}
  <2>1. Times \subseteq Nat /\ Times # {}
    BY <1>1, <1>5, EndedAt
  <2>2. \E m \in Times : \A k \in Times : m <= k
    <3> HIDE DEF Times
    <3> QED BY <2>1, Least
  <2>3. PICK s \in D : \A t \in D : h[s] <= h[t]
    BY <2>2
  <2>4. D \ {s} \subseteq Newer(h, h[s])
    <3> SUFFICES ASSUME NEW t \in D, t # s
                 PROVE  t \in Newer(h, h[s])
      OBVIOUS
    <3>1. s \in DOMAIN h /\ t \in DOMAIN h /\ h[s] <= h[t]
      BY <1>1, <2>3
    <3>2. h[s] \in Nat /\ h[t] \in Nat
      BY <3>1, EndedAt
    <3>3. h[t] # h[s]
      BY <3>1 DEF Distinct
    <3> QED BY <3>1, <3>2, <3>3 DEF Newer
  <2>5. Newer(h, h[s]) \in SUBSET DOMAIN h
    BY DEF Newer
  <2>6. IsFiniteSet(Newer(h, h[s])) /\ Cardinality(Newer(h, h[s])) \in Nat
    BY <2>5, HistoryFinite
  <2>7. Cardinality(D \ {s}) <= Cardinality(Newer(h, h[s]))
    BY <2>4, <2>6, FS_Subset
  <2>8. Cardinality(D \ {s}) = Cardinality(D) - 1
    BY <1>3, FS_RemoveElement
  <2>9. Cardinality(Newer(h, h[s])) < MaxSessions
    BY <1>1
  <2> QED BY <1>3, <2>6, <2>7, <2>8, <2>9, Bounds DEF D
<1> QED BY <1>2, <1>4, <1>5

\* What Newest drops does not hide anything: if MaxSessions of h are newer than some time,
\* as many of what is kept are.
LEMMA NewestCrowds ==
  ASSUME NEW h \in Histories, Distinct(h), NEW time \in Nat,
         Cardinality(Newer(Newest(h), time)) < MaxSessions
  PROVE  Cardinality(Newer(h, time)) < MaxSessions
<1> DEFINE D == DOMAIN Newest(h)
           M == Newer(h, time)
           U == M \ D
<1>1. /\ D \in SUBSET DOMAIN h /\ \A s \in D : Newest(h)[s] = h[s]
      /\ D = {s \in DOMAIN h : Cardinality(Newer(h, h[s])) < MaxSessions}
  BY NewestKeeps
<1>2. M \in SUBSET DOMAIN h /\ \A t \in DOMAIN h : t \in M <=> h[t] > time
  BY DEF Newer
<1>3. \A t \in D : t \in M => t \in Newer(Newest(h), time)
  BY <1>1, <1>2 DEF Newer
<1>4. Newer(Newest(h), time) \in SUBSET DOMAIN h
  BY <1>1 DEF Newer
<1>5. IsFiniteSet(Newer(Newest(h), time)) /\ Cardinality(Newer(Newest(h), time)) \in Nat
  BY <1>4, HistoryFinite
<1> HIDE DEF D, M
<1>6. ASSUME U = {}
      PROVE  Cardinality(M) < MaxSessions
  <2>1. M \in SUBSET Newer(Newest(h), time)
    BY <1>3, <1>6
  <2>2. Cardinality(M) <= Cardinality(Newer(Newest(h), time)) /\ Cardinality(M) \in Nat
    BY <2>1, <1>5, FS_Subset, FS_CardinalityType
  <2> QED BY <2>2, <1>5, Bounds
<1>7. ASSUME U # {}
      PROVE  FALSE
  <2> DEFINE Ages == {MaxOps - h[u] : u \in U}
  <2>1. \A u \in U : u \in DOMAIN h /\ u \notin D /\ h[u] \in 1 .. MaxOps /\ h[u] > time
    BY <1>2, EndedAt
  <2>2. Ages \subseteq Nat /\ Ages # {}
    BY <1>7, <2>1, Bounds
  <2>3. \E m \in Ages : \A k \in Ages : m <= k
    <3> HIDE DEF Ages
    <3> QED BY <2>2, Least
  <2>4. PICK u \in U : \A v \in U : MaxOps - h[u] <= MaxOps - h[v]
    BY <2>3
  <2>5. \A v \in U : h[v] <= h[u]
    BY <2>1, <2>4, Bounds
  <2>6. Newer(h, h[u]) \in SUBSET Newer(Newest(h), time)
    <3> SUFFICES ASSUME NEW t \in DOMAIN h, h[t] > h[u]
                 PROVE  t \in Newer(Newest(h), time)
      BY DEF Newer
    <3>1. h[t] \in Nat /\ h[u] \in Nat /\ h[u] > time
      BY <2>1, EndedAt
    <3>2. t \in M /\ t \notin U
      BY <1>2, <2>5, <3>1
    <3> QED BY <1>3, <3>2
  <2>7. Cardinality(Newer(h, h[u])) <= Cardinality(Newer(Newest(h), time))
        /\ Cardinality(Newer(h, h[u])) \in Nat
    BY <2>6, <1>5, FS_Subset, FS_CardinalityType
  <2>8. ~ (Cardinality(Newer(h, h[u])) < MaxSessions)
    BY <1>1, <2>1
  <2> QED BY <1>5, <2>7, <2>8, Bounds
<1> QED BY <1>6, <1>7 DEF M

------------------------------------------------------------------------------
(* Type correctness. *)

\* The files and the kinds of operations.
LEMMA FileOfKind ==
  /\ \A kind \in IndexKinds : FileOf(kind) = "index"
  /\ \A kind \in HistoryKinds : FileOf(kind) = "history"
BY DEF FileOf, IndexKinds, HistoryKinds
LEMMA OpKind ==
  /\ \A o \in IndexOps : o.kind \in IndexKinds /\ FileOf(o.kind) = "index" /\ o \notin HistoryOps
  /\ \A o \in HistoryOps : o.kind \in HistoryKinds /\ FileOf(o.kind) = "history" /\ o \notin IndexOps
<1>1. \A o \in IndexOps : o.kind \in IndexKinds
  BY DEF IndexOps
<1>2. \A o \in HistoryOps : o.kind \in HistoryKinds
  BY DEF HistoryOps
<1>3. IndexKinds \cap HistoryKinds = {}
  BY DEF IndexKinds, HistoryKinds
<1> QED BY <1>1, <1>2, <1>3, FileOfKind

\* The second half of an installation.
LEMMA LinkOp ==
  ASSUME NEW o \in IndexOps
  PROVE  LET n == [o EXCEPT !.kind = "link", !.next = Empty, !.stale = FALSE] IN
         n \in IndexOps /\ n.kind = "link" /\ n.id = o.id /\ n.at = o.at
<1>1. Empty \in Indexes
  BY EmptyMap DEF Indexes
<1> HIDE DEF Empty
<1> QED BY <1>1 DEF IndexOps, IndexKinds
\* A copy that is outdated.
LEMMA StaleOp ==
  ASSUME NEW o \in AnyOps
  PROVE  LET n == [o EXCEPT !.stale = TRUE] IN
         /\ n \in AnyOps /\ (o \in IndexOps => n \in IndexOps) /\ (o \in HistoryOps => n \in HistoryOps)
         /\ n.kind = o.kind /\ n.id = o.id /\ n.at = o.at /\ n.next = o.next /\ n.stale
BY DEF IndexOps, HistoryOps, AnyOps

\* One operation takes a step.
LEMMA OpStep ==
  ASSUME OpsOK, NEW p \in Procs, NEW label \in Labels, NEW o \in AnyOps \cup Lists \cup {NoOp},
         Shaped(label, o), pc' = [pc EXCEPT ![p] = label], op' = [op EXCEPT ![p] = o],
         begun' \in 0 .. MaxOps
  PROVE  OpsOK'
<1>1. pc' \in [Procs -> Labels] /\ op' \in [Procs -> AnyOps \cup Lists \cup {NoOp}]
  BY DEF OpsOK
<1>2. ASSUME NEW q \in Procs
      PROVE  Shaped(pc'[q], op'[q])
  <2>1. CASE q = p
    BY <2>1 DEF OpsOK
  <2>2. CASE q # p
    BY <2>2 DEF OpsOK
  <2> QED BY <2>1, <2>2
<1> QED BY <1>1, <1>2 DEF OpsOK
LEMMA PcStep ==
  ASSUME OpsOK, NEW p \in Procs, NEW label \in Labels, Shaped(label, op[p]),
         pc' = [pc EXCEPT ![p] = label], UNCHANGED <<op, begun>>
  PROVE  OpsOK'
<1>1. op' = [op EXCEPT ![p] = op[p]] /\ op[p] \in AnyOps \cup Lists \cup {NoOp}
  BY DEF OpsOK
<1>2. begun' \in 0 .. MaxOps
  BY DEF OpsOK
<1> QED BY <1>1, <1>2, OpStep

\* What is read of a file.
LEMMA LoadedType ==
  ASSUME FilesOK
  PROVE  /\ Candidate("index") \in Indexes /\ Candidate("history") \in Histories
         /\ \A kind \in IndexKinds : Loaded(kind) \in Indexes
         /\ \A kind \in HistoryKinds : Loaded(kind) \in Histories
<1>1. Empty \in Indexes /\ Empty \in Histories
  BY EmptyMap DEF Indexes, Histories
<1> HIDE DEF Empty
<1>2. Candidate("index") \in Indexes /\ CurrentOnly("index") \in Indexes
  BY <1>1 DEF FilesOK, Candidate, CurrentOnly
<1>3. Candidate("history") \in Histories
  BY <1>1 DEF FilesOK, Candidate
<1> QED BY <1>2, <1>3, FileOfKind DEF Loaded

\* What each operation writes, having read x.
LEMMA EditedIndex ==
  ASSUME NEW o \in IndexOps, o.kind # "repair", NEW x \in Indexes, Applies(o, x)
  PROVE  LET e == Edited(o, x) IN
         /\ e \in Indexes
         /\ o.kind \in Imports =>
              /\ DOMAIN e = DOMAIN x \cup {o.id} /\ e[o.id] = NewEntry
              /\ o.id \notin DOMAIN x /\ \A r \in DOMAIN x : e[r] = x[r]
         /\ o.kind \in {"link", "played", "mark"} =>
              /\ DOMAIN e = DOMAIN x /\ o.id \in DOMAIN x
              /\ \A r \in DOMAIN x : r # o.id => e[r] = x[r]
              /\ e[o.id].played = x[o.id].played + (IF o.kind = "played" THEN 1 ELSE 0)
              /\ (e[o.id].cat <=> x[o.id].cat \/ o.kind = "link")
         /\ o.kind = "remove" =>
              DOMAIN e = DOMAIN x \ {o.id} /\ \A r \in DOMAIN e : e[r] = x[r]
<1> DEFINE e == Edited(o, x)
<1>1. o.kind \in {"import", "install", "link", "played", "mark", "remove"} /\ o.id \in Roms
  BY DEF IndexOps, IndexKinds
<1>2. DOMAIN x \subseteq Roms /\ x \in [DOMAIN x -> GameEntry] /\ \A r \in DOMAIN x : x[r] \in GameEntry
  BY OfMap DEF Indexes
<1>3. CASE o.kind \in Imports
  <2>1. e = Put(x, o.id, NewEntry)
    BY <1>3 DEF Edited, Imports
  <2>4. o.id \notin DOMAIN x
    BY <1>3 DEF Applies, Imports, HistoryKinds
  <2>2. NewEntry \in GameEntry
    BY DEF NewEntry, GameEntry
  <2>3. /\ Put(x, o.id, NewEntry) \in Indexes /\ DOMAIN Put(x, o.id, NewEntry) = DOMAIN x \cup {o.id}
        /\ Put(x, o.id, NewEntry)[o.id] = NewEntry
        /\ \A r \in DOMAIN x : r # o.id => Put(x, o.id, NewEntry)[r] = x[r]
    <3>1. Put(x, o.id, NewEntry) \in Indexes
      BY <1>1, <2>2, PutMap DEF Indexes
    <3>2. /\ DOMAIN Put(x, o.id, NewEntry) = DOMAIN x \cup {o.id}
          /\ Put(x, o.id, NewEntry)[o.id] = NewEntry
          /\ \A j \in DOMAIN x : j # o.id => Put(x, o.id, NewEntry)[j] = x[j]
      BY DEF Put
    <3> QED BY <3>1, <3>2
  <2> HIDE DEF NewEntry
  <2> QED BY <1>3, <2>1, <2>3, <2>4 DEF Imports
<1>4. CASE o.kind \in {"link", "played", "mark"}
  <2>1. o.id \in DOMAIN x
    BY <1>4 DEF Applies, Imports, HistoryKinds
  <2>2. x[o.id] \in GameEntry
    BY <1>2, <2>1
  <2>3. PICK g \in GameEntry :
          /\ e = [x EXCEPT ![o.id] = g]
          /\ g.played = x[o.id].played + (IF o.kind = "played" THEN 1 ELSE 0)
          /\ g.cat <=> x[o.id].cat \/ o.kind = "link"
    <3>1. CASE o.kind = "link"
      <4> DEFINE g == [x[o.id] EXCEPT !.cat = TRUE]
      <4>1. e = [x EXCEPT ![o.id] = g]
        BY <3>1 DEF Edited, Imports
      <4>2. g \in GameEntry /\ g.played = x[o.id].played /\ g.cat /\ x[o.id].played \in Nat
        BY <2>2 DEF GameEntry
      <4>3. x[o.id].played + 0 = x[o.id].played
        BY <4>2
      <4> HIDE DEF g
      <4> QED BY <3>1, <4>1, <4>2, <4>3
    <3>2. CASE o.kind = "played"
      <4> DEFINE g == [x[o.id] EXCEPT !.played = @ + 1]
      <4>1. e = [x EXCEPT ![o.id] = g]
        BY <3>2 DEF Edited, Imports
      <4>2. g \in GameEntry /\ g.played = x[o.id].played + 1 /\ g.cat = x[o.id].cat /\ x[o.id].cat \in BOOLEAN
        BY <2>2 DEF GameEntry
      <4> QED BY <3>2, <4>1, <4>2
    <3>3. CASE o.kind = "mark"
      <4>1. e = x /\ x = [x EXCEPT ![o.id] = x[o.id]]
        BY <1>2, <2>1, <3>3 DEF Edited, Imports
      <4>2. x[o.id].played \in Nat /\ x[o.id].cat \in BOOLEAN
        BY <2>2 DEF GameEntry
      <4> QED BY <2>2, <3>3, <4>1, <4>2
    <3> QED BY <1>4, <3>1, <3>2, <3>3
  <2>4. e \in [DOMAIN x -> GameEntry] /\ e[o.id] = g /\ \A r \in DOMAIN x : r # o.id => e[r] = x[r]
    BY <1>2, <2>1, <2>3
  <2>5. e \in Indexes
    BY <1>2, <2>4, IsMap DEF Indexes
  <2> QED BY <1>4, <2>1, <2>3, <2>4, <2>5 DEF Imports
<1>5. CASE o.kind = "remove"
  <2>1. e = Restrict(x, DOMAIN x \ {o.id})
    BY <1>5 DEF Edited, Imports
  <2>2. DOMAIN x \ {o.id} \in SUBSET DOMAIN x
    OBVIOUS
  <2> QED BY <1>5, <2>1, <2>2, RestrictMap DEF Indexes, Imports
<1> QED BY <1>1, <1>3, <1>4, <1>5 DEF Imports
LEMMA EditedHistory ==
  ASSUME NEW o \in HistoryOps, NEW x \in Histories
  PROVE  LET e == Edited(o, x) IN
         /\ Applies(o, x) /\ e \in Histories
         /\ o.kind = "upsert" => Put(x, o.id, o.at) \in Histories /\ e = Newest(Put(x, o.id, o.at))
         /\ o.kind = "forget" =>
              DOMAIN e = DOMAIN x \ {o.id} /\ \A s \in DOMAIN e : e[s] = x[s]
<1> DEFINE e == Edited(o, x)
<1>1. o.kind \in {"upsert", "forget"} /\ o.id \in Sessions /\ o.at \in 1 .. MaxOps
  BY DEF HistoryOps, HistoryKinds
<1>2. Applies(o, x)
  BY <1>1 DEF Applies, Imports, HistoryKinds
<1>3. CASE o.kind = "upsert"
  <2>1. e = Newest(Put(x, o.id, o.at))
    BY <1>3 DEF Edited, Imports
  <2>2. Put(x, o.id, o.at) \in Histories
    BY <1>1, PutMap DEF Histories
  <2> QED BY <1>2, <1>3, <2>1, <2>2, NewestKeeps
<1>4. CASE o.kind = "forget"
  <2>1. e = Restrict(x, DOMAIN x \ {o.id})
    BY <1>4 DEF Edited, Imports
  <2>2. DOMAIN x \ {o.id} \in SUBSET DOMAIN x
    OBVIOUS
  <2> QED BY <1>2, <1>4, <2>1, <2>2, RestrictMap DEF Histories
<1> QED BY <1>1, <1>3, <1>4

\* What a repair writes.
LEMMA RebuiltType ==
  ASSUME NEW x \in Indexes
  PROVE  /\ Rebuilt(x) \in Indexes /\ DOMAIN Rebuilt(x) = SoundRoms
         /\ \A r \in SoundRoms : r \in DOMAIN x => Rebuilt(x)[r] = x[r]
<1>1. \A r \in DOMAIN x : x[r] \in GameEntry
  BY OfMap DEF Indexes
<1>2. NewEntry \in GameEntry
  BY DEF NewEntry, GameEntry
<1>3. SoundRoms \in SUBSET Roms
  BY DEF SoundRoms
<1> HIDE DEF NewEntry
<1>4. Rebuilt(x) \in [SoundRoms -> GameEntry]
  BY <1>1, <1>2 DEF Rebuilt
<1>5. Rebuilt(x) \in Indexes
  BY <1>3, <1>4, IsMap DEF Indexes
<1> QED BY <1>4, <1>5 DEF Rebuilt

\* What an operation returns with.
LEMMA ReturnedType ==
  ASSUME PromisesOK, NEW o \in AnyOps, NEW x,
         o \in IndexOps => x \in Indexes,
         o.kind \in {"import", "link"} => o.id \in DOMAIN x,
         Returned(o, x)
  PROVE  /\ owned' \subseteq Roms /\ linked' \subseteq owned'
         /\ credit' \in [Roms -> Nat] /\ acked' \in Histories
<1>1. /\ owned \subseteq Roms /\ linked \subseteq owned /\ credit \in [Roms -> Nat]
      /\ acked \in Histories
  BY DEF PromisesOK
<1>2. CASE o \in IndexOps
  <2>1. o.id \in Roms /\ o.kind \in IndexKinds /\ x \in Indexes
    BY <1>2 DEF IndexOps
  <2>2. acked' = acked
    BY <2>1 DEF Returned, IndexKinds
  <2>3. owned' \subseteq Roms /\ linked' \subseteq owned'
    BY <1>1, <2>1 DEF Returned, IndexKinds
  <2>4. \A r \in DOMAIN x : x[r].played \in Nat
    <3>1. \A r \in DOMAIN x : x[r] \in GameEntry
      BY <2>1, OfMap DEF Indexes
    <3> QED BY <3>1 DEF GameEntry
  <2>5. credit' \in [Roms -> Nat]
    BY <1>1, <2>1, <2>4 DEF Returned, IndexKinds
  <2> QED BY <1>1, <2>2, <2>3, <2>5
<1>3. CASE o \in HistoryOps
  <2>1. o.id \in Sessions /\ o.kind \in HistoryKinds /\ o.at \in 1 .. MaxOps
    BY <1>3 DEF HistoryOps
  <2>2. owned' = owned /\ linked' = linked /\ credit' = credit
    BY <2>1 DEF Returned, HistoryKinds
  <2>3. Put(acked, o.id, o.at) \in Histories
    BY <1>1, <2>1, PutMap DEF Histories
  <2>4. \A h \in Histories : Uncrowded(h, x) \in Histories
    <3> SUFFICES ASSUME NEW h \in Histories
                 PROVE  Uncrowded(h, x) \in Histories
      OBVIOUS
    <3>1. {s \in DOMAIN h : Cardinality({t \in DOMAIN x : x[t] > h[s]}) < MaxSessions} \in SUBSET DOMAIN h
      OBVIOUS
    <3> QED BY <3>1, RestrictMap DEF Uncrowded, Histories
  <2>5. Restrict(acked, DOMAIN acked \ {o.id}) \in Histories
    <3>1. DOMAIN acked \ {o.id} \in SUBSET DOMAIN acked
      OBVIOUS
    <3> QED BY <1>1, <3>1, RestrictMap DEF Histories
  <2>6. acked' \in Histories
    BY <1>1, <2>1, <2>3, <2>4, <2>5 DEF Returned, HistoryKinds
  <2> QED BY <1>1, <2>2, <2>6
<1> QED BY <1>2, <1>3 DEF AnyOps

\* A new operation.
LEMMA StartsOp ==
  ASSUME OpsOK, NEW p \in Procs, NEW kind, NEW id, NEW label \in {"confirm", "exists", "load"},
         \/ kind \in IndexKinds /\ id \in Roms
         \/ kind \in HistoryKinds /\ id \in Sessions,
         label # "load" => kind \in Imports,
         Starts(p, kind, id, label)
  PROVE  \E o \in AnyOps :
           /\ o.kind = kind /\ o.id = id /\ o.at = begun + 1 /\ begun' = begun + 1
           /\ pc[p] = "idle" /\ pc' = [pc EXCEPT ![p] = label] /\ op' = [op EXCEPT ![p] = o]
           /\ OpsOK'
<1> DEFINE o == [kind |-> kind, id |-> id, at |-> begun', next |-> Empty, stale |-> FALSE]
<1>1. begun' = begun + 1 /\ begun + 1 \in 1 .. MaxOps /\ begun' \in 0 .. MaxOps
  BY Bounds DEF Starts, OpsOK
<1>2. Empty \in Indexes /\ Empty \in Histories
  BY EmptyMap DEF Indexes, Histories
<1>4. kind \in IndexKinds /\ id \in Roms => o \in IndexOps
  <2> HIDE DEF Empty
  <2> QED BY <1>1, <1>2 DEF IndexOps
<1>5. kind \in HistoryKinds /\ id \in Sessions => o \in HistoryOps
  <2> HIDE DEF Empty
  <2> QED BY <1>1, <1>2 DEF HistoryOps
<1>6. o \in AnyOps /\ o.kind = kind /\ o.id = id /\ o.at = begun'
  BY <1>4, <1>5 DEF AnyOps
<1>7. label # "load" => o \in IndexOps
  BY <1>4, <1>5 DEF Imports, HistoryKinds
<1>8. /\ pc[p] = "idle" /\ pc' = [pc EXCEPT ![p] = label] /\ op' = [op EXCEPT ![p] = o]
  BY DEF Starts, Goto
<1> HIDE DEF o
<1>9. Shaped(label, o)
  BY <1>6, <1>7 DEF Shaped, Reading, Writing
<1>10. label \in Labels
  BY DEF Labels
<1>11. OpsOK'
  BY <1>1, <1>6, <1>8, <1>9, <1>10, OpStep
<1> QED BY <1>1, <1>6, <1>8, <1>11

\* The three outcomes of a read: a change to write, a repair that goes on to the ROM files,
\* and an operation that has nothing to change.
LEMMA LoadCases ==
  ASSUME FilesOK, OpsOK, NEW p \in Procs, Load(p)
  PROVE  LET o == op[p]  x == Loaded(o.kind) IN
    /\ o \in AnyOps /\ pc[p] = "load"
    /\ o \in IndexOps => x \in Indexes
    /\ o \in HistoryOps => x \in Histories /\ Applies(o, x) /\ o.kind # "repair"
    /\ OpsOK'
    /\ \/ \E n \in AnyOps :
            /\ o.kind # "repair" /\ Applies(o, x) /\ UNCHANGED <<promises, hurt>>
            /\ pc' = [pc EXCEPT ![p] = "unlink"] /\ op' = [op EXCEPT ![p] = n]
            /\ n.kind = o.kind /\ n.id = o.id /\ n.at = o.at
            /\ n.next = Edited(o, x) /\ n.stale = Misses(o.kind)
            /\ (o \in IndexOps => n \in IndexOps) /\ (o \in HistoryOps => n \in HistoryOps)
       \/ \E n \in IndexOps :
            /\ o \in IndexOps /\ o.kind = "repair" /\ UNCHANGED <<promises, hurt>>
            /\ pc' = [pc EXCEPT ![p] = "scan"] /\ op' = [op EXCEPT ![p] = n]
            /\ n.kind = o.kind /\ n.id = o.id /\ n.at = o.at
            /\ n.next = x /\ n.stale = Misses(o.kind)
       \/ /\ o \in IndexOps /\ o.kind # "repair" /\ ~Applies(o, x)
          /\ \/ \E n \in IndexOps :
                  /\ o.kind = "install" /\ pc' = pc /\ op' = [op EXCEPT ![p] = n]
                  /\ n.kind = "link" /\ n.id = o.id /\ n.at = o.at
             \/ /\ o.kind # "install"
                /\ pc' = [pc EXCEPT ![p] = "idle"] /\ op' = [op EXCEPT ![p] = NoOp]
          /\ IF o.kind = "import" THEN o.id \in DOMAIN x /\ Returned(o, x) ELSE UNCHANGED promises
          /\ hurt' = IF o.kind \in Imports /\ Dropping(o.id) THEN hurt \cup {"index"} ELSE hurt
<1> DEFINE o == op[p]
           x == Loaded(o.kind)
<1>1. pc[p] = "load" /\ op \in [Procs -> AnyOps \cup Lists \cup {NoOp}]
  BY DEF Load, OpsOK
<1>2. o \in AnyOps /\ (o \in IndexOps \/ o \in HistoryOps)
  BY <1>1 DEF OpsOK, Shaped, Reading, AnyOps
<1>3. o \in IndexOps => x \in Indexes
  BY LoadedType, OpKind
<1>4. o \in HistoryOps => x \in Histories /\ Applies(o, x) /\ o.kind # "repair"
  BY LoadedType, OpKind, EditedHistory DEF HistoryKinds
<1>5. begun' \in 0 .. MaxOps /\ UNCHANGED begun
  BY DEF Load, OpsOK
<1>6. Misses(o.kind) \in BOOLEAN
  BY DEF Misses
<1>7. ASSUME o.kind # "repair", Applies(o, x), Goto(p, "unlink"),
             op' = [op EXCEPT ![p].next = Edited(o, x), ![p].stale = Misses(o.kind)]
      PROVE  OpsOK' /\ \E n \in AnyOps :
            /\ pc' = [pc EXCEPT ![p] = "unlink"] /\ op' = [op EXCEPT ![p] = n]
            /\ n.kind = o.kind /\ n.id = o.id /\ n.at = o.at
            /\ n.next = Edited(o, x) /\ n.stale = Misses(o.kind)
            /\ (o \in IndexOps => n \in IndexOps) /\ (o \in HistoryOps => n \in HistoryOps)
  <2> DEFINE n == [o EXCEPT !.next = Edited(o, x), !.stale = Misses(o.kind)]
  <2>1. pc' = [pc EXCEPT ![p] = "unlink"] /\ op' = [op EXCEPT ![p] = n]
    BY <1>1, <1>7 DEF Goto
  <2>2. o \in IndexOps => Edited(o, x) \in Indexes
    BY <1>3, <1>7, EditedIndex
  <2>3. o \in HistoryOps => Edited(o, x) \in Histories
    BY <1>4, EditedHistory
  <2>4. /\ n.kind = o.kind /\ n.id = o.id /\ n.at = o.at
        /\ n.next = Edited(o, x) /\ n.stale = Misses(o.kind)
        /\ (o \in IndexOps => n \in IndexOps) /\ (o \in HistoryOps => n \in HistoryOps)
    <3>1. PICK b \in BOOLEAN : b = Misses(o.kind)
      BY <1>6
    <3>2. n = [o EXCEPT !.next = Edited(o, x), !.stale = b]
      BY <3>1
    <3>3. CASE o \in IndexOps
      BY <2>2, <3>1, <3>2, <3>3, OpKind DEF IndexOps
    <3>4. CASE o \in HistoryOps
      BY <2>3, <3>1, <3>2, <3>4, OpKind DEF HistoryOps
    <3> QED BY <1>2, <3>3, <3>4
  <2>5. o.kind \in Imports \cup {"link"} => o.id \in DOMAIN Edited(o, x)
    <3>1. ASSUME o.kind \in Imports \cup {"link"}
          PROVE  o \in IndexOps
      BY <1>2, <3>1, OpKind DEF Imports, HistoryKinds
    <3>2. ASSUME o.kind \in Imports \cup {"link"}
          PROVE  x \in Indexes /\ o \in IndexOps
      BY <1>3, <3>1, <3>2
    <3> HIDE DEF o, x
    <3>3. ASSUME o.kind \in Imports
          PROVE  DOMAIN Edited(o, x) = DOMAIN x \cup {o.id}
      BY <1>7, <3>2, <3>3, EditedIndex
    <3>4. ASSUME o.kind = "link"
          PROVE  DOMAIN Edited(o, x) = DOMAIN x /\ o.id \in DOMAIN x
      BY <1>7, <3>2, <3>4, EditedIndex
    <3> QED BY <3>3, <3>4
  <2> HIDE DEF n
  <2>6. Shaped("unlink", n) /\ n \in AnyOps /\ "unlink" \in Labels
    BY <1>2, <2>4, <2>5 DEF Shaped, Reading, Writing, AnyOps, Labels
  <2> QED BY <1>5, <2>1, <2>4, <2>6, OpStep
<1>8. ASSUME o.kind = "repair", Goto(p, "scan"),
             op' = [op EXCEPT ![p].next = x, ![p].stale = Misses(o.kind)]
      PROVE  OpsOK' /\ o \in IndexOps /\ \E n \in IndexOps :
            /\ pc' = [pc EXCEPT ![p] = "scan"] /\ op' = [op EXCEPT ![p] = n]
            /\ n.kind = o.kind /\ n.id = o.id /\ n.at = o.at
            /\ n.next = x /\ n.stale = Misses(o.kind)
  <2> DEFINE n == [o EXCEPT !.next = x, !.stale = Misses(o.kind)]
  <2>1. pc' = [pc EXCEPT ![p] = "scan"] /\ op' = [op EXCEPT ![p] = n]
    BY <1>1, <1>8 DEF Goto
  <2>2. o \in IndexOps
    BY <1>2, <1>4, <1>8
  <2>3. /\ n \in IndexOps /\ n.kind = o.kind /\ n.id = o.id /\ n.at = o.at
        /\ n.next = x /\ n.stale = Misses(o.kind)
    <3>1. PICK b \in BOOLEAN : b = Misses(o.kind)
      BY <1>6
    <3>2. n = [o EXCEPT !.next = x, !.stale = b]
      BY <3>1
    <3> QED BY <1>3, <2>2, <3>1, <3>2 DEF IndexOps
  <2> HIDE DEF n
  <2>4. Shaped("scan", n) /\ n \in AnyOps /\ "scan" \in Labels
    BY <1>8, <2>3 DEF Shaped, Reading, Writing, AnyOps, Labels
  <2> QED BY <1>5, <2>1, <2>2, <2>3, <2>4, OpStep
<1>9. ASSUME o \in IndexOps, o.kind = "install", Link(p)
      PROVE  OpsOK' /\ \E n \in IndexOps :
                  /\ pc' = pc /\ op' = [op EXCEPT ![p] = n]
                  /\ n.kind = "link" /\ n.id = o.id /\ n.at = o.at
  <2> DEFINE n == [o EXCEPT !.kind = "link", !.next = Empty, !.stale = FALSE]
  <2>1. pc' = [pc EXCEPT ![p] = "load"] /\ op' = [op EXCEPT ![p] = n]
    BY <1>1, <1>9 DEF Link, Goto
  <2>2. n \in IndexOps /\ n.kind = "link" /\ n.id = o.id /\ n.at = o.at
    BY <1>9, LinkOp
  <2> HIDE DEF n
  <2>3. Shaped("load", n) /\ n \in AnyOps /\ "load" \in Labels
    BY <2>2 DEF Shaped, Reading, Writing, AnyOps, Labels
  <2>4. pc' = pc
    BY <1>1, <2>1 DEF OpsOK
  <2> QED BY <1>5, <2>1, <2>2, <2>3, <2>4, OpStep
<1>10. ASSUME Return(p)
       PROVE  /\ OpsOK' /\ pc' = [pc EXCEPT ![p] = "idle"] /\ op' = [op EXCEPT ![p] = NoOp]
  <2>1. pc' = [pc EXCEPT ![p] = "idle"] /\ op' = [op EXCEPT ![p] = NoOp]
    BY <1>10 DEF Return, Goto
  <2>2. Shaped("idle", NoOp) /\ "idle" \in Labels
    BY DEF Shaped, Reading, Writing, Labels
  <2> QED BY <1>5, <2>1, <2>2, OpStep
<1>11. CASE o.kind # "repair" /\ Applies(o, x)
  <2>1. /\ Goto(p, "unlink") /\ UNCHANGED <<promises, hurt>>
        /\ op' = [op EXCEPT ![p].next = Edited(o, x), ![p].stale = Misses(o.kind)]
    BY <1>11 DEF Load
  <2> QED BY <1>1, <1>2, <1>3, <1>4, <1>7, <1>11, <2>1
<1>12. CASE o.kind = "repair"
  <2>1. /\ Goto(p, "scan") /\ UNCHANGED <<promises, hurt>>
        /\ op' = [op EXCEPT ![p].next = x, ![p].stale = Misses(o.kind)]
    BY <1>12 DEF Load
  <2> QED BY <1>1, <1>2, <1>3, <1>4, <1>8, <1>12, <2>1
<1>13. CASE o.kind # "repair" /\ ~Applies(o, x)
  <2>1. /\ IF o.kind = "install" THEN Link(p) ELSE Return(p)
        /\ IF o.kind = "import" THEN Returned(o, x) ELSE UNCHANGED promises
        /\ hurt' = IF o.kind \in Imports /\ Dropping(o.id) THEN hurt \cup {"index"} ELSE hurt
    BY <1>13 DEF Load
  <2>2. o \in IndexOps
    BY <1>2, <1>4, <1>13
  <2>3. o.kind = "import" => o.id \in DOMAIN x
    BY <1>13 DEF Applies, Imports, HistoryKinds
  <2> QED BY <1>1, <1>2, <1>3, <1>4, <1>9, <1>10, <1>13, <2>1, <2>2, <2>3
<1> QED BY <1>11, <1>12, <1>13

\* A file that is written is there.
LEMMA Content ==
  ASSUME NEW x, x \in Indexes \/ x \in Histories
  PROVE  x # NoFile
<1>1. CASE x \in Indexes
  <2>1. DOMAIN x \in SUBSET Roms /\ x \in [DOMAIN x -> GameEntry]
    BY <1>1, OfMap DEF Indexes
  <2> QED BY <2>1, LibraryAssumption, Zenon DEF GameEntry
<1>2. CASE x \in Histories
  <2>1. DOMAIN x \in SUBSET Sessions /\ x \in [DOMAIN x -> 1 .. MaxOps]
    BY <1>2, OfMap DEF Histories
  <2>2. x \in [DOMAIN x -> Nat]
    BY <2>1, Bounds
  <2>3. \A D \in SUBSET Sessions : NoFile \notin [D -> Nat]
    BY LibraryAssumption, Zenon
  <2> QED BY <2>1, <2>2, <2>3
<1> QED BY <1>1, <1>2

\* The new file takes its name, and whoever has read the old one holds an outdated copy.
LEMMA PlaceFacts ==
  ASSUME FilesOK, OpsOK, NEW p \in Procs, Place(p)
  PROVE  LET o == op[p]  f == FileOf(o.kind) IN
    /\ o \in AnyOps /\ pc[p] = "place" /\ o.next # NoFile
    /\ o \in IndexOps => f = "index" /\ o.next \in Indexes
    /\ o \in HistoryOps => f = "history" /\ o.next \in Histories
    /\ \A q \in Procs : q # p =>
         /\ pc'[q] = pc[q]
         /\ ~Holds(q, f) => op'[q] = op[q]
         /\ op[q] \in AnyOps =>
              /\ op'[q].kind = op[q].kind /\ op'[q].id = op[q].id /\ op'[q].at = op[q].at
              /\ op'[q].next = op[q].next /\ (op'[q].stale <=> op[q].stale \/ Holds(q, f))
    /\ o.kind = "install" => pc'[p] = "load" /\ op'[p].kind = "link" /\ op'[p].id = o.id
    /\ o.kind = "remove" => pc'[p] = "drop" /\ op'[p].kind = "remove" /\ op'[p].id = o.id
    /\ o.kind \notin {"install", "remove"} => pc'[p] = "idle"
    /\ OpsOK'
<1> DEFINE o == op[p]
           f == FileOf(o.kind)
           n == CASE o.kind = "install" -> [o EXCEPT !.kind = "link", !.next = Empty, !.stale = FALSE]
                  [] o.kind = "remove" -> [o EXCEPT !.next = Empty]
                  [] OTHER -> NoOp
           label == CASE o.kind = "install" -> "load" [] o.kind = "remove" -> "drop" [] OTHER -> "idle"
<1>1. /\ pc[p] = "place" /\ pc' = [pc EXCEPT ![p] = label]
      /\ op' = [Outdated(f, op) EXCEPT ![p] = n] /\ UNCHANGED begun
  BY DEF Place, Goto
<1>2. /\ pc \in [Procs -> Labels] /\ op \in [Procs -> AnyOps \cup Lists \cup {NoOp}]
      /\ \A q \in Procs : Shaped(pc[q], op[q])
  BY DEF OpsOK
<1>3. o \in AnyOps
  BY <1>1, <1>2 DEF Shaped, Reading
<1>4. /\ o \in IndexOps => f = "index" /\ o.next \in Indexes /\ o.id \in Roms
      /\ o \in HistoryOps => f = "history" /\ o.next \in Histories
  BY OpKind DEF IndexOps, HistoryOps
<1>5. o.next # NoFile
  BY <1>3, <1>4, Content DEF AnyOps
<1>6. \A q \in Procs : Holds(q, f) => op[q] \in AnyOps
  <2> SUFFICES ASSUME NEW q \in Procs, Holds(q, f)
               PROVE  op[q] \in AnyOps
    OBVIOUS
  <2>1. Shaped(pc[q], op[q]) /\ pc[q] \in {"scan", "unlink", "aside", "place"}
    BY <1>2 DEF Holds
  <2> QED BY <2>1 DEF Shaped, Reading, AnyOps
<1>7. ASSUME NEW q \in Procs, q # p
      PROVE  /\ pc'[q] = pc[q]
             /\ op'[q] = IF Holds(q, f) THEN [op[q] EXCEPT !.stale = TRUE] ELSE op[q]
  <2> HIDE DEF n, label, f
  <2>1. op'[q] = Outdated(f, op)[q]
    BY <1>1, <1>7 DEF Outdated
  <2> QED BY <1>1, <1>2, <1>7, <2>1 DEF Outdated
<1>8. ASSUME NEW q \in Procs, q # p
      PROVE  /\ op'[q] \in AnyOps \cup Lists \cup {NoOp} /\ Shaped(pc'[q], op'[q])
             /\ ~Holds(q, f) => op'[q] = op[q]
             /\ op[q] \in AnyOps =>
                  /\ op'[q].kind = op[q].kind /\ op'[q].id = op[q].id /\ op'[q].at = op[q].at
                  /\ op'[q].next = op[q].next /\ (op'[q].stale <=> op[q].stale \/ Holds(q, f))
  <2>1. CASE Holds(q, f)
    <3> DEFINE m == [op[q] EXCEPT !.stale = TRUE]
    <3>1. op'[q] = m /\ pc'[q] = pc[q]
      BY <1>7, <1>8, <2>1
    <3>2. /\ m \in AnyOps /\ (op[q] \in IndexOps => m \in IndexOps)
          /\ m.kind = op[q].kind /\ m.id = op[q].id /\ m.at = op[q].at /\ m.next = op[q].next /\ m.stale
      BY <1>6, <2>1, StaleOp
    <3>3. Shaped(pc[q], op[q]) /\ pc[q] \in {"scan", "unlink", "aside", "place"}
      BY <1>2, <2>1 DEF Holds
    <3> HIDE DEF m
    <3>4. Shaped(pc[q], m)
      BY <3>2, <3>3 DEF Shaped, Reading, Writing
    <3> QED BY <2>1, <3>1, <3>2, <3>4
  <2>2. CASE ~Holds(q, f)
    <3>1. op'[q] = op[q] /\ pc'[q] = pc[q]
      BY <1>7, <1>8, <2>2
    <3> QED BY <1>2, <2>2, <3>1
  <2> QED BY <2>1, <2>2
<1>9. op'[p] = n /\ pc'[p] = label
  <2>1. DOMAIN Outdated(f, op) = Procs /\ DOMAIN pc = Procs
    BY <1>2 DEF Outdated
  <2> QED BY <1>1, <2>1, Zenon
<1>10. /\ o.kind = "install" => o \in IndexOps /\ n \in IndexOps /\ n.kind = "link" /\ n.id = o.id /\ label = "load"
       /\ o.kind = "remove" => o \in IndexOps /\ n \in IndexOps /\ n.kind = "remove" /\ n.id = o.id /\ label = "drop"
       /\ o.kind \notin {"install", "remove"} => n = NoOp /\ label = "idle"
  <2>1. CASE o.kind = "install"
    <3>1. o \in IndexOps
      BY <1>3, <2>1, OpKind DEF AnyOps, HistoryKinds
    <3>2. n = [o EXCEPT !.kind = "link", !.next = Empty, !.stale = FALSE] /\ label = "load"
      BY <2>1
    <3> HIDE DEF n, label
    <3> QED BY <2>1, <3>1, <3>2, LinkOp
  <2>2. CASE o.kind = "remove"
    <3>1. o \in IndexOps
      BY <1>3, <2>2, OpKind DEF AnyOps, HistoryKinds
    <3>2. n = [o EXCEPT !.next = Empty] /\ label = "drop"
      BY <2>2
    <3>3. Empty \in Indexes
      BY EmptyMap DEF Indexes
    <3> HIDE DEF n, label, Empty
    <3> QED BY <2>2, <3>1, <3>2, <3>3 DEF IndexOps
  <2>3. CASE o.kind \notin {"install", "remove"}
    BY <2>3
  <2> QED BY <2>1, <2>2, <2>3
<1> HIDE DEF n, label
<1>11. n \in AnyOps \cup {NoOp} /\ label \in Labels /\ Shaped(label, n)
  BY <1>10 DEF AnyOps, Labels, Shaped, Reading, Writing
<1>12. OpsOK'
  <2>1. DOMAIN pc' = Procs /\ DOMAIN op' = Procs
    BY <1>1, <1>2 DEF Outdated
  <2>2. pc' = [q \in Procs |-> pc'[q]] /\ op' = [q \in Procs |-> op'[q]]
    BY <1>1, <1>2 DEF Outdated
  <2>3. ASSUME NEW q \in Procs
        PROVE  pc'[q] \in Labels /\ op'[q] \in AnyOps \cup Lists \cup {NoOp} /\ Shaped(pc'[q], op'[q])
    BY <1>2, <1>7, <1>8, <1>9, <1>11
  <2>4. pc' \in [Procs -> Labels] /\ op' \in [Procs -> AnyOps \cup Lists \cup {NoOp}]
    BY <2>2, <2>3
  <2>5. begun' \in 0 .. MaxOps
    BY <1>1 DEF OpsOK
  <2> QED BY <2>3, <2>4, <2>5 DEF OpsOK
<1> QED BY <1>1, <1>3, <1>4, <1>5, <1>7, <1>8, <1>9, <1>10, <1>12

\* What is taken from the cache has been parsed.
LEMMA CachedType == CatalogOK => cached \in {NoCatalog} \cup Parsed
BY DEF CatalogOK, cached, Parsed
LEMMA ListAtOnceType ==
  ASSUME CatalogOK, NEW force \in BOOLEAN, ListAtOnce(force)
  PROVE  CatalogOK'
<1>1. UNCHANGED cache /\ cache \in {NoCatalog} \cup Stored
  BY DEF ListAtOnce, CatalogOK
<1>2. \/ FreshCache /\ Show(cached.data, FALSE)
      \/ parseRomCatalog(Bundled) /\ Show(Bundled, FALSE)
  BY DEF ListAtOnce
<1>3. FreshCache => cached \in Parsed
  BY CachedType DEF FreshCache
<1>4. CatalogChecked'
  BY <1>2, <1>3 DEF CatalogChecked, Show, Parsed
<1> QED BY <1>1, <1>4 DEF CatalogOK
LEMMA AnsweredType ==
  ASSUME CatalogOK, NEW old \in {NoCatalog} \cup Parsed,
         (\E c \in Replies : Reply(old, c)) \/ Fallback(old)
  PROVE  CatalogOK'
<1>1. ASSUME NEW c \in Replies, Reply(old, c)
      PROVE  CatalogOK'
  BY <1>1 DEF Reply, Show, CatalogOK, CatalogChecked, Stored
<1>2. ASSUME Fallback(old)
      PROVE  CatalogOK'
  <2>1. UNCHANGED cache /\ cache \in {NoCatalog} \cup Stored /\ CatalogChecked
    BY <1>2 DEF Fallback, CatalogOK
  <2>2. CASE old # NoCatalog
    <3>1. Show(old.data, TRUE) /\ old \in Parsed
      BY <1>2, <2>2 DEF Fallback
    <3> QED BY <2>1, <3>1 DEF Show, CatalogOK, CatalogChecked, Parsed
  <2>3. CASE old = NoCatalog /\ parseRomCatalog(Bundled)
    <3>1. Show(Bundled, TRUE)
      BY <1>2, <2>3 DEF Fallback
    <3> QED BY <2>1, <2>3, <3>1 DEF Show, CatalogOK, CatalogChecked
  <2>4. CASE old = NoCatalog /\ ~parseRomCatalog(Bundled)
    <3>1. UNCHANGED shown
      BY <1>2, <2>4 DEF Fallback
    <3> QED BY <2>1, <3>1 DEF CatalogOK, CatalogChecked
  <2> QED BY <2>2, <2>3, <2>4
<1> QED BY <1>1, <1>2

\* What an action leaves alone.
LEMMA FilesFrame == FilesOK /\ UNCHANGED files => FilesOK'
BY DEF FilesOK, files
LEMMA PromisesFrame == PromisesOK /\ UNCHANGED <<promises, faults>> => PromisesOK'
BY DEF PromisesOK, promises, faults
LEMMA OpsFrame == OpsOK /\ UNCHANGED <<pc, op, begun>> => OpsOK'
BY DEF OpsOK, Shaped
LEMMA CatalogFrame == CatalogOK /\ UNCHANGED catalogVars => CatalogOK'
BY DEF CatalogOK, catalogVars, CatalogChecked

\* One step of one operation.
LEMMA ImportTyped ==
  ASSUME Typed, NEW p \in Procs, NEW kind \in Imports, NEW f \in Offers, Import(p, kind, f)
  PROVE  Typed'
<1>1. /\ Starts(p, kind, f.id, IF HeaderRisk(f) THEN "confirm" ELSE "exists")
      /\ UNCHANGED <<files, promises, faults, catalogVars>>
  BY DEF Import
<1>2. f.id \in Roms /\ kind \in IndexKinds
  BY Bounds DEF Imports, IndexKinds
<1>3. OpsOK'
  BY <1>1, <1>2, StartsOp DEF Typed
<1> QED BY <1>1, <1>3, FilesFrame, PromisesFrame, CatalogFrame DEF Typed
LEMMA BeginTyped ==
  ASSUME Typed, NEW p \in Procs, NEW kind, NEW id, Begin(p, kind, id)
  PROVE  Typed'
<1>1. /\ kind \in Edits /\ id \in (IF kind \in HistoryKinds THEN Sessions ELSE Roms)
      /\ Starts(p, kind, id, "load") /\ UNCHANGED <<files, credit, faults, catalogVars>>
      /\ owned' = IF kind = "remove" THEN owned \ {id} ELSE owned
      /\ linked' = IF kind = "remove" THEN linked \ {id} ELSE linked
      /\ acked' = IF kind = "forget" THEN Restrict(acked, DOMAIN acked \ {id}) ELSE acked
  BY DEF Begin
<1>2. (kind \in IndexKinds /\ id \in Roms) \/ (kind \in HistoryKinds /\ id \in Sessions)
  BY <1>1 DEF Edits, IndexKinds, HistoryKinds
<1>3. OpsOK'
  BY <1>1, <1>2, StartsOp DEF Typed
<1>4. PromisesOK /\ DOMAIN acked \ {id} \in SUBSET DOMAIN acked
  BY DEF Typed
<1>5. Restrict(acked, DOMAIN acked \ {id}) \in Histories
  BY <1>4, RestrictMap DEF PromisesOK, Histories
<1>6. PromisesOK'
  BY <1>1, <1>4, <1>5 DEF PromisesOK, faults
<1> QED BY <1>1, <1>3, <1>6, FilesFrame, CatalogFrame DEF Typed
LEMMA StoreTyped ==
  ASSUME Typed, NEW p \in Procs, Confirm(p) \/ LookForRom(p) \/ StoreRom(p)
  PROVE  Typed'
<1>1. ASSUME pc[p] \in {"confirm", "exists", "store"}, UNCHANGED <<op, begun>>,
             Goto(p, "exists") \/ Goto(p, "store") \/ Goto(p, "load")
      PROVE  OpsOK'
  <2>1. OpsOK /\ Shaped(pc[p], op[p]) /\ op[p] \in IndexOps /\ op[p].kind \in Imports
    BY <1>1 DEF Typed, OpsOK, Shaped
  <2>2. Shaped("exists", op[p]) /\ Shaped("store", op[p]) /\ Shaped("load", op[p])
    BY <2>1 DEF Shaped, Reading, Writing, AnyOps
  <2>3. PICK label \in {"exists", "store", "load"} : pc' = [pc EXCEPT ![p] = label]
    BY <1>1 DEF Goto
  <2>4. label \in Labels /\ Shaped(label, op[p])
    BY <2>2 DEF Labels
  <2> QED BY <1>1, <2>1, <2>3, <2>4, PcStep
<1>2. ASSUME Return(p), UNCHANGED begun
      PROVE  OpsOK'
  <2>1. pc' = [pc EXCEPT ![p] = "idle"] /\ op' = [op EXCEPT ![p] = NoOp]
    BY <1>2 DEF Return, Goto
  <2>2. Shaped("idle", NoOp) /\ "idle" \in Labels /\ OpsOK /\ begun' \in 0 .. MaxOps
    BY <1>2 DEF Shaped, Reading, Writing, Labels, Typed, OpsOK
  <2> QED BY <2>1, <2>2, OpStep
<1>3. CASE Confirm(p)
  <2>1. OpsOK'
    BY <1>1, <1>2, <1>3 DEF Confirm
  <2> QED BY <1>3, <2>1, FilesFrame, PromisesFrame, CatalogFrame DEF Typed, Confirm
<1>4. CASE LookForRom(p)
  <2>1. OpsOK'
    BY <1>1, <1>4 DEF LookForRom
  <2> QED BY <1>4, <2>1, FilesFrame, PromisesFrame, CatalogFrame DEF Typed, LookForRom
<1>5. CASE StoreRom(p)
  <2>1. OpsOK'
    BY <1>1, <1>5 DEF StoreRom
  <2>2. roms' \in [Roms -> {"none", "good", "bad", "gone"}] /\ UNCHANGED <<cur, prev>>
    BY <1>5 DEF StoreRom, Typed, FilesOK
  <2>3. FilesOK'
    BY <2>2 DEF FilesOK, Typed
  <2> QED BY <1>5, <2>1, <2>3, PromisesFrame, CatalogFrame DEF Typed, StoreRom
<1> QED BY <1>3, <1>4, <1>5

LEMMA LoadTyped ==
  ASSUME Typed, NEW p \in Procs, Load(p)
  PROVE  Typed'
<1> DEFINE o == op[p]
           x == Loaded(o.kind)
<1>1. /\ o \in AnyOps /\ (o \in IndexOps => x \in Indexes) /\ OpsOK'
      /\ UNCHANGED <<promises, hurt>> \/
         ((o.kind = "import" => o.id \in DOMAIN x /\ Returned(o, x)) /\
          (o.kind # "import" => UNCHANGED promises) /\
          hurt' \in {hurt, hurt \cup {"index"}})
  BY LoadCases DEF Typed
<1>2. UNCHANGED <<files, begun, cuts, catalogVars>>
  BY DEF Load
<1> HIDE DEF x
<1>3. hurt' \subseteq Names /\ cuts' \in [Names -> 0 .. 2]
  BY <1>1, <1>2 DEF Typed, PromisesOK, Names
<1>4. CASE UNCHANGED promises
  BY <1>1, <1>2, <1>3, <1>4, FilesFrame, CatalogFrame DEF Typed, PromisesOK, promises
<1>5. CASE o.kind = "import" /\ o.id \in DOMAIN x /\ Returned(o, x)
  <2>1. PromisesOK'
    BY <1>1, <1>3, <1>5, ReturnedType DEF Typed, PromisesOK
  <2> QED BY <1>1, <1>2, <2>1, FilesFrame, CatalogFrame DEF Typed
<1> QED BY <1>1, <1>4, <1>5

\* A repair has gone through the ROM files.
LEMMA ScanFacts ==
  ASSUME OpsOK, NEW p \in Procs, ScanRomFiles(p)
  PROVE  /\ pc[p] = "scan" /\ op[p] \in IndexOps /\ op[p].kind = "repair" /\ OpsOK'
         /\ \E n \in IndexOps :
              /\ pc' = [pc EXCEPT ![p] = "unlink"] /\ op' = [op EXCEPT ![p] = n]
              /\ n.kind = "repair" /\ n.next = Rebuilt(op[p].next) /\ n.stale = op[p].stale
<1> DEFINE o == op[p]
           n == [o EXCEPT !.next = Rebuilt(o.next)]
<1>1. pc[p] = "scan" /\ o \in IndexOps /\ o.kind = "repair"
  BY DEF ScanRomFiles, OpsOK, Shaped
<1>2. op \in [Procs -> AnyOps \cup Lists \cup {NoOp}]
  BY DEF OpsOK
<1>3. pc' = [pc EXCEPT ![p] = "unlink"] /\ op' = [op EXCEPT ![p] = n]
  BY <1>2 DEF ScanRomFiles, Goto
<1>4. Rebuilt(o.next) \in Indexes
  BY <1>1, RebuiltType DEF IndexOps
<1>5. n \in IndexOps /\ n.kind = "repair" /\ n.next = Rebuilt(o.next) /\ n.stale = o.stale
  BY <1>1, <1>4 DEF IndexOps
<1> HIDE DEF n
<1>6. n \in AnyOps /\ Shaped("unlink", n) /\ "unlink" \in Labels
  BY <1>5 DEF AnyOps, Shaped, Reading, Writing, Labels, Imports
<1>7. begun' \in 0 .. MaxOps
  BY DEF ScanRomFiles, OpsOK
<1> QED BY <1>1, <1>3, <1>5, <1>6, <1>7, OpStep
LEMMA ScanTyped ==
  ASSUME Typed, NEW p \in Procs, ScanRomFiles(p)
  PROVE  Typed'
<1>1. OpsOK'
  BY ScanFacts DEF Typed
<1>2. roms' \in [Roms -> {"none", "good", "bad", "gone"}] /\ UNCHANGED <<cur, prev>>
  BY DEF ScanRomFiles, Typed, FilesOK
<1>3. FilesOK'
  BY <1>2 DEF FilesOK, Typed
<1>4. hurt' \subseteq Names
  BY DEF ScanRomFiles, Typed, PromisesOK, Names
<1>5. PromisesOK'
  BY <1>4 DEF ScanRomFiles, Typed, PromisesOK
<1> QED BY <1>1, <1>3, <1>5, CatalogFrame DEF Typed, ScanRomFiles

\* What is at hand when a file is being written.
LEMMA WriterOp ==
  ASSUME OpsOK, NEW p \in Procs, pc[p] \in Writing
  PROVE  /\ op[p] \in AnyOps /\ FileOf(op[p].kind) \in Names
         /\ op[p] \in IndexOps => FileOf(op[p].kind) = "index"
         /\ op[p] \in HistoryOps => FileOf(op[p].kind) = "history"
         /\ \A label \in Writing : Shaped(label, op[p])
<1>1. Shaped(pc[p], op[p])
  BY DEF OpsOK
<1>2. op[p] \in AnyOps
  BY <1>1 DEF Shaped, Writing, Reading
<1>3. \A label \in Writing : Shaped(label, op[p])
  BY <1>1 DEF Shaped, Writing, Reading
<1> QED BY <1>2, <1>3, OpKind DEF AnyOps, Names
LEMMA WriteTyped ==
  ASSUME Typed, NEW p \in Procs, UnlinkPrevious(p) \/ MoveAside(p)
  PROVE  Typed'
<1> DEFINE f == FileOf(op[p].kind)
<1>1. OpsOK /\ FilesOK /\ PromisesOK /\ CatalogOK
  BY DEF Typed
<1>2. CASE UnlinkPrevious(p)
  <2>1. pc[p] \in Writing /\ pc' = [pc EXCEPT ![p] = "aside"] /\ UNCHANGED <<op, begun>>
    BY <1>2 DEF UnlinkPrevious, Goto, Writing
  <2>2. f \in Names /\ Shaped("aside", op[p]) /\ "aside" \in Labels
    BY <1>1, <2>1, WriterOp DEF Writing, Labels
  <2>3. OpsOK'
    BY <1>1, <2>1, <2>2, PcStep
  <2>4. /\ prev' = [prev EXCEPT ![f] = NoFile] /\ UNCHANGED <<roms, cur, promises, cuts, catalogVars>>
        /\ hurt' \subseteq hurt \cup {f}
    BY <1>2 DEF UnlinkPrevious
  <2> HIDE DEF f
  <2>5. FilesOK'
    BY <1>1, <2>2, <2>4 DEF FilesOK
  <2>6. PromisesOK'
    BY <1>1, <2>2, <2>4 DEF PromisesOK, promises
  <2> QED BY <1>1, <2>3, <2>4, <2>5, <2>6, CatalogFrame DEF Typed
<1>3. CASE MoveAside(p)
  <2>1. pc[p] \in Writing /\ pc' = [pc EXCEPT ![p] = "place"] /\ UNCHANGED <<op, begun>>
    BY <1>3 DEF MoveAside, Goto, Writing
  <2>2. f \in Names /\ Shaped("place", op[p]) /\ "place" \in Labels
    BY <1>1, <2>1, WriterOp DEF Writing, Labels
  <2>3. OpsOK'
    BY <1>1, <2>1, <2>2, PcStep
  <2>4. /\ \/ prev' = [prev EXCEPT ![f] = cur[f]] /\ cur' = [cur EXCEPT ![f] = NoFile]
           \/ UNCHANGED <<cur, prev>>
        /\ UNCHANGED <<roms, promises, faults, catalogVars>>
    BY <1>3 DEF MoveAside
  <2> HIDE DEF f
  <2>5. FilesOK'
    BY <1>1, <2>2, <2>4 DEF FilesOK, Names
  <2> QED BY <1>1, <2>3, <2>4, <2>5, PromisesFrame, CatalogFrame DEF Typed
<1> QED BY <1>2, <1>3
LEMMA PlaceTyped ==
  ASSUME Typed, NEW p \in Procs, Place(p)
  PROVE  Typed'
<1> DEFINE o == op[p]
           f == FileOf(o.kind)
<1>1. OpsOK /\ FilesOK /\ PromisesOK /\ CatalogOK
  BY DEF Typed
<1>2. /\ o \in AnyOps /\ pc[p] = "place" /\ OpsOK'
      /\ o \in IndexOps => f = "index" /\ o.next \in Indexes
      /\ o \in HistoryOps => f = "history" /\ o.next \in Histories
  BY <1>1, PlaceFacts
<1>3. f \in Names
  BY <1>2 DEF AnyOps, Names
<1>4. /\ cur' = [cur EXCEPT ![f] = o.next] /\ UNCHANGED <<roms, prev, catalogVars>>
      /\ cuts' = [cuts EXCEPT ![f] = IF @ < 2 THEN 0 ELSE 2] /\ hurt' \subseteq hurt \cup {f}
      /\ Returned(o, o.next)
  BY DEF Place
<1>5. o.kind \in {"import", "link"} => o.id \in DOMAIN o.next
  BY <1>1, <1>2 DEF OpsOK, Shaped, Writing, Imports
<1> HIDE DEF f
<1>6. FilesOK'
  BY <1>1, <1>2, <1>3, <1>4 DEF FilesOK, AnyOps
<1>7. cuts' \in [Names -> 0 .. 2] /\ hurt' \subseteq Names
  BY <1>1, <1>3, <1>4 DEF PromisesOK
<1>8. PromisesOK'
  BY <1>1, <1>2, <1>4, <1>5, <1>7, ReturnedType DEF PromisesOK
<1> QED BY <1>1, <1>2, <1>4, <1>6, <1>8, CatalogFrame DEF Typed
LEMMA OthersTyped ==
  ASSUME Typed, NEW p \in Procs,
         DropRom(p) \/ Answered(p) \/ (\E force \in BOOLEAN : List(p, force))
  PROVE  Typed'
<1>1. OpsOK /\ FilesOK /\ PromisesOK /\ CatalogOK
  BY DEF Typed
<1>2. ASSUME Return(p), UNCHANGED begun
      PROVE  OpsOK'
  <2>1. pc' = [pc EXCEPT ![p] = "idle"] /\ op' = [op EXCEPT ![p] = NoOp]
    BY <1>2 DEF Return, Goto
  <2>2. Shaped("idle", NoOp) /\ "idle" \in Labels /\ begun' \in 0 .. MaxOps
    BY <1>1, <1>2 DEF Shaped, Reading, Writing, Labels, OpsOK
  <2> QED BY <1>1, <2>1, <2>2, OpStep
<1>3. CASE DropRom(p)
  <2>1. pc[p] = "drop" /\ OpsOK' /\ op[p] \in IndexOps
    BY <1>1, <1>2, <1>3 DEF DropRom, OpsOK, Shaped
  <2>2. FilesOK'
    BY <1>1, <1>3 DEF DropRom, FilesOK
  <2>3. PromisesOK'
    BY <1>1, <1>3 DEF DropRom, PromisesOK, promises, Names
  <2> QED BY <1>1, <1>3, <2>1, <2>2, <2>3, CatalogFrame DEF Typed, DropRom
<1>4. CASE Answered(p)
  <2>1. OpsOK'
    BY <1>2, <1>4 DEF Answered
  <2>2. op[p].old \in {NoCatalog} \cup Parsed
    BY <1>1, <1>4 DEF Answered, OpsOK, Shaped, Lists
  <2>3. CatalogOK'
    BY <1>1, <1>4, <2>2, AnsweredType DEF Answered
  <2> QED BY <1>1, <1>4, <2>1, <2>3, FilesFrame, PromisesFrame DEF Typed, Answered
<1>5. ASSUME NEW force \in BOOLEAN, List(p, force)
      PROVE  Typed'
  <2>1. UNCHANGED <<files, promises, faults>>
    BY <1>5 DEF List
  <2>2. CASE ListAtOnce(force) /\ UNCHANGED <<pc, op, begun>>
    BY <1>1, <2>1, <2>2, ListAtOnceType, OpsFrame, FilesFrame, PromisesFrame DEF Typed
  <2>3. CASE /\ begun < MaxOps /\ begun' = begun + 1 /\ Goto(p, "reply") /\ UNCHANGED catalogVars
             /\ op' = [op EXCEPT ![p] = [kind |-> "list", old |-> cached]]
    <3> DEFINE o == [kind |-> "list", old |-> cached]
    <3>1. o \in Lists
      BY <1>1, CachedType DEF Lists
    <3>2. pc' = [pc EXCEPT ![p] = "reply"] /\ op' = [op EXCEPT ![p] = o]
      BY <2>3 DEF Goto
    <3> HIDE DEF o
    <3>3. Shaped("reply", o) /\ "reply" \in Labels
      BY <3>1 DEF Shaped, Reading, Writing, Labels
    <3>4. begun' \in 0 .. MaxOps
      BY <1>1, <2>3, Bounds DEF OpsOK
    <3>5. OpsOK'
      BY <1>1, <3>1, <3>2, <3>3, <3>4, OpStep
    <3> QED BY <1>1, <2>1, <2>3, <3>5, CatalogFrame, FilesFrame, PromisesFrame DEF Typed
  <2> QED BY <1>5, <2>2, <2>3 DEF List
<1> QED BY <1>3, <1>4, <1>5
LEMMA FaultsTyped ==
  ASSUME Typed, Expire \/ Kill \/ (\E r \in Roms : Rot(r))
  PROVE  Typed'
<1>1. OpsOK /\ FilesOK /\ PromisesOK /\ CatalogOK
  BY DEF Typed
<1>2. CASE Expire
  <2>1. CatalogOK'
    BY <1>1, <1>2 DEF Expire, Age, CatalogOK, CatalogChecked, Stored
  <2> QED BY <1>1, <1>2, <2>1, FilesFrame, PromisesFrame, OpsFrame DEF Typed, Expire
<1>3. CASE Kill
  <2>1. OpsOK'
    <3>1. /\ pc' = [p \in Procs |-> "idle"] /\ op' = [p \in Procs |-> NoOp] /\ UNCHANGED begun
      BY <1>3 DEF Kill
    <3>2. "idle" \in Labels /\ Shaped("idle", NoOp)
      BY DEF Labels, Shaped, Reading, Writing
    <3> QED BY <1>1, <3>1, <3>2 DEF OpsOK
  <2>2. cuts' \in [Names -> 0 .. 2]
    <3>1. cuts' = [f \in Names |-> IF Cut(f) /\ cuts[f] < 2 THEN cuts[f] + 1 ELSE cuts[f]]
      BY <1>3 DEF Kill
    <3>2. \A f \in Names : cuts[f] \in 0 .. 2
      BY <1>1 DEF PromisesOK
    <3> QED BY <3>1, <3>2
  <2>3. PromisesOK'
    BY <1>1, <1>3, <2>2 DEF Kill, PromisesOK, promises
  <2>4. CatalogOK'
    BY <1>1, <1>3 DEF Kill, CatalogOK, CatalogChecked
  <2> QED BY <1>1, <1>3, <2>1, <2>3, <2>4, FilesFrame DEF Typed, Kill
<1>4. ASSUME NEW r \in Roms, Rot(r)
      PROVE  Typed'
  <2>1. FilesOK'
    BY <1>1, <1>4 DEF Rot, FilesOK
  <2> QED BY <1>1, <1>4, <2>1, OpsFrame, PromisesFrame, CatalogFrame DEF Typed, Rot
<1> QED BY <1>2, <1>3, <1>4
LEMMA InitTyped == Init => Typed
<1> SUFFICES ASSUME Init
             PROVE  Typed
  OBVIOUS
<1>1. FilesOK
  BY DEF Init, FilesOK, Names
<1>2. OpsOK
  <2>1. "idle" \in Labels /\ Shaped("idle", NoOp)
    BY DEF Labels, Shaped, Reading, Writing
  <2> QED BY <2>1, Bounds DEF Init, OpsOK
<1>3. PromisesOK
  BY EmptyMap DEF Init, PromisesOK, Names, Histories
<1>4. CatalogOK
  BY DEF Init, CatalogInit, CatalogOK, CatalogChecked, Stored
<1> QED BY <1>1, <1>2, <1>3, <1>4 DEF Typed
LEMMA NextTyped == Typed /\ [Next]_vars => Typed'
<1> SUFFICES ASSUME Typed, [Next]_vars
             PROVE  Typed'
  OBVIOUS
<1>1. CASE UNCHANGED vars
  BY <1>1, FilesFrame, OpsFrame, PromisesFrame, CatalogFrame DEF Typed, vars
<1>2. ASSUME NEW p \in Procs, Start(p) \/ Step(p)
      PROVE  Typed'
  BY <1>2, ImportTyped, BeginTyped, OthersTyped, StoreTyped, LoadTyped, ScanTyped, WriteTyped,
     PlaceTyped DEF Start, Step
<1>3. CASE Expire \/ Kill \/ \E r \in Roms : Rot(r)
  BY <1>3, FaultsTyped
<1> QED BY <1>1, <1>2, <1>3 DEF Next

------------------------------------------------------------------------------
(* The sessions of a history ended at different times. *)

\* Whoever has read a file holds a copy of it.
LEMMA HolderOp ==
  ASSUME OpsOK, NEW q \in Procs, NEW f \in Names, Holds(q, f)
  PROVE  /\ f = "index" => op[q] \in IndexOps /\ op[q].next \in Indexes
         /\ f = "history" => op[q] \in HistoryOps /\ op[q].next \in Histories /\ pc[q] \in Writing
<1>1. /\ Shaped(pc[q], op[q]) /\ pc[q] \in {"scan", "unlink", "aside", "place"}
      /\ FileOf(op[q].kind) = f
  BY DEF OpsOK, Holds
<1>2. op[q] \in IndexOps \/ (op[q] \in HistoryOps /\ pc[q] # "scan")
  BY <1>1, OpKind DEF Shaped, Reading, AnyOps
<1>3. f = "index" => op[q] \in IndexOps
  BY <1>1, <1>2, OpKind
<1>4. f = "history" => op[q] \in HistoryOps /\ pc[q] # "scan"
  BY <1>1, <1>2, OpKind
<1> QED BY <1>1, <1>3, <1>4 DEF IndexOps, HistoryOps, Writing
LEMMA UpsertingOp ==
  ASSUME OpsOK, NEW q \in Procs, Upserting(q)
  PROVE  op[q] \in HistoryOps /\ op[q].at \in Nat
<1>1. Shaped(pc[q], op[q]) /\ pc[q] \in Reading /\ op[q].kind = "upsert"
  BY DEF OpsOK, Upserting
<1>2. op[q] \in AnyOps
  BY <1>1 DEF Shaped
<1>3. op[q] \in HistoryOps
  BY <1>1, <1>2, OpKind DEF AnyOps, IndexKinds
<1> QED BY <1>3, Bounds DEF HistoryOps
LEMMA DatedLater ==
  ASSUME NEW h \in Histories, NEW n \in Nat, NEW m \in Nat, m >= n, Dated(h, n)
  PROVE  Dated(h, m)
<1>1. \A s \in DOMAIN h : h[s] \in Nat
  BY EndedAt
<1> QED BY <1>1 DEF Dated

\* A step that begins no session and makes no new copy of the history.
LEMMA TimesStep ==
  ASSUME Typed, TimesOK, begun' \in Nat, begun' >= begun,
         \A h \in HistoryFiles' :
           \/ h \in HistoryFiles
           \/ \E p \in Procs : Holds(p, "history") /\ h = op[p].next /\ ~Upserting(p)',
         \A q \in Procs : Upserting(q)' => Upserting(q) /\ op'[q].at = op[q].at,
         \A q \in Procs : Holds(q, "history")' => Holds(q, "history") /\ op'[q].next = op[q].next
  PROVE  TimesOK'
<1>1. OpsOK /\ begun \in Nat /\ HistoryFiles \subseteq Histories
  BY Bounds DEF Typed, OpsOK, FilesOK, HistoryFiles
<1>2. \A q \in Procs : Upserting(q) => op[q].at \in Nat
  BY <1>1, UpsertingOp
<1>3. ASSUME NEW h \in HistoryFiles'
      PROVE  Dated(h, begun') /\ \A q \in Procs : Upserting(q)' => Apart(op'[q].at, h)
  <2>1. CASE h \in HistoryFiles
    <3>1. h \in Histories /\ Dated(h, begun) /\ \A q \in Procs : Upserting(q) => Apart(op[q].at, h)
      BY <1>1, <2>1 DEF TimesOK
    <3> QED BY <1>1, <3>1, DatedLater
  <2>2. ASSUME NEW p \in Procs, Holds(p, "history"), h = op[p].next, ~Upserting(p)'
        PROVE  Dated(h, begun') /\ \A q \in Procs : Upserting(q)' => Apart(op'[q].at, h)
    <3>1. h \in Histories
      BY <1>1, <2>2, HolderOp DEF Names
    <3>2. Dated(h, begun) /\ \A q \in Procs : q # p /\ Upserting(q) => Apart(op[q].at, h)
      BY <2>2 DEF TimesOK
    <3> QED BY <1>1, <2>2, <3>1, <3>2, DatedLater
  <2> QED BY <2>1, <2>2
<1>4. ASSUME NEW q \in Procs, Holds(q, "history")'
      PROVE  /\ Dated(op'[q].next, begun')
             /\ \A p \in Procs : p # q /\ Upserting(p)' => Apart(op'[p].at, op'[q].next)
  <2>1. Holds(q, "history") /\ op'[q].next = op[q].next
    BY <1>4
  <2>2. op[q].next \in Histories
    BY <1>1, <2>1, HolderOp DEF Names
  <2>3. /\ Dated(op[q].next, begun)
        /\ \A p \in Procs : p # q /\ Upserting(p) => Apart(op[p].at, op[q].next)
    BY <2>1 DEF TimesOK
  <2> QED BY <1>1, <2>1, <2>2, <2>3, DatedLater
<1>5. ASSUME NEW p \in Procs, Upserting(p)'
      PROVE  op'[p].at <= begun' /\ \A q \in Procs : q # p /\ Upserting(q)' => op'[q].at # op'[p].at
  BY <1>1, <1>2, <1>5 DEF TimesOK
<1>6. /\ \A h \in HistoryFiles' : Dated(h, begun') /\ \A p \in Procs : Upserting(p)' => Apart(op'[p].at, h)
      /\ \A q \in Procs : Holds(q, "history")' =>
           /\ Dated(op'[q].next, begun')
           /\ \A p \in Procs : p # q /\ Upserting(p)' => Apart(op'[p].at, op'[q].next)
  BY <1>3, <1>4
<1> QED BY <1>5, <1>6 DEF TimesOK

\* The change an operation makes to the history keeps the times apart.
LEMMA EditedTimes ==
  ASSUME Typed, TimesOK, NEW p \in Procs, pc[p] = "load", op[p] \in HistoryOps
  PROVE  LET e == Edited(op[p], Candidate("history")) IN
         /\ Dated(e, begun)
         /\ \A q \in Procs : q # p /\ Upserting(q) => Apart(op[q].at, e)
<1> DEFINE o == op[p]
           x == Candidate("history")
           e == Edited(o, x)
<1>1. x \in Histories /\ OpsOK /\ begun \in Nat
  BY LoadedType, Bounds DEF Typed, OpsOK
<1>2. \/ x \in HistoryFiles
      \/ DOMAIN x = {}
  BY EmptyMap DEF Candidate, HistoryFiles
<1>3. Dated(x, begun) /\ \A q \in Procs : Upserting(q) => Apart(op[q].at, x)
  <2>1. CASE x \in HistoryFiles
    <3> HIDE DEF x
    <3> QED BY <2>1 DEF TimesOK
  <2>2. CASE DOMAIN x = {}
    <3>1. Cardinality(DOMAIN x) <= MaxSessions
      BY <2>2, FS_EmptySet, Bounds
    <3> HIDE DEF x
    <3> QED BY <2>2, <3>1 DEF Dated, Distinct, Apart
  <2> QED BY <1>2, <2>1, <2>2
<1> HIDE DEF x
<1>4. ASSUME o.kind = "upsert"
      PROVE  Dated(e, begun) /\ \A q \in Procs : q # p /\ Upserting(q) => Apart(op[q].at, e)
  <2> DEFINE g == Put(x, o.id, o.at)
  <2>1. g \in Histories /\ e = Newest(g)
    BY <1>1, <1>4, EditedHistory
  <2>2. /\ DOMAIN g = DOMAIN x \cup {o.id} /\ g[o.id] = o.at
        /\ \A s \in DOMAIN x : s # o.id => g[s] = x[s]
    BY DEF Put
  <2>3. Upserting(p)
    BY <1>4 DEF Upserting, Reading
  <2>4. Apart(o.at, x) /\ o.at <= begun /\ \A q \in Procs : q # p /\ Upserting(q) => op[q].at # o.at
    BY <1>3, <2>3 DEF TimesOK
  <2>5. Distinct(g) /\ \A s \in DOMAIN g : g[s] <= begun
    <3> HIDE DEF g, o
    <3> QED BY <1>3, <2>2, <2>4 DEF Distinct, Dated, Apart
  <2>6. \A q \in Procs : q # p /\ Upserting(q) => Apart(op[q].at, g)
    <3> HIDE DEF g, o
    <3> QED BY <1>3, <2>2, <2>4 DEF Apart
  <2> HIDE DEF g
  <2>7. Distinct(e) /\ Cardinality(DOMAIN e) <= MaxSessions
    BY <2>1, <2>5, NewestBound
  <2>8. \A s \in DOMAIN e : s \in DOMAIN g /\ e[s] = g[s]
    BY <2>1, NewestKeeps
  <2> HIDE DEF e
  <2> QED BY <2>5, <2>6, <2>7, <2>8 DEF Dated, Apart
<1>5. ASSUME o.kind = "forget"
      PROVE  Dated(e, begun) /\ \A q \in Procs : q # p /\ Upserting(q) => Apart(op[q].at, e)
  <2>1. DOMAIN e = DOMAIN x \ {o.id} /\ \A s \in DOMAIN e : e[s] = x[s]
    BY <1>1, <1>5, EditedHistory
  <2>2. IsFiniteSet(DOMAIN x) /\ Cardinality(DOMAIN x) \in Nat
    BY <1>1, <1>3, HistoryFinite DEF Dated
  <2>3. DOMAIN e \in SUBSET DOMAIN x
    BY <2>1
  <2>4. Cardinality(DOMAIN e) <= Cardinality(DOMAIN x) /\ Cardinality(DOMAIN e) \in Nat
    BY <2>2, <2>3, FS_Subset, FS_CardinalityType
  <2>5. Cardinality(DOMAIN e) <= MaxSessions
    BY <1>3, <2>2, <2>4, Bounds DEF Dated
  <2> HIDE DEF e
  <2> QED BY <1>3, <2>1, <2>5 DEF Dated, Distinct, Apart
<1> QED BY <1>4, <1>5 DEF HistoryOps, HistoryKinds, x

\* A step of an operation on something else.
LEMMA TimesOther ==
  ASSUME Typed, TimesOK, NEW p \in Procs, NEW label, NEW o,
         o \in IndexOps \/ label \in {"idle", "reply"},
         pc' = [pc EXCEPT ![p] = label], op' = [op EXCEPT ![p] = o],
         UNCHANGED <<cur, prev>>, begun' \in {begun, begun + 1}
  PROVE  TimesOK'
<1>1. /\ begun \in Nat /\ pc \in [Procs -> Labels] /\ op \in [Procs -> AnyOps \cup Lists \cup {NoOp}]
  BY Bounds DEF Typed, OpsOK
<1>2. \A q \in Procs : q # p => pc'[q] = pc[q] /\ op'[q] = op[q]
  BY <1>1
<1>3. pc'[p] = label /\ op'[p] = o
  BY <1>1
<1>4. o \in IndexOps => o.kind # "upsert" /\ FileOf(o.kind) # "history"
  BY OpKind DEF IndexKinds
<1>5. ~Upserting(p)' /\ ~Holds(p, "history")'
  BY <1>3, <1>4 DEF Upserting, Holds, Reading
<1>6. \A q \in Procs : Upserting(q)' => Upserting(q) /\ op'[q].at = op[q].at
  BY <1>2, <1>5 DEF Upserting
<1>7. \A q \in Procs : Holds(q, "history")' => Holds(q, "history") /\ op'[q].next = op[q].next
  BY <1>2, <1>5 DEF Holds
<1>8. HistoryFiles' = HistoryFiles
  BY DEF HistoryFiles
<1>9. begun' \in Nat /\ begun' >= begun
  BY <1>1
<1> HIDE DEF HistoryFiles
<1> QED BY <1>6, <1>7, <1>8, <1>9, TimesStep
\* A step that changes neither an operation's copy nor which operations have one.
LEMMA TimesWriting ==
  ASSUME Typed, TimesOK, NEW p \in Procs, UnlinkPrevious(p) \/ MoveAside(p)
  PROVE  TimesOK'
<1> DEFINE f == FileOf(op[p].kind)
<1>1. begun \in Nat /\ pc \in [Procs -> Labels]
  BY Bounds DEF Typed, OpsOK
<1>2. /\ UNCHANGED <<op, begun>> /\ pc[p] \in Writing /\ pc'[p] \in Writing
      /\ \A q \in Procs : q # p => pc'[q] = pc[q]
  BY <1>1 DEF UnlinkPrevious, MoveAside, Goto, Writing
<1>3. \A q \in Procs : Upserting(q)' => Upserting(q) /\ op'[q].at = op[q].at
  BY <1>2 DEF Upserting, Reading, Writing
<1>4. \A q \in Procs : Holds(q, "history")' => Holds(q, "history") /\ op'[q].next = op[q].next
  BY <1>2 DEF Holds, Writing
<1>5. DOMAIN cur = Names /\ DOMAIN prev = Names
  BY DEF Typed, FilesOK
<1>6. \/ prev' = [prev EXCEPT ![f] = NoFile] /\ cur' = cur
      \/ prev' = [prev EXCEPT ![f] = cur[f]] /\ cur' = [cur EXCEPT ![f] = NoFile]
      \/ UNCHANGED <<cur, prev>>
  BY DEF UnlinkPrevious, MoveAside
<1> HIDE DEF f
<1>7. HistoryFiles' \subseteq HistoryFiles
  BY <1>5, <1>6 DEF HistoryFiles, Names
<1>8. begun' \in Nat /\ begun' >= begun
  BY <1>1, <1>2
<1> QED BY <1>3, <1>4, <1>7, <1>8, TimesStep
LEMMA TimesPlace ==
  ASSUME Typed, TimesOK, NEW p \in Procs, Place(p)
  PROVE  TimesOK'
<1> DEFINE o == op[p]
           f == FileOf(o.kind)
<1>1. OpsOK /\ FilesOK /\ begun' \in Nat /\ begun' >= begun
  BY Bounds DEF Typed, OpsOK, Place
<1>2. /\ pc[p] = "place" /\ o \in AnyOps /\ (o \in IndexOps => f = "index") /\ (o \in HistoryOps => f = "history")
      /\ o.kind \notin {"install", "remove"} => pc'[p] = "idle"
      /\ \A q \in Procs : q # p =>
         /\ pc'[q] = pc[q]
         /\ ~Holds(q, f) => op'[q] = op[q]
         /\ op[q] \in AnyOps =>
              /\ op'[q].kind = op[q].kind /\ op'[q].id = op[q].id /\ op'[q].at = op[q].at
              /\ op'[q].next = op[q].next
  BY <1>1, PlaceFacts
<1>3. pc'[p] \in {"idle", "load", "drop"} /\ (pc'[p] = "load" => op'[p].kind = "link")
  BY <1>1, PlaceFacts
<1>4. ~Upserting(p)' /\ ~Holds(p, "history")'
  BY <1>3 DEF Upserting, Holds, Reading
<1>5. \A q \in Procs : pc[q] \in {"load", "scan", "unlink", "aside", "place"} => op[q] \in AnyOps
  BY <1>1 DEF OpsOK, Shaped, Reading, AnyOps
<1>6. ASSUME NEW q \in Procs, Upserting(q)'
      PROVE  Upserting(q) /\ op'[q].at = op[q].at
  BY <1>2, <1>4, <1>5, <1>6 DEF Upserting, Reading
<1>7. ASSUME NEW q \in Procs, Holds(q, "history")'
      PROVE  Holds(q, "history") /\ op'[q].next = op[q].next
  <2>1. q # p /\ pc'[q] \in {"scan", "unlink", "aside", "place"} /\ FileOf(op'[q].kind) = "history"
    BY <1>4, <1>7 DEF Holds
  <2>2. pc[q] = pc'[q] /\ op[q] \in AnyOps
    BY <1>2, <1>5, <2>1
  <2> QED BY <1>2, <2>1, <2>2 DEF Holds
<1>8. ASSUME NEW h \in HistoryFiles'
      PROVE  \/ h \in HistoryFiles
             \/ \E q \in Procs : Holds(q, "history") /\ h = op[q].next /\ ~Upserting(q)'
  <2>1. cur' = [cur EXCEPT ![f] = o.next] /\ prev' = prev
    BY DEF Place
  <2>2. DOMAIN cur = Names /\ f \in Names
    BY <1>1, <1>2 DEF FilesOK, AnyOps, Names
  <2>3. CASE f = "index"
    BY <1>8, <2>1, <2>2, <2>3 DEF HistoryFiles, Names
  <2>4. CASE f = "history"
    <3>1. Holds(p, "history")
      BY <1>2, <2>4 DEF Holds
    <3>2. h = o.next \/ h \in HistoryFiles
      <4> HIDE DEF f, o
      <4> QED BY <1>8, <2>1, <2>2, <2>4 DEF HistoryFiles, Names
    <3> QED BY <1>4, <3>1, <3>2
  <2> QED BY <2>2, <2>3, <2>4 DEF Names
<1> QED BY <1>1, <1>6, <1>7, <1>8, TimesStep
\* A session is recorded: its time is later than every other.
LEMMA TimesBegin ==
  ASSUME Typed, TimesOK, NEW p \in Procs, NEW o \in HistoryOps,
         o.at = begun + 1, begun' = begun + 1, pc[p] = "idle",
         pc' = [pc EXCEPT ![p] = "load"], op' = [op EXCEPT ![p] = o], UNCHANGED <<cur, prev>>
  PROVE  TimesOK'
<1>1. /\ begun \in Nat /\ pc \in [Procs -> Labels] /\ op \in [Procs -> AnyOps \cup Lists \cup {NoOp}]
  BY Bounds DEF Typed, OpsOK
<1>2. \A q \in Procs : q # p => pc'[q] = pc[q] /\ op'[q] = op[q]
  BY <1>1
<1>3. pc'[p] = "load" /\ op'[p] = o
  BY <1>1
<1>4. ~Holds(p, "history")'
  BY <1>3 DEF Holds
<1>5. \A q \in Procs : q # p /\ Upserting(q)' => Upserting(q) /\ op'[q].at = op[q].at /\ op[q].at \in Nat
  BY <1>2, UpsertingOp DEF Upserting, Typed
<1>6. \A q \in Procs : Holds(q, "history")' => q # p /\ Holds(q, "history") /\ op'[q].next = op[q].next
                                               /\ op[q].next \in Histories
  BY <1>2, <1>4, HolderOp DEF Holds, Typed, Names
<1>7. HistoryFiles' = HistoryFiles /\ HistoryFiles \subseteq Histories
  BY DEF HistoryFiles, Typed, FilesOK
<1>8. \A h \in Histories : Dated(h, begun) => Dated(h, begun + 1) /\ Apart(begun + 1, h)
  <2> SUFFICES ASSUME NEW h \in Histories, Dated(h, begun)
               PROVE  Dated(h, begun + 1) /\ Apart(begun + 1, h)
    OBVIOUS
  <2>1. \A s \in DOMAIN h : h[s] \in Nat /\ h[s] <= begun
    BY EndedAt DEF Dated
  <2> QED BY <1>1, <2>1 DEF Dated, Apart
<1>9. ASSUME NEW h \in HistoryFiles'
      PROVE  Dated(h, begun') /\ \A q \in Procs : Upserting(q)' => Apart(op'[q].at, h)
  <2>1. h \in Histories /\ Dated(h, begun) /\ \A q \in Procs : Upserting(q) => Apart(op[q].at, h)
    BY <1>7, <1>9 DEF TimesOK
  <2> QED BY <1>3, <1>5, <1>8, <2>1
<1>10. ASSUME NEW q \in Procs, Holds(q, "history")'
       PROVE  /\ Dated(op'[q].next, begun')
              /\ \A r \in Procs : r # q /\ Upserting(r)' => Apart(op'[r].at, op'[q].next)
  <2>1. /\ q # p /\ Holds(q, "history") /\ op'[q].next = op[q].next /\ op[q].next \in Histories
    BY <1>6, <1>10
  <2>2. /\ Dated(op[q].next, begun)
        /\ \A r \in Procs : r # q /\ Upserting(r) => Apart(op[r].at, op[q].next)
    BY <2>1 DEF TimesOK
  <2> QED BY <1>3, <1>5, <1>8, <2>1, <2>2
<1>11. ASSUME NEW q \in Procs, Upserting(q)'
       PROVE  op'[q].at <= begun' /\ \A r \in Procs : r # q /\ Upserting(r)' => op'[r].at # op'[q].at
  <2>1. \A r \in Procs : Upserting(r) =>
          op[r].at <= begun /\ \A t \in Procs : t # r /\ Upserting(t) => op[t].at # op[r].at
    BY DEF TimesOK
  <2>2. CASE q = p
    BY <1>1, <1>3, <1>5, <2>1, <2>2
  <2>3. CASE q # p
    BY <1>1, <1>3, <1>5, <1>11, <2>1, <2>3
  <2> QED BY <2>2, <2>3
<1> QED BY <1>9, <1>10, <1>11 DEF TimesOK
\* A history operation has read the file.
LEMMA TimesLoad ==
  ASSUME Typed, TimesOK, NEW p \in Procs, pc[p] = "load", op[p] \in HistoryOps, NEW n \in HistoryOps,
         n.kind = op[p].kind, n.at = op[p].at, n.next = Edited(op[p], Candidate("history")),
         pc' = [pc EXCEPT ![p] = "unlink"], op' = [op EXCEPT ![p] = n], UNCHANGED <<cur, prev, begun>>
  PROVE  TimesOK'
<1>1. /\ begun \in Nat /\ pc \in [Procs -> Labels] /\ op \in [Procs -> AnyOps \cup Lists \cup {NoOp}]
  BY Bounds DEF Typed, OpsOK
<1>2. \A q \in Procs : q # p => pc'[q] = pc[q] /\ op'[q] = op[q]
  BY <1>1
<1>3. pc'[p] = "unlink" /\ op'[p] = n
  BY <1>1
<1>4. \A q \in Procs : Upserting(q)' => Upserting(q) /\ op'[q].at = op[q].at
  BY <1>2, <1>3 DEF Upserting, Reading
<1>5. HistoryFiles' = HistoryFiles
  BY DEF HistoryFiles
<1>6. Dated(n.next, begun) /\ \A q \in Procs : q # p /\ Upserting(q) => Apart(op[q].at, n.next)
  BY EditedTimes
<1>7. ASSUME NEW q \in Procs, Holds(q, "history")'
      PROVE  /\ Dated(op'[q].next, begun')
             /\ \A r \in Procs : r # q /\ Upserting(r)' => Apart(op'[r].at, op'[q].next)
  <2>1. CASE q = p
    BY <1>2, <1>3, <1>4, <1>6, <2>1
  <2>2. CASE q # p
    <3>1. Holds(q, "history") /\ op'[q].next = op[q].next
      BY <1>2, <1>7, <2>2 DEF Holds
    <3>2. /\ Dated(op[q].next, begun)
          /\ \A r \in Procs : r # q /\ Upserting(r) => Apart(op[r].at, op[q].next)
      BY <3>1 DEF TimesOK
    <3> QED BY <1>4, <3>1, <3>2
  <2> QED BY <2>1, <2>2
<1>8. ASSUME NEW h \in HistoryFiles'
      PROVE  Dated(h, begun') /\ \A q \in Procs : Upserting(q)' => Apart(op'[q].at, h)
  BY <1>4, <1>5, <1>8 DEF TimesOK
<1>9. ASSUME NEW q \in Procs, Upserting(q)'
      PROVE  op'[q].at <= begun' /\ \A r \in Procs : r # q /\ Upserting(r)' => op'[r].at # op'[q].at
  BY <1>4, <1>9 DEF TimesOK
<1> QED BY <1>7, <1>8, <1>9 DEF TimesOK
LEMMA NextTimes == Typed /\ TimesOK /\ [Next]_vars => TimesOK'
<1> SUFFICES ASSUME Typed, TimesOK, [Next]_vars
             PROVE  TimesOK'
  OBVIOUS
<1>1. OpsOK /\ FilesOK /\ begun \in Nat /\ pc \in [Procs -> Labels]
      /\ op \in [Procs -> AnyOps \cup Lists \cup {NoOp}]
  BY Bounds DEF Typed, OpsOK
<1>2. ASSUME UNCHANGED <<pc, op, begun, cur, prev>>
      PROVE  TimesOK'
  BY <1>2 DEF TimesOK, HistoryFiles, Upserting, Holds
<1>3. ASSUME NEW p \in Procs, NEW kind \in Imports, NEW f \in Offers, Import(p, kind, f)
      PROVE  TimesOK'
  <2>1. kind \in IndexKinds /\ f.id \in Roms
    BY Bounds DEF Imports, IndexKinds
  <2>2. PICK label \in {"confirm", "exists"} : Starts(p, kind, f.id, label)
    BY <1>3 DEF Import
  <2>3. PICK o \in AnyOps :
          /\ o.kind = kind /\ begun' = begun + 1
          /\ pc' = [pc EXCEPT ![p] = label] /\ op' = [op EXCEPT ![p] = o]
    BY <1>1, <2>1, <2>2, StartsOp
  <2>4. o \in IndexOps
    BY <2>1, <2>3, OpKind DEF AnyOps, IndexKinds, HistoryKinds
  <2> QED BY <1>3, <2>3, <2>4, TimesOther DEF Import, files
<1>4. ASSUME NEW p \in Procs, NEW kind, NEW id, Begin(p, kind, id)
      PROVE  TimesOK'
  <2>1. (kind \in IndexKinds /\ id \in Roms) \/ (kind \in HistoryKinds /\ id \in Sessions)
    BY <1>4 DEF Begin, Edits, IndexKinds, HistoryKinds
  <2>2. Starts(p, kind, id, "load") /\ UNCHANGED <<cur, prev>>
    BY <1>4 DEF Begin, files
  <2>3. PICK o \in AnyOps :
          /\ o.kind = kind /\ o.at = begun + 1 /\ begun' = begun + 1
          /\ pc[p] = "idle" /\ pc' = [pc EXCEPT ![p] = "load"] /\ op' = [op EXCEPT ![p] = o]
    BY <1>1, <2>1, <2>2, StartsOp
  <2>4. CASE o \in IndexOps
    BY <2>2, <2>3, <2>4, TimesOther
  <2>5. CASE o \in HistoryOps
    BY <2>2, <2>3, <2>5, TimesBegin
  <2> QED BY <2>3, <2>4, <2>5 DEF AnyOps
<1>5. ASSUME NEW p \in Procs, Return(p), UNCHANGED <<cur, prev, begun>>
      PROVE  TimesOK'
  <2>1. pc' = [pc EXCEPT ![p] = "idle"] /\ op' = [op EXCEPT ![p] = NoOp]
    BY <1>5 DEF Return, Goto
  <2> QED BY <1>5, <2>1, TimesOther
<1>6. ASSUME NEW p \in Procs, Confirm(p) \/ LookForRom(p) \/ StoreRom(p)
      PROVE  TimesOK'
  <2>1. (op[p] \in IndexOps /\ op' = [op EXCEPT ![p] = op[p]]) \/ Return(p)
    BY <1>1, <1>6 DEF Confirm, LookForRom, StoreRom, OpsOK, Shaped
  <2>2. (\E label \in Labels : pc' = [pc EXCEPT ![p] = label]) /\ UNCHANGED <<cur, prev, begun>>
    BY <1>6 DEF Confirm, LookForRom, StoreRom, Goto, Return, files, Labels
  <2> QED BY <1>5, <2>1, <2>2, TimesOther
<1>7. ASSUME NEW p \in Procs, Load(p)
      PROVE  TimesOK'
  <2>1. UNCHANGED <<cur, prev, begun>> /\ pc[p] = "load" /\ op[p] \in AnyOps
    BY <1>1, <1>7, LoadCases DEF Load, files
  <2>2. CASE op[p] \in HistoryOps
    <3>1. PICK n \in AnyOps :
            /\ pc' = [pc EXCEPT ![p] = "unlink"] /\ op' = [op EXCEPT ![p] = n]
            /\ n.kind = op[p].kind /\ n.at = op[p].at
            /\ n.next = Edited(op[p], Loaded(op[p].kind)) /\ n \in HistoryOps
      BY <1>1, <1>7, <2>2, LoadCases, OpKind
    <3>2. Loaded(op[p].kind) = Candidate("history")
      BY <2>2, OpKind DEF Loaded
    <3> QED BY <2>1, <2>2, <3>1, <3>2, TimesLoad
  <2>3. CASE op[p] \in IndexOps
    <3>1. \E n, label :
            /\ pc' = [pc EXCEPT ![p] = label] /\ op' = [op EXCEPT ![p] = n]
            /\ n \in IndexOps \/ label = "idle"
      <4>1. pc' = pc => pc' = [pc EXCEPT ![p] = "load"]
        BY <1>1, <2>1
      <4> QED BY <1>1, <1>7, <2>3, <4>1, LoadCases
    <3> QED BY <2>1, <3>1, TimesOther
  <2> QED BY <2>1, <2>2, <2>3 DEF AnyOps
<1>8. ASSUME NEW p \in Procs, ScanRomFiles(p)
      PROVE  TimesOK'
  <2>1. UNCHANGED <<cur, prev, begun>>
    BY <1>8 DEF ScanRomFiles
  <2> QED BY <1>1, <1>8, <2>1, ScanFacts, TimesOther
<1>9. ASSUME NEW p \in Procs, NEW force, List(p, force)
      PROVE  TimesOK'
  <2>1. UNCHANGED <<cur, prev>>
    BY <1>9 DEF List, files
  <2>2. CASE UNCHANGED <<pc, op, begun>>
    BY <1>2, <2>1, <2>2
  <2>3. CASE begun' = begun + 1 /\ Goto(p, "reply") /\ op' = [op EXCEPT ![p] = [kind |-> "list", old |-> cached]]
    BY <2>1, <2>3, TimesOther DEF Goto
  <2> QED BY <1>9, <2>2, <2>3 DEF List
<1>10. ASSUME NEW p \in Procs, DropRom(p) \/ Answered(p)
       PROVE  TimesOK'
  BY <1>5, <1>10 DEF DropRom, Answered, files
<1>11. ASSUME Kill
       PROVE  TimesOK'
  <2>1. /\ \A q \in Procs : pc'[q] = "idle"
        /\ UNCHANGED <<cur, prev, begun>>
    BY <1>11 DEF Kill, files
  <2>2. \A q \in Procs : ~Upserting(q)' /\ ~Holds(q, "history")'
    BY <2>1 DEF Upserting, Holds, Reading
  <2>3. HistoryFiles' = HistoryFiles
    BY <2>1 DEF HistoryFiles
  <2>4. begun' \in Nat /\ begun' >= begun
    BY <1>1, <2>1
  <2> QED BY <2>2, <2>3, <2>4, TimesStep
<1>12. ASSUME Expire \/ \E r \in Roms : Rot(r)
       PROVE  TimesOK'
  BY <1>2, <1>12 DEF Expire, Rot, files
<1>13. CASE UNCHANGED vars
  BY <1>2, <1>13 DEF vars, files
<1>14. ASSUME NEW p \in Procs, Start(p) \/ Step(p)
       PROVE  TimesOK'
  <2>1. CASE Start(p)
    BY <1>3, <1>4, <1>9, <2>1 DEF Start
  <2>2. CASE Step(p)
    BY <1>6, <1>7, <1>8, <1>10, <2>2, TimesWriting, TimesPlace DEF Step
  <2> QED BY <1>14, <2>1, <2>2
<1> QED BY <1>11, <1>12, <1>13, <1>14 DEF Next
LEMMA InitTimes == Init => TimesOK
<1> SUFFICES ASSUME Init
             PROVE  TimesOK
  OBVIOUS
<1>1. HistoryFiles = {}
  BY DEF Init, HistoryFiles, Names
<1>2. \A q \in Procs : ~Upserting(q) /\ ~Holds(q, "history")
  BY DEF Init, Upserting, Holds, Reading
<1> QED BY <1>1, <1>2 DEF TimesOK

\* The files and the operations are well-formed, and the history has no more than MaxSessions
\* sessions, for any number of ROMs, sessions and operations.
THEOREM LibraryTypes == Spec => []TypeOK
<1>1. Init => Typed /\ TimesOK
  BY InitTyped, InitTimes
<1>2. Typed /\ TimesOK /\ [Next]_vars => (Typed /\ TimesOK)'
  BY NextTyped, NextTimes
<1>3. Typed /\ TimesOK => TypeOK
  <2> SUFFICES ASSUME Typed, TimesOK
               PROVE  TypeOK
    OBVIOUS
  <2>1. FilesOK /\ OpsOK /\ PromisesOK
    BY DEF Typed
  <2>2. ASSUME NEW x \in {cur["index"], prev["index"]} \ {NoFile}
        PROVE  DOMAIN x \subseteq Roms /\ \A r \in DOMAIN x : x[r].played \in Nat /\ x[r].cat \in BOOLEAN
    <3>1. x \in Indexes
      BY <2>1, <2>2 DEF FilesOK
    <3>2. DOMAIN x \subseteq Roms /\ \A r \in DOMAIN x : x[r] \in GameEntry
      BY <3>1, OfMap DEF Indexes
    <3> QED BY <3>2 DEF GameEntry
  <2>3. ASSUME NEW x \in {cur["history"], prev["history"]} \ {NoFile}
        PROVE  /\ DOMAIN x \subseteq Sessions /\ Cardinality(DOMAIN x) <= MaxSessions
               /\ \A s \in DOMAIN x : x[s] \in 1 .. MaxOps
    <3>1. x \in Histories
      BY <2>1, <2>3 DEF FilesOK
    <3>2. DOMAIN x \subseteq Sessions /\ \A s \in DOMAIN x : x[s] \in 1 .. MaxOps
      BY <3>1, OfMap DEF Histories
    <3>3. Dated(x, begun)
      BY <2>3 DEF TimesOK, HistoryFiles
    <3> QED BY <3>2, <3>3 DEF Dated
  <2> QED BY <2>1, <2>2, <2>3 DEF TypeOK, FilesOK, OpsOK, PromisesOK, Labels
<1> QED BY <1>1, <1>2, <1>3, PTL DEF Spec

\* Whatever the page shows of the catalogue has been parsed whole.
THEOREM PageShowsParsed == Spec => []CatalogChecked
<1>1. Typed => CatalogChecked
  BY DEF Typed, CatalogOK
<1> QED BY <1>1, InitTyped, NextTyped, PTL DEF Spec

------------------------------------------------------------------------------
(* Replacing a file. *)

\* A step of p that is not part of replacing a file.
Quiet(p) ==
  /\ \A q \in Procs : q # p => pc'[q] = pc[q] /\ op'[q] = op[q]
  /\ pc[p] \notin {"scan", "unlink", "aside", "place"} \/ (pc[p] = "scan" /\ op[p] \in IndexOps)
  /\ pc'[p] \notin {"aside", "place"} /\ UNCHANGED <<cur, prev, cuts>> /\ hurt \subseteq hurt'
LEMMA QuietMove ==
  ASSUME OpsOK, NEW p \in Procs, NEW label, NEW o,
         pc' = [pc EXCEPT ![p] = label], op' = [op EXCEPT ![p] = o], label \notin {"aside", "place"},
         \/ pc[p] \notin {"scan", "unlink", "aside", "place"}
         \/ (pc[p] = "scan" /\ op[p] \in IndexOps),
         UNCHANGED <<cur, prev, cuts>>, hurt \subseteq hurt'
  PROVE  Quiet(p) /\ pc'[p] = label /\ op'[p] = o
<1>1. pc \in [Procs -> Labels] /\ op \in [Procs -> AnyOps \cup Lists \cup {NoOp}]
  BY DEF OpsOK
<1> QED BY <1>1 DEF Quiet
LEMMA QuietReturn ==
  ASSUME OpsOK, NEW p \in Procs, Return(p), pc[p] \notin {"scan", "unlink", "aside", "place"},
         UNCHANGED <<cur, prev, cuts>>, hurt \subseteq hurt'
  PROVE  Quiet(p) /\ pc'[p] = "idle"
BY QuietMove DEF Return, Goto

\* What a quiet step leaves of a file.
LEMMA QuietFile ==
  ASSUME NEW p \in Procs, Quiet(p), NEW f
  PROVE  /\ Candidate(f)' = Candidate(f) /\ (Gap(f) => Gap(f)')
         /\ Sound(f)' => Sound(f)
         /\ AsideOK(f) => AsideOK(f)'
<1>1. /\ \A q \in Procs : q # p => pc'[q] = pc[q] /\ op'[q] = op[q]
      /\ pc[p] \notin {"aside", "place"} /\ pc'[p] \notin {"aside", "place"}
      /\ UNCHANGED <<cur, prev, cuts>> /\ hurt \subseteq hurt'
  BY DEF Quiet
<1>2. Cut(f) => Cut(f)'
  BY <1>1 DEF Cut
<1>3. Replacing(f) => Replacing(f)'
  BY <1>1 DEF Replacing
<1>4. Candidate(f)' = Candidate(f)
  BY <1>1 DEF Candidate
<1>5. Gap(f) => Gap(f)'
  BY <1>1, <1>2 DEF Gap
<1>6. Sound(f)' => Sound(f)
  BY <1>1 DEF Sound
<1>7. AsideOK(f) => AsideOK(f)'
  BY <1>1, <1>3 DEF AsideOK
<1> QED BY <1>4, <1>5, <1>6, <1>7

\* Moving the file aside, and removing the one moved aside before: another operation's copy is
\* not lost, or the file is hurt.
LEMMA WritingFile ==
  ASSUME Typed, NEW p \in Procs, UnlinkPrevious(p) \/ MoveAside(p), NEW f \in Names, AsideOK(f)
  PROVE  /\ \A q \in Procs : q # p => pc'[q] = pc[q]
         /\ op' = op /\ pc[p] \in Writing /\ pc'[p] \in Writing /\ UNCHANGED <<roms, promises>>
         /\ cur'[f] \in {cur[f], NoFile}
         /\ Sound(f)' => Sound(f)
         /\ hurt \subseteq hurt'
         /\ Sound(f)' => (Candidate(f)' = Candidate(f) /\ (Gap(f) => Gap(f)')) \/ Gap(f)'
         /\ AsideOK(f)'
<1> DEFINE g == FileOf(op[p].kind)
<1>1. OpsOK /\ pc \in [Procs -> Labels] /\ DOMAIN cur = Names /\ DOMAIN prev = Names
  BY DEF Typed, OpsOK, FilesOK
<1>2. cuts[f] \in 0 .. 2
  BY DEF Typed, PromisesOK
<1>3. ASSUME UnlinkPrevious(p)
      PROVE  /\ \A q \in Procs : q # p => pc'[q] = pc[q]
             /\ pc[p] = "unlink" /\ pc'[p] = "aside" /\ UNCHANGED <<roms, cur, op, promises, cuts>>
             /\ prev' = [prev EXCEPT ![g] = NoFile]
             /\ hurt' = IF Replacing(g) THEN hurt \cup {g} ELSE hurt
  BY <1>1, <1>3 DEF UnlinkPrevious, Goto
<1>4. ASSUME MoveAside(p)
      PROVE  /\ \A q \in Procs : q # p => pc'[q] = pc[q]
             /\ pc[p] = "aside" /\ pc'[p] = "place" /\ UNCHANGED <<roms, op, promises, cuts, hurt>>
             /\ IF cur[g] # NoFile
                THEN prev' = [prev EXCEPT ![g] = cur[g]] /\ cur' = [cur EXCEPT ![g] = NoFile]
                ELSE UNCHANGED <<cur, prev>>
  BY <1>1, <1>4 DEF MoveAside, Goto, faults
<1>5. g \in Names
  BY <1>1, <1>3, <1>4, WriterOp DEF Writing
<1>6. (Cut(f) => Cut(f)') /\ (Replacing(f) => Replacing(f)') /\ (g = f => Cut(f)')
  <2>1. op' = op /\ pc'[p] \in {"aside", "place"} /\ pc[p] \in {"unlink", "aside"}
    BY <1>3, <1>4
  <2>2. \A q \in Procs : q # p => pc'[q] = pc[q]
    BY <1>3, <1>4
  <2> QED BY <2>1, <2>2 DEF Cut, Replacing
<1>7. CASE UnlinkPrevious(p)
  <2> HIDE DEF g
  <2>1. Sound(f)' => Sound(f)
    BY <1>3, <1>7 DEF Sound
  <2>2. cur' = cur /\ cuts' = cuts /\ (prev'[f] = IF g = f THEN NoFile ELSE prev[f])
    BY <1>1, <1>3, <1>7
  <2>3. AsideOK(f)'
    BY <1>3, <1>6, <1>7, <2>2 DEF AsideOK
  <2>4. ASSUME Sound(f)'
        PROVE  (Candidate(f)' = Candidate(f) /\ (Gap(f) => Gap(f)')) \/ Gap(f)'
    <3>1. cur[f] # NoFile \/ prev'[f] = prev[f] \/ (g = f /\ cur[f] = NoFile /\ prev[f] # NoFile)
      BY <2>2
    <3>2. CASE cur[f] # NoFile \/ prev'[f] = prev[f]
      BY <1>6, <2>2, <3>2 DEF Candidate, Gap
    <3>3. CASE g = f /\ cur[f] = NoFile /\ prev[f] # NoFile
      <4>1. ~Replacing(f)
        BY <1>3, <1>7, <2>4, <3>3 DEF Sound
      <4>2. cuts[f] = 1
        BY <1>2, <2>1, <2>4, <3>3, <4>1 DEF AsideOK, Sound
      <4> QED BY <1>6, <2>2, <3>3, <4>2 DEF Gap
    <3> QED BY <3>1, <3>2, <3>3
  <2> QED BY <1>3, <1>7, <2>1, <2>2, <2>3, <2>4 DEF Writing
<1>8. CASE MoveAside(p)
  <2>1. Sound(f)' => Sound(f)
    BY <1>4, <1>8 DEF Sound
  <2>2. CASE g = f /\ cur[f] # NoFile
    <3>1. prev'[f] = cur[f] /\ cur'[f] = NoFile
      BY <1>1, <1>4, <1>5, <1>8, <2>2
    <3>2. Replacing(f)'
      BY <1>4, <1>8, <2>2 DEF Replacing
    <3>3. AsideOK(f)'
      BY <3>2 DEF AsideOK
    <3>4. Candidate(f)' = Candidate(f) /\ (Gap(f) => Gap(f)')
      BY <2>2, <3>1 DEF Candidate, Gap
    <3> QED BY <1>4, <1>8, <2>1, <3>1, <3>3, <3>4 DEF Writing
  <2>3. CASE g # f \/ cur[f] = NoFile
    <3>1. prev'[f] = prev[f] /\ cur'[f] = cur[f]
      <4> HIDE DEF g
      <4> QED BY <1>1, <1>4, <1>5, <1>8, <2>3
    <3>2. AsideOK(f)'
      BY <1>4, <1>6, <1>8, <3>1 DEF AsideOK
    <3>3. Candidate(f)' = Candidate(f) /\ (Gap(f) => Gap(f)')
      BY <1>4, <1>6, <1>8, <3>1 DEF Candidate, Gap
    <3> QED BY <1>4, <1>8, <2>1, <3>1, <3>2, <3>3 DEF Writing
  <2> QED BY <2>2, <2>3
<1> QED BY <1>7, <1>8

\* The app is killed.
LEMMA KillFile ==
  ASSUME Typed, Kill, NEW f \in Names, AsideOK(f)
  PROVE  /\ Candidate(f)' = Candidate(f) /\ UNCHANGED <<files, promises, hurt>>
         /\ Sound(f)' => Sound(f) /\ ~Gap(f)
         /\ AsideOK(f)' /\ \A q \in Procs : pc'[q] = "idle"
<1>1. /\ UNCHANGED <<files, promises, hurt>> /\ \A q \in Procs : pc'[q] = "idle"
      /\ cuts' = [g \in Names |-> IF Cut(g) /\ cuts[g] < 2 THEN cuts[g] + 1 ELSE cuts[g]]
  BY DEF Kill
<1>2. cuts[f] \in 0 .. 2 /\ cuts'[f] = IF Cut(f) /\ cuts[f] < 2 THEN cuts[f] + 1 ELSE cuts[f]
  BY <1>1 DEF Typed, PromisesOK
<1>3. Candidate(f)' = Candidate(f)
  BY <1>1 DEF Candidate, files
<1>4. Sound(f)' => Sound(f) /\ ~Gap(f)
  BY <1>1, <1>2 DEF Sound, Gap
<1>5. AsideOK(f)'
  <2>1. Replacing(f) => Cut(f)
    BY DEF Replacing, Cut
  <2> QED BY <1>1, <1>2, <2>1 DEF AsideOK, files
<1> QED BY <1>1, <1>3, <1>4, <1>5

\* A file is written.
LEMMA PlaceFile ==
  ASSUME Typed, NEW p \in Procs, Place(p), NEW f \in Names
  PROVE  /\ UNCHANGED roms /\ hurt \subseteq hurt'
         /\ Sound(f)' => Sound(f)
         /\ f = FileOf(op[p].kind) =>
              /\ Candidate(f)' = op[p].next /\ cur'[f] = op[p].next /\ AsideOK(f)'
              /\ Sound(f)' => ~op[p].stale
         /\ f # FileOf(op[p].kind) =>
              /\ Candidate(f)' = Candidate(f) /\ cur'[f] = cur[f]
              /\ (Gap(f) => Gap(f)') /\ (AsideOK(f) => AsideOK(f)')
         /\ \A q \in Procs : Fresh(q, f)' =>
              q # p /\ f # FileOf(op[p].kind) /\ Fresh(q, f) /\ op'[q] = op[q] /\ pc'[q] = pc[q]
<1> DEFINE o == op[p]
           g == FileOf(o.kind)
<1>1. OpsOK /\ FilesOK /\ PromisesOK
  BY DEF Typed
<1>2. /\ cur' = [cur EXCEPT ![g] = o.next] /\ prev' = prev /\ roms' = roms
      /\ cuts' = [cuts EXCEPT ![g] = IF @ < 2 THEN 0 ELSE 2]
      /\ hurt' = IF o.stale THEN hurt \cup {g} ELSE hurt
  BY DEF Place
<1>3. /\ o \in AnyOps /\ pc[p] = "place" /\ o.next # NoFile
      /\ o \in IndexOps => g = "index"
      /\ o \in HistoryOps => g = "history"
      /\ pc'[p] \in {"load", "drop", "idle"}
      /\ \A q \in Procs : q # p =>
         /\ pc'[q] = pc[q]
         /\ ~Holds(q, g) => op'[q] = op[q]
         /\ op[q] \in AnyOps => op'[q].kind = op[q].kind /\ (op'[q].stale <=> op[q].stale \/ Holds(q, g))
  BY <1>1, PlaceFacts
<1>4. g \in Names /\ DOMAIN cur = Names /\ cuts \in [Names -> 0 .. 2]
  BY <1>1, <1>3 DEF AnyOps, Names, FilesOK, PromisesOK
<1>5. \A q \in Procs : pc[q] \in {"load", "scan", "unlink", "aside", "place"} => op[q] \in AnyOps
  BY <1>1 DEF OpsOK, Shaped, Reading, AnyOps
<1> HIDE DEF g
<1>6. Sound(f)' => Sound(f)
  BY <1>2, <1>4 DEF Sound
<1>7. ASSUME f = g
      PROVE  /\ Candidate(f)' = o.next /\ cur'[f] = o.next /\ AsideOK(f)'
             /\ Sound(f)' => ~o.stale
  BY <1>2, <1>3, <1>4, <1>7 DEF Candidate, AsideOK, Sound
<1>8. ASSUME f # g
      PROVE  /\ Candidate(f)' = Candidate(f) /\ cur'[f] = cur[f]
             /\ (Gap(f) => Gap(f)') /\ (AsideOK(f) => AsideOK(f)')
  <2>1. cur'[f] = cur[f] /\ prev'[f] = prev[f] /\ cuts'[f] = cuts[f] /\ hurt \subseteq hurt'
    BY <1>2, <1>4, <1>8
  <2>2. \A q \in Procs : pc[q] \in {"aside", "place"} /\ FileOf(op[q].kind) = f =>
          q # p /\ pc'[q] = pc[q] /\ op'[q] = op[q]
    BY <1>3, <1>8 DEF Holds, g
  <2>3. (Cut(f) => Cut(f)') /\ (Replacing(f) => Replacing(f)')
    BY <2>2 DEF Cut, Replacing
  <2> QED BY <2>1, <2>3 DEF Candidate, Gap, AsideOK
<1>9. ASSUME NEW q \in Procs, Fresh(q, f)'
      PROVE  q # p /\ f # g /\ Fresh(q, f) /\ op'[q] = op[q] /\ pc'[q] = pc[q]
  <2>1. /\ q # p /\ pc'[q] \in {"scan", "unlink", "aside", "place"} /\ FileOf(op'[q].kind) = f
        /\ ~op'[q].stale
    BY <1>3, <1>9 DEF Fresh, Holds
  <2>2. pc[q] = pc'[q] /\ op[q] \in AnyOps
    BY <1>3, <1>5, <2>1
  <2>3. FileOf(op[q].kind) = f /\ ~op[q].stale /\ ~Holds(q, g)
    BY <1>3, <2>1, <2>2
  <2>4. f # g
    BY <2>1, <2>2, <2>3 DEF Holds
  <2> QED BY <1>3, <2>1, <2>2, <2>3, <2>4 DEF Fresh, Holds
<1> QED BY <1>2, <1>6, <1>7, <1>8, <1>9 DEF g

\* The steps that replace no file.
LEMMA StartsQuiet ==
  ASSUME Typed, NEW p \in Procs, NEW kind, NEW id, NEW label \in {"confirm", "exists", "load"},
         \/ kind \in IndexKinds /\ id \in Roms
         \/ kind \in HistoryKinds /\ id \in Sessions,
         label # "load" => kind \in Imports,
         Starts(p, kind, id, label), UNCHANGED <<files, faults>>
  PROVE  /\ Quiet(p) /\ pc[p] = "idle" /\ pc'[p] = label
         /\ op'[p].kind = kind /\ op'[p].id = id
<1>1. PICK o \in AnyOps :
        /\ o.kind = kind /\ o.id = id /\ pc[p] = "idle"
        /\ pc' = [pc EXCEPT ![p] = label] /\ op' = [op EXCEPT ![p] = o]
  BY StartsOp DEF Typed
<1> QED BY <1>1, QuietMove DEF Typed, files, faults
LEMMA ImportQuiet ==
  ASSUME Typed, NEW p \in Procs, NEW kind \in Imports, NEW f \in Offers, Import(p, kind, f)
  PROVE  /\ Quiet(p) /\ UNCHANGED <<roms, promises, hurt>>
         /\ pc[p] = "idle" /\ pc'[p] \in {"confirm", "exists"} /\ op'[p].kind = kind
<1>1. kind \in IndexKinds /\ f.id \in Roms
  BY Bounds DEF Imports, IndexKinds
<1>2. PICK label \in {"confirm", "exists"} : Starts(p, kind, f.id, label)
  BY DEF Import
<1>3. UNCHANGED <<files, promises, faults>>
  BY DEF Import
<1> QED BY <1>1, <1>2, <1>3, StartsQuiet DEF files, faults
LEMMA BeginQuiet ==
  ASSUME Typed, NEW p \in Procs, NEW kind, NEW id, Begin(p, kind, id)
  PROVE  /\ Quiet(p) /\ UNCHANGED <<roms, hurt>>
         /\ pc[p] = "idle" /\ pc'[p] = "load" /\ op'[p].kind = kind
         /\ kind \notin Imports \cup {"link"}
<1>1. (kind \in IndexKinds /\ id \in Roms) \/ (kind \in HistoryKinds /\ id \in Sessions)
  BY DEF Begin, Edits, IndexKinds, HistoryKinds
<1>2. Starts(p, kind, id, "load") /\ UNCHANGED <<files, faults>> /\ kind \notin Imports \cup {"link"}
  BY DEF Begin, Edits, HistoryKinds, Imports
<1> QED BY <1>1, <1>2, StartsQuiet DEF files, faults
LEMMA StoreQuiet ==
  ASSUME Typed, NEW p \in Procs, Confirm(p) \/ LookForRom(p) \/ StoreRom(p)
  PROVE  /\ Quiet(p) /\ UNCHANGED <<promises, hurt>> /\ pc[p] \in {"confirm", "exists", "store"}
         /\ pc'[p] \in {"idle", "exists", "store", "load"}
         /\ pc'[p] # "idle" => op'[p] = op[p]
         /\ op[p] \in IndexOps /\ op[p].kind \in Imports
<1>1. OpsOK
  BY DEF Typed
<1>2. pc[p] \in {"confirm", "exists", "store"} /\ UNCHANGED <<cur, prev, cuts, promises, hurt>>
  BY DEF Confirm, LookForRom, StoreRom, files, faults
<1>3. op[p] \in IndexOps /\ op[p].kind \in Imports
  BY <1>1, <1>2 DEF OpsOK, Shaped
<1>4. CASE Return(p)
  BY <1>1, <1>2, <1>3, <1>4, QuietReturn
<1>5. CASE op' = op /\ \E label \in {"exists", "store", "load"} : Goto(p, label)
  <2>1. PICK label \in {"exists", "store", "load"} : Goto(p, label)
    BY <1>5
  <2>2. pc' = [pc EXCEPT ![p] = label] /\ op' = [op EXCEPT ![p] = op[p]]
    BY <1>1, <1>5, <2>1 DEF Goto, OpsOK
  <2> QED BY <1>1, <1>2, <1>3, <2>2, QuietMove
<1> QED BY <1>4, <1>5 DEF Confirm, LookForRom, StoreRom
LEMMA LoadQuiet ==
  ASSUME Typed, NEW p \in Procs, Load(p)
  PROVE  /\ Quiet(p) /\ UNCHANGED roms /\ pc[p] = "load"
         /\ pc'[p] \in {"unlink", "scan", "load", "idle"}
<1>1. OpsOK /\ FilesOK
  BY DEF Typed
<1>2. UNCHANGED <<cur, prev, cuts, roms>> /\ pc[p] = "load" /\ hurt \subseteq hurt'
  BY <1>1, LoadCases DEF Load, files
<1>3. \E label \in {"unlink", "scan", "load", "idle"} : \E o :
        pc' = [pc EXCEPT ![p] = label] /\ op' = [op EXCEPT ![p] = o]
  <2>1. pc' = pc => pc' = [pc EXCEPT ![p] = "load"]
    BY <1>1, <1>2 DEF OpsOK
  <2> QED BY <1>1, <2>1, LoadCases
<1>4. PICK label \in {"unlink", "scan", "load", "idle"} : \E o :
        pc' = [pc EXCEPT ![p] = label] /\ op' = [op EXCEPT ![p] = o]
  BY <1>3
<1>5. PICK o : pc' = [pc EXCEPT ![p] = label] /\ op' = [op EXCEPT ![p] = o]
  BY <1>4
<1>6. label \notin {"aside", "place"} /\ pc[p] \notin {"scan", "unlink", "aside", "place"}
  BY <1>2
<1>7. Quiet(p) /\ pc'[p] = label
  BY <1>1, <1>2, <1>5, <1>6, QuietMove
<1> QED BY <1>2, <1>7
LEMMA ScanQuiet ==
  ASSUME Typed, NEW p \in Procs, ScanRomFiles(p)
  PROVE  /\ Quiet(p) /\ pc[p] = "scan" /\ pc'[p] = "unlink" /\ op[p] \in IndexOps /\ op[p].kind = "repair"
         /\ op'[p] \in IndexOps /\ op'[p].kind = "repair" /\ op'[p].next = Rebuilt(op[p].next)
         /\ op'[p].stale = op[p].stale
<1>1. OpsOK
  BY DEF Typed
<1>2. UNCHANGED <<cur, prev, cuts>> /\ hurt \subseteq hurt'
  BY DEF ScanRomFiles
<1>3. PICK n \in IndexOps :
        /\ pc' = [pc EXCEPT ![p] = "unlink"] /\ op' = [op EXCEPT ![p] = n]
        /\ n.kind = "repair" /\ n.next = Rebuilt(op[p].next) /\ n.stale = op[p].stale
  BY <1>1, ScanFacts
<1>4. pc[p] = "scan" /\ op[p] \in IndexOps /\ op[p].kind = "repair"
  BY <1>1, ScanFacts
<1>5. /\ pc'[p] = "unlink" /\ op'[p] = n
      /\ \A q \in Procs : q # p => pc'[q] = pc[q] /\ op'[q] = op[q]
  BY <1>1, <1>3 DEF OpsOK
<1>6. Quiet(p)
  BY <1>2, <1>4, <1>5 DEF Quiet
<1> QED BY <1>3, <1>4, <1>5, <1>6
LEMMA OtherQuiet ==
  ASSUME Typed, NEW p \in Procs,
         DropRom(p) \/ Answered(p) \/ (\E force \in BOOLEAN : List(p, force))
  PROVE  /\ Quiet(p) /\ UNCHANGED promises /\ pc[p] \in {"drop", "reply", "idle"}
         /\ pc'[p] \in {"idle", "reply"}
<1>1. OpsOK
  BY DEF Typed
<1>2. CASE DropRom(p)
  BY <1>1, <1>2, QuietReturn DEF DropRom
<1>3. CASE Answered(p)
  BY <1>1, <1>3, QuietReturn DEF Answered, files, faults
<1>4. ASSUME NEW force \in BOOLEAN, List(p, force)
      PROVE  Quiet(p) /\ UNCHANGED promises /\ pc[p] = "idle" /\ pc'[p] \in {"idle", "reply"}
  <2>1. UNCHANGED <<cur, prev, cuts, promises, hurt>> /\ pc[p] = "idle"
    BY <1>4 DEF List, files, faults
  <2>2. CASE UNCHANGED <<pc, op>>
    BY <2>1, <2>2 DEF Quiet
  <2>3. CASE Goto(p, "reply") /\ op' = [op EXCEPT ![p] = [kind |-> "list", old |-> cached]]
    <3>1. PICK o : o = [kind |-> "list", old |-> cached]
      OBVIOUS
    <3>2. pc' = [pc EXCEPT ![p] = "reply"] /\ op' = [op EXCEPT ![p] = o]
      BY <2>3, <3>1 DEF Goto
    <3>3. pc[p] \notin {"scan", "unlink", "aside", "place"} /\ UNCHANGED <<cur, prev, cuts>>
          /\ hurt \subseteq hurt'
      BY <2>1
    <3>4. Quiet(p) /\ pc'[p] = "reply"
      BY <1>1, <3>2, <3>3, QuietMove
    <3> QED BY <2>1, <3>4
  <2> QED BY <1>4, <2>2, <2>3 DEF List
<1> QED BY <1>2, <1>3, <1>4

------------------------------------------------------------------------------
(* The play history. *)

\* A quiet step that forgets sessions at most.
LEMMA HistoryQuiet ==
  ASSUME Typed, HistoryInv, NEW p \in Procs, Quiet(p),
         Fresh(p, "history")' /\ Sound("history") => WritesHistory(op'[p], acked),
         acked' \in {acked} \cup {Restrict(acked, D) : D \in SUBSET DOMAIN acked}
  PROVE  HistoryInv'
<1>1. /\ Candidate("history")' = Candidate("history") /\ (Gap("history") => Gap("history")')
      /\ Sound("history")' => Sound("history")
      /\ AsideOK("history")'
  BY QuietFile DEF HistoryInv
<1>2. DOMAIN acked' \subseteq DOMAIN acked /\ \A s \in DOMAIN acked' : acked'[s] = acked[s]
  BY DEF Restrict
<1>3. SessionsKept'
  BY <1>1, <1>2 DEF SessionsKept, Remembers, HistoryInv
<1>4. \A q \in Procs : q # p /\ Fresh(q, "history")' => Fresh(q, "history") /\ op'[q] = op[q]
  BY DEF Quiet, Fresh, Holds
<1>5. ASSUME NEW o, WritesHistory(o, acked)
      PROVE  WritesHistory(o, acked')
  <2>1. /\ DOMAIN Put(acked', o.id, o.at) \subseteq DOMAIN Put(acked, o.id, o.at)
        /\ \A s \in DOMAIN Put(acked', o.id, o.at) :
             Put(acked', o.id, o.at)[s] = Put(acked, o.id, o.at)[s]
    BY <1>2 DEF Put
  <2>2. o.kind = "forget" => Remembers(o.next, acked', DOMAIN acked' \ {o.id})
    BY <1>2, <1>5 DEF WritesHistory, Remembers
  <2>3. ASSUME o.kind = "upsert", NEW s \in DOMAIN Put(acked', o.id, o.at),
               Cardinality(Newer(o.next, Put(acked', o.id, o.at)[s])) < MaxSessions
        PROVE  s \in DOMAIN o.next /\ o.next[s] = Put(acked', o.id, o.at)[s]
    BY <1>5, <2>1, <2>3 DEF WritesHistory
  <2> QED BY <2>2, <2>3 DEF WritesHistory
<1>6. HistoryWrites'
  <2> SUFFICES ASSUME Sound("history")', NEW q \in Procs, Fresh(q, "history")'
               PROVE  WritesHistory(op'[q], acked')
    BY DEF HistoryWrites
  <2>1. WritesHistory(op'[q], acked)
    BY <1>1, <1>4 DEF HistoryWrites, HistoryInv
  <2> QED BY <1>5, <2>1
<1> QED BY <1>1, <1>3, <1>6 DEF HistoryInv

\* The file has been read: what is written keeps the last MaxSessions sessions of it.
LEMMA HistoryLoad ==
  ASSUME Typed, TimesOK, SessionsKept, Sound("history"), NEW p \in Procs, pc[p] = "load",
         op[p] \in HistoryOps, ~Misses(op[p].kind), NEW n,
         n.kind = op[p].kind, n.id = op[p].id, n.at = op[p].at,
         n.next = Edited(op[p], Candidate("history"))
  PROVE  WritesHistory(n, acked)
<1> DEFINE o == op[p]
           x == Candidate("history")
<1>1. x \in Histories /\ acked \in Histories
  BY LoadedType DEF Typed, PromisesOK
<1>2. ~Gap("history")
  BY OpKind DEF Misses, Gap
<1>3. \A s \in DOMAIN acked : s \in DOMAIN x /\ x[s] = acked[s]
  BY <1>2 DEF SessionsKept, Remembers
<1>4. Dated(n.next, begun)
  BY EditedTimes
<1> HIDE DEF x
<1>5. ASSUME o.kind = "upsert", NEW s \in DOMAIN Put(acked, o.id, o.at),
             Cardinality(Newer(n.next, Put(acked, o.id, o.at)[s])) < MaxSessions
      PROVE  s \in DOMAIN n.next /\ n.next[s] = Put(acked, o.id, o.at)[s]
  <2> DEFINE g == Put(x, o.id, o.at)
             time == Put(acked, o.id, o.at)[s]
  <2>1. g \in Histories /\ n.next = Newest(g)
    BY <1>1, <1>5, EditedHistory DEF x
  <2>2. s \in DOMAIN g /\ g[s] = time
    BY <1>3 DEF Put
  <2>3. Distinct(g)
    <3>1. DOMAIN g = DOMAIN x \cup {o.id} /\ g[o.id] = o.at
          /\ \A t \in DOMAIN x : t # o.id => g[t] = x[t]
      BY DEF Put
    <3>2. Upserting(p)
      BY <1>5 DEF Upserting, Reading
    <3>3. x \in HistoryFiles \/ DOMAIN x = {}
      BY EmptyMap DEF Candidate, HistoryFiles, x
    <3>4. Distinct(x) /\ Apart(o.at, x)
      BY <3>2, <3>3 DEF TimesOK, Dated, Distinct, Apart
    <3> HIDE DEF g
    <3> QED BY <3>1, <3>4 DEF Distinct, Apart
  <2>4. time \in Nat
    BY <2>1, <2>2, EndedAt
  <2> HIDE DEF g, time
  <2>5. Cardinality(Newer(Newest(g), time)) < MaxSessions
    BY <1>5, <2>1 DEF time
  <2>6. Cardinality(Newer(g, time)) < MaxSessions
    BY <2>1, <2>3, <2>4, <2>5, NewestCrowds
  <2>7. s \in DOMAIN Newest(g) /\ Newest(g)[s] = g[s]
    BY <2>1, <2>2, <2>6, NewestKeeps
  <2> QED BY <2>1, <2>2, <2>7 DEF time
<1>6. ASSUME o.kind = "forget"
      PROVE  Remembers(n.next, acked, DOMAIN acked \ {o.id})
  <2>1. DOMAIN n.next = DOMAIN x \ {o.id} /\ \A s \in DOMAIN n.next : n.next[s] = x[s]
    <3>1. /\ DOMAIN Edited(o, x) = DOMAIN x \ {o.id}
          /\ \A s \in DOMAIN Edited(o, x) : Edited(o, x)[s] = x[s]
      BY <1>1, <1>6, EditedHistory
    <3> QED BY <3>1 DEF x
  <2> QED BY <1>3, <2>1 DEF Remembers
<1> QED BY <1>5, <1>6 DEF WritesHistory

LEMMA HistoryReads ==
  ASSUME Typed, TimesOK, HistoryInv, NEW p \in Procs, Load(p)
  PROVE  HistoryInv'
<1> DEFINE o == op[p]
<1>1. FilesOK /\ OpsOK /\ o \in AnyOps /\ Quiet(p) /\ pc[p] = "load"
  BY LoadQuiet, LoadCases DEF Typed
<1>2. ASSUME NEW n \in AnyOps,
             n.kind = o.kind, n.id = o.id, n.at = o.at, n.next = Edited(o, Loaded(o.kind)),
             n.stale = Misses(o.kind), op'[p] = n,
             (o \in IndexOps => n \in IndexOps) /\ (o \in HistoryOps => n \in HistoryOps),
             UNCHANGED promises
      PROVE  HistoryInv'
  <2>1. CASE o \in IndexOps
    <3>1. ~Fresh(p, "history")'
      BY <1>2, <2>1, OpKind DEF Fresh, Holds
    <3> QED BY <1>1, <1>2, <3>1, HistoryQuiet DEF promises
  <2>2. CASE o \in HistoryOps
    <3>1. Loaded(o.kind) = Candidate("history")
      BY <2>2, OpKind DEF Loaded
    <3>2. ASSUME Fresh(p, "history")', Sound("history")
          PROVE  WritesHistory(n, acked)
      <4>1. ~Misses(o.kind)
        BY <1>2, <3>2 DEF Fresh
      <4>2. n.next = Edited(o, Candidate("history"))
        BY <1>2, <3>1
      <4> QED BY <1>1, <1>2, <2>2, <3>2, <4>1, <4>2, HistoryLoad DEF HistoryInv
    <3> QED BY <1>1, <1>2, <3>2, HistoryQuiet DEF promises
  <2> QED BY <1>1, <2>1, <2>2 DEF AnyOps
<1>3. ASSUME NEW n \in IndexOps, op'[p] = n, UNCHANGED promises
      PROVE  HistoryInv'
  <2>1. ~Fresh(p, "history")'
    BY <1>3, OpKind DEF Fresh, Holds
  <2> QED BY <1>1, <1>3, <2>1, HistoryQuiet DEF promises
<1>4. ASSUME pc'[p] \in {"load", "idle"}, acked' = acked
      PROVE  HistoryInv'
  <2>1. ~Fresh(p, "history")'
    BY <1>4 DEF Fresh, Holds
  <2> QED BY <1>1, <1>4, <2>1, HistoryQuiet
<1>5. \A n : op' = [op EXCEPT ![p] = n] => op'[p] = n
  BY <1>1 DEF OpsOK
<1>6. \A label : pc' = [pc EXCEPT ![p] = label] => pc'[p] = label
  BY <1>1 DEF OpsOK
<1>7. \/ \E n \in AnyOps :
            /\ UNCHANGED promises /\ op' = [op EXCEPT ![p] = n]
            /\ n.kind = o.kind /\ n.id = o.id /\ n.at = o.at
            /\ n.next = Edited(o, Loaded(o.kind)) /\ n.stale = Misses(o.kind)
            /\ (o \in IndexOps => n \in IndexOps) /\ (o \in HistoryOps => n \in HistoryOps)
      \/ \E n \in IndexOps : UNCHANGED promises /\ op' = [op EXCEPT ![p] = n]
      \/ /\ pc' = pc \/ pc' = [pc EXCEPT ![p] = "idle"]
         /\ IF o.kind = "import" THEN Returned(o, Loaded(o.kind)) ELSE UNCHANGED promises
  BY <1>1, LoadCases
<1>8. ASSUME IF o.kind = "import" THEN Returned(o, Loaded(o.kind)) ELSE UNCHANGED promises
      PROVE  acked' = acked
  BY <1>8 DEF Returned, promises
<1> QED BY <1>1, <1>2, <1>3, <1>4, <1>5, <1>6, <1>7, <1>8

\* The history is written.
LEMMA HistoryPlaced ==
  ASSUME Typed, HistoryInv, NEW p \in Procs, Place(p)
  PROVE  HistoryInv'
<1> DEFINE o == op[p]
           f == "history"
<1>1. OpsOK /\ FilesOK /\ o \in AnyOps /\ pc[p] = "place" /\ Returned(o, o.next)
  BY PlaceFacts DEF Typed, Place
<1>2. f \in Names /\ acked \in Histories
  BY DEF Names, Typed, PromisesOK
<1>3. /\ Sound(f)' => Sound(f)
      /\ \A q \in Procs : Fresh(q, f)' => f # FileOf(o.kind) /\ Fresh(q, f) /\ op'[q] = op[q]
  BY <1>2, PlaceFile
<1>4. CASE o \in HistoryOps
  <2>1. f = FileOf(o.kind) /\ o.kind \in HistoryKinds
    BY <1>4, OpKind
  <2>2. /\ Candidate(f)' = o.next /\ AsideOK(f)'
        /\ Sound(f)' => ~o.stale
    BY <1>2, <2>1, PlaceFile
  <2>3. ASSUME Sound(f)'
        PROVE  Remembers(o.next, acked', DOMAIN acked')
    <3>1. Fresh(p, f)
      BY <1>1, <2>1, <2>2, <2>3 DEF Fresh, Holds
    <3>2. WritesHistory(o, acked)
      BY <1>3, <2>3, <3>1 DEF HistoryInv, HistoryWrites
    <3>3. CASE o.kind = "upsert"
      <4> DEFINE y == Put(acked, o.id, o.at)
                 D == {s \in DOMAIN y : Cardinality(Newer(o.next, y[s])) < MaxSessions}
      <4>1. acked' = Restrict(y, D)
        BY <1>1, <3>3 DEF Returned, Uncrowded, Newer
      <4>2. \A s \in D : s \in DOMAIN o.next /\ o.next[s] = y[s]
        BY <3>2, <3>3 DEF WritesHistory
      <4> HIDE DEF y, D
      <4> QED BY <4>1, <4>2 DEF Remembers, Restrict
    <3>4. CASE o.kind = "forget"
      <4>1. acked' = Restrict(acked, DOMAIN acked \ {o.id})
        BY <1>1, <3>4 DEF Returned
      <4> QED BY <3>2, <3>4, <4>1 DEF WritesHistory, Remembers, Restrict
    <3> QED BY <2>1, <3>3, <3>4 DEF HistoryKinds
  <2> QED BY <1>3, <2>1, <2>2, <2>3 DEF HistoryInv, SessionsKept, HistoryWrites
<1>5. CASE o \in IndexOps
  <2>1. f # FileOf(o.kind) /\ o.kind \notin HistoryKinds
    BY <1>5, OpKind DEF IndexKinds, HistoryKinds
  <2>2. Candidate(f)' = Candidate(f) /\ (Gap(f) => Gap(f)') /\ (AsideOK(f) => AsideOK(f)')
    BY <1>2, <2>1, PlaceFile
  <2>3. acked' = acked
    BY <1>1, <2>1 DEF Returned, HistoryKinds
  <2> QED BY <1>3, <2>2, <2>3 DEF HistoryInv, SessionsKept, HistoryWrites
<1> QED BY <1>1, <1>4, <1>5 DEF AnyOps

LEMMA NextHistory == Typed /\ TimesOK /\ HistoryInv /\ [Next]_vars => HistoryInv'
<1> SUFFICES ASSUME Typed, TimesOK, HistoryInv, [Next]_vars
             PROVE  HistoryInv'
  OBVIOUS
<1> DEFINE f == "history"
<1>1. f \in Names /\ AsideOK(f) /\ pc \in [Procs -> Labels]
  BY DEF Names, HistoryInv, Typed, OpsOK
<1>2. ASSUME UNCHANGED <<cur, prev, pc, op, promises, faults>>
      PROVE  HistoryInv'
  BY <1>2 DEF HistoryInv, SessionsKept, HistoryWrites, AsideOK, Gap, Cut, Replacing, Candidate,
     Sound, Fresh, Holds, promises, faults
<1>3. ASSUME NEW p \in Procs, Quiet(p), pc'[p] \notin {"scan", "unlink", "aside", "place"},
             acked' \in {acked} \cup {Restrict(acked, D) : D \in SUBSET DOMAIN acked}
      PROVE  HistoryInv'
  BY <1>3, HistoryQuiet DEF Fresh, Holds
<1>4. ASSUME NEW p \in Procs, Start(p)
      PROVE  HistoryInv'
  <2>1. ASSUME NEW kind \in Imports, NEW g \in Offers, Import(p, kind, g)
        PROVE  HistoryInv'
    BY <1>3, <2>1, ImportQuiet DEF promises
  <2>2. ASSUME NEW kind, NEW id, Begin(p, kind, id)
        PROVE  HistoryInv'
    <3>1. acked' = acked \/ acked' = Restrict(acked, DOMAIN acked \ {id})
      BY <2>2 DEF Begin
    <3> QED BY <1>3, <2>2, <3>1, BeginQuiet
  <2>3. ASSUME \E force \in BOOLEAN : List(p, force)
        PROVE  HistoryInv'
    BY <1>3, <2>3, OtherQuiet DEF promises
  <2> QED BY <1>4, <2>1, <2>2, <2>3 DEF Start
<1>5. ASSUME NEW p \in Procs, Confirm(p) \/ LookForRom(p) \/ StoreRom(p)
      PROVE  HistoryInv'
  BY <1>3, <1>5, StoreQuiet DEF promises
<1>6. ASSUME NEW p \in Procs, ScanRomFiles(p)
      PROVE  HistoryInv'
  <2>1. Quiet(p) /\ ~Fresh(p, f)'
    BY <1>6, ScanQuiet, OpKind DEF Fresh, Holds
  <2>2. acked' = acked
    BY <1>6 DEF ScanRomFiles
  <2> QED BY <2>1, <2>2, HistoryQuiet
<1>7. ASSUME NEW p \in Procs, UnlinkPrevious(p) \/ MoveAside(p)
      PROVE  HistoryInv'
  <2>1. \A q \in Procs : Fresh(q, f)' => Fresh(q, f) /\ op'[q] = op[q]
    BY <1>1, <1>7, WritingFile DEF Fresh, Holds, Writing
  <2>2. acked' = acked /\ AsideOK(f)' /\ (Sound(f)' => Sound(f))
        /\ (Sound(f)' => (Candidate(f)' = Candidate(f) /\ (Gap(f) => Gap(f)')) \/ Gap(f)')
    BY <1>1, <1>7, WritingFile DEF promises
  <2> QED BY <2>1, <2>2 DEF HistoryInv, SessionsKept, HistoryWrites
<1>8. ASSUME NEW p \in Procs, DropRom(p) \/ Answered(p)
      PROVE  HistoryInv'
  BY <1>3, <1>8, OtherQuiet DEF promises
<1>9. CASE Kill
  <2>1. /\ Candidate(f)' = Candidate(f) /\ acked' = acked /\ (Sound(f)' => Sound(f) /\ ~Gap(f))
        /\ AsideOK(f)' /\ \A q \in Procs : pc'[q] = "idle"
    BY <1>1, <1>9, KillFile DEF promises
  <2>2. \A q \in Procs : ~Fresh(q, f)'
    BY <2>1 DEF Fresh, Holds
  <2> QED BY <2>1, <2>2 DEF HistoryInv, SessionsKept, HistoryWrites
<1>10. CASE Expire \/ \E r \in Roms : Rot(r)
  BY <1>2, <1>10 DEF Expire, Rot, files
<1>11. CASE UNCHANGED vars
  BY <1>2, <1>11 DEF vars, files
<1>12. ASSUME NEW p \in Procs, Start(p) \/ Step(p)
       PROVE  HistoryInv'
  BY <1>4, <1>5, <1>6, <1>7, <1>8, <1>12, HistoryReads, HistoryPlaced DEF Step
<1> QED BY <1>9, <1>10, <1>11, <1>12 DEF Next
LEMMA InitHistory == Init => HistoryInv
<1> SUFFICES ASSUME Init
             PROVE  HistoryInv
  OBVIOUS
<1>1. acked = Empty /\ prev["history"] = NoFile /\ \A q \in Procs : pc[q] = "idle"
  BY DEF Init, Names
<1>2. DOMAIN acked = {}
  BY <1>1 DEF Empty
<1> QED BY <1>1, <1>2 DEF HistoryInv, SessionsKept, HistoryWrites, AsideOK, Remembers, Fresh, Holds

\* Of the sessions whose upsert has returned, the last MaxSessions are in the history with the
\* time they ended, whatever is under way at once and wherever the app is killed, unless an
\* outdated copy was written or two replacements in a row were cut short.
THEOREM SessionsAreKept == Spec => []HistoryKept
<1>1. Init => Typed /\ TimesOK /\ HistoryInv
  BY InitTyped, InitTimes, InitHistory
<1>2. Typed /\ TimesOK /\ HistoryInv /\ [Next]_vars => (Typed /\ TimesOK /\ HistoryInv)'
  BY NextTyped, NextTimes, NextHistory
<1>3. HistoryInv => HistoryKept
  BY DEF HistoryInv, SessionsKept, HistoryKept, Settled, History, Remembers, Gap
<1> QED BY <1>1, <1>2, <1>3, PTL DEF Spec

------------------------------------------------------------------------------
(* The ROM files behind the entries. *)

\* Whose entries an operation on the index holds, and whose ROM file it relies on.
LEMMA HeldRoms ==
  ASSUME Typed, NEW q \in Procs
  PROVE  /\ Holds(q, "index") => op[q].next \in Indexes /\ DOMAIN op[q].next \subseteq Roms
         /\ pc[q] \in Reading /\ op[q].kind \in Imports \cup {"link"} =>
              /\ op[q] \in IndexOps /\ op[q].id \in Roms
              /\ pc[q] \in Writing => Holds(q, "index") /\ op[q].id \in DOMAIN op[q].next
<1>1. OpsOK /\ "index" \in Names
  BY DEF Typed, Names
<1>2. Holds(q, "index") => op[q].next \in Indexes /\ DOMAIN op[q].next \subseteq Roms
  BY <1>1, HolderOp, OfMap DEF Indexes
<1>3. ASSUME pc[q] \in Reading, op[q].kind \in Imports \cup {"link"}
      PROVE  /\ op[q] \in IndexOps /\ op[q].id \in Roms
             /\ pc[q] \in Writing => Holds(q, "index") /\ op[q].id \in DOMAIN op[q].next
  <2>1. Shaped(pc[q], op[q])
    BY <1>1 DEF OpsOK
  <2>2. op[q] \in IndexOps
    BY <1>3, <2>1, OpKind DEF Shaped, AnyOps, Imports, HistoryKinds
  <2>3. op[q].id \in Roms /\ FileOf(op[q].kind) = "index"
    BY <2>2, OpKind DEF IndexOps
  <2> QED BY <1>3, <2>1, <2>2, <2>3 DEF Shaped, Holds, Writing
<1> QED BY <1>2, <1>3

LEMMA ListedRoms == Typed => DOMAIN Candidate("index") \subseteq Roms
BY LoadedType, OfMap DEF Typed, Indexes

\* A quiet step that takes no ROM file away.
LEMMA RomsQuiet ==
  ASSUME Typed, RomsInv, NEW p \in Procs, Quiet(p),
         \A r \in Roms : /\ roms[r] # "none" => roms'[r] # "none"
                         /\ roms[r] # "gone" => roms'[r] # "gone"
                         /\ roms[r] \in {"good", "bad"} => roms'[r] \in {"good", "bad"},
         "index" \notin hurt /\ Holds(p, "index")' => HaveRoms(DOMAIN op[p].next)',
         "index" \notin hurt => Found(p)'
  PROVE  RomsInv'
<1> SUFFICES ASSUME "index" \notin hurt'
             PROVE  /\ HaveRoms(DOMAIN Candidate("index"))'
                    /\ \A q \in Procs : (Holds(q, "index") => HaveRoms(DOMAIN op[q].next))' /\ Found(q)'
  BY DEF RomsInv
<1>1. "index" \notin hurt /\ \A q \in Procs : q # p => pc'[q] = pc[q] /\ op'[q] = op[q]
  BY DEF Quiet
<1>2. /\ HaveRoms(DOMAIN Candidate("index"))
      /\ \A q \in Procs : (Holds(q, "index") => HaveRoms(DOMAIN op[q].next)) /\ Found(q)
  BY <1>1 DEF RomsInv
<1>3. HaveRoms(DOMAIN Candidate("index"))'
  <2>1. Candidate("index")' = Candidate("index")
    BY QuietFile
  <2> QED BY <1>2, <2>1, ListedRoms DEF HaveRoms
<1>4. ASSUME NEW q \in Procs, q # p
      PROVE  (Holds(q, "index") => HaveRoms(DOMAIN op[q].next))' /\ Found(q)'
  <2>1. (Holds(q, "index") => HaveRoms(DOMAIN op[q].next))'
    BY <1>1, <1>2, <1>4, HeldRoms DEF Holds, HaveRoms
  <2>2. Found(q)'
    BY <1>1, <1>2, <1>4, HeldRoms DEF Found, Reading, Writing
  <2> QED BY <2>1, <2>2
<1> QED BY <1>1, <1>3, <1>4

\* What is read of the index is in it.
LEMMA LoadedListed ==
  \A kind \in IndexKinds : DOMAIN Loaded(kind) \subseteq DOMAIN Candidate("index")
<1>1. DOMAIN Empty = {}
  BY DEF Empty
<1> HIDE DEF Empty
<1>2. DOMAIN CurrentOnly("index") \subseteq DOMAIN Candidate("index")
  BY <1>1 DEF CurrentOnly, Candidate
<1> QED BY <1>2, FileOfKind DEF Loaded
LEMMA RomsLoad ==
  ASSUME Typed, RomsInv, NEW p \in Procs, Load(p)
  PROVE  RomsInv'
<1> DEFINE o == op[p]
           x == Loaded(o.kind)
<1>1. FilesOK /\ OpsOK /\ Quiet(p) /\ UNCHANGED roms /\ pc[p] = "load"
  BY LoadQuiet DEF Typed
<1>2. /\ o \in AnyOps /\ (o \in IndexOps => x \in Indexes)
      /\ \/ \E n \in AnyOps :
              /\ pc' = [pc EXCEPT ![p] = "unlink"] /\ op' = [op EXCEPT ![p] = n]
              /\ n.kind = o.kind /\ n.id = o.id /\ n.next = Edited(o, x)
              /\ o.kind # "repair" /\ Applies(o, x)
              /\ (o \in IndexOps => n \in IndexOps) /\ (o \in HistoryOps => n \in HistoryOps)
         \/ \E n \in IndexOps :
              /\ pc' = [pc EXCEPT ![p] = "scan"] /\ op' = [op EXCEPT ![p] = n]
              /\ o \in IndexOps /\ o.kind = "repair" /\ n.kind = o.kind /\ n.next = x
         \/ \E n \in IndexOps :
              /\ o.kind = "install" /\ pc' = pc /\ op' = [op EXCEPT ![p] = n]
              /\ n.kind = "link" /\ n.id = o.id
         \/ pc' = [pc EXCEPT ![p] = "idle"]
  BY <1>1, LoadCases
<1>3. ASSUME "index" \notin hurt
      PROVE  HaveRoms(DOMAIN Candidate("index")) /\ Found(p)
  BY <1>3 DEF RomsInv
<1>4. ASSUME Holds(p, "index")' /\ "index" \notin hurt => HaveRoms(DOMAIN op[p].next)',
             "index" \notin hurt => Found(p)'
      PROVE  RomsInv'
  BY <1>1, <1>4, RomsQuiet
<1>5. /\ \A n : op' = [op EXCEPT ![p] = n] => op'[p] = n
      /\ \A label : pc' = [pc EXCEPT ![p] = label] => pc'[p] = label
  BY <1>1 DEF OpsOK
<1>6. o \in IndexOps => o.kind \in IndexKinds /\ DOMAIN x \subseteq DOMAIN Candidate("index")
  BY OpKind, LoadedListed
<1>7. ASSUME NEW n \in AnyOps, pc'[p] = "unlink", op'[p] = n,
             n.kind = o.kind, n.id = o.id, n.next = Edited(o, x),
             o.kind # "repair", Applies(o, x),
             (o \in IndexOps => n \in IndexOps) /\ (o \in HistoryOps => n \in HistoryOps)
      PROVE  RomsInv'
  <2>1. CASE o \in HistoryOps
    <3>1. ~Holds(p, "index")'
      BY <1>7, <2>1, OpKind DEF Holds
    <3>2. Found(p)'
      BY <1>7, <2>1, OpKind DEF Found, Imports, HistoryKinds
    <3> QED BY <1>4, <3>1, <3>2
  <2>2. CASE o \in IndexOps
    <3>1. DOMAIN n.next \subseteq DOMAIN x \cup (IF o.kind \in Imports THEN {o.id} ELSE {})
      <4>1. o.kind \in IndexKinds /\ x \in Indexes
        BY <1>2, <2>2, OpKind
      <4> HIDE DEF o, x
      <4>2. /\ o.kind \in Imports => DOMAIN Edited(o, x) = DOMAIN x \cup {o.id}
            /\ o.kind \in {"link", "played", "mark"} => DOMAIN Edited(o, x) = DOMAIN x
            /\ o.kind = "remove" => DOMAIN Edited(o, x) = DOMAIN x \ {o.id}
        BY <1>7, <2>2, <4>1, EditedIndex
      <4> QED BY <1>7, <4>1, <4>2 DEF IndexKinds, Imports
    <3>2. ASSUME "index" \notin hurt
          PROVE  HaveRoms(DOMAIN op[p].next)' /\ Found(p)'
      <4>1. HaveRoms(DOMAIN n.next)
        BY <1>1, <1>3, <1>6, <2>2, <3>1, <3>2 DEF HaveRoms, Found, Reading
      <4>2. o.kind \in Imports => roms[o.id] \in {"good", "bad"}
        BY <1>1, <1>3, <3>2 DEF Found, Reading
      <4>3. o.kind = "link" => roms[o.id] \in {"good", "bad"}
        <5> SUFFICES ASSUME o.kind = "link"
                     PROVE  roms[o.id] \in {"good", "bad"}
          OBVIOUS
        <5>1. roms[o.id] # "gone"
          BY <1>1, <1>3, <3>2 DEF Found
        <5>2. o.id \in DOMAIN x
          BY <1>7 DEF Applies, Imports, HistoryKinds
        <5>3. roms[o.id] # "none" /\ o.id \in Roms
          BY <1>3, <1>6, <2>2, <3>2, <5>2 DEF HaveRoms, IndexOps
        <5> QED BY <1>1, <5>1, <5>3 DEF FilesOK
      <4> QED BY <1>1, <1>7, <4>1, <4>2, <4>3 DEF HaveRoms, Found, Reading
    <3> QED BY <1>4, <3>2
  <2> QED BY <1>2, <2>1, <2>2 DEF AnyOps
<1>8. ASSUME NEW n \in IndexOps, pc'[p] = "scan", op'[p] = n,
             o \in IndexOps, n.next = x
      PROVE  RomsInv'
  <2>1. "index" \notin hurt => HaveRoms(DOMAIN op[p].next)'
    BY <1>1, <1>3, <1>6, <1>8 DEF HaveRoms
  <2>2. Found(p)'
    BY <1>8 DEF Found, Reading, Writing
  <2> QED BY <1>4, <2>1, <2>2
<1>9. ASSUME NEW n \in IndexOps, pc' = pc, op'[p] = n, o.kind = "install", n.kind = "link", n.id = o.id
      PROVE  RomsInv'
  <2>1. "index" \notin hurt => Found(p)'
    BY <1>1, <1>3, <1>9 DEF Found, Reading, Writing, Imports
  <2>2. ~Holds(p, "index")'
    BY <1>1, <1>9 DEF Holds
  <2> QED BY <1>4, <2>1, <2>2
<1>10. ASSUME pc'[p] = "idle"
       PROVE  RomsInv'
  BY <1>4, <1>10 DEF Found, Reading, Writing, Holds
<1> QED BY <1>2, <1>5, <1>7, <1>8, <1>9, <1>10

LEMMA RomsScan ==
  ASSUME Typed, RomsInv, NEW p \in Procs, ScanRomFiles(p)
  PROVE  RomsInv'
<1> SUFFICES ASSUME "index" \notin hurt'
             PROVE  /\ HaveRoms(DOMAIN Candidate("index"))'
                    /\ \A q \in Procs : (Holds(q, "index") => HaveRoms(DOMAIN op[q].next))' /\ Found(q)'
  BY DEF RomsInv
<1>1. /\ Quiet(p) /\ pc[p] = "scan" /\ pc'[p] = "unlink" /\ op[p] \in IndexOps
      /\ op'[p].kind = "repair" /\ op'[p].next = Rebuilt(op[p].next)
  BY ScanQuiet
<1>2. /\ roms' = [r \in Roms |-> IF r \in Damaged THEN "gone" ELSE roms[r]]
      /\ \A r \in Damaged : ~Relied(r)
      /\ "index" \notin hurt
  BY DEF ScanRomFiles
<1>3. /\ HaveRoms(DOMAIN Candidate("index"))
      /\ \A q \in Procs : (Holds(q, "index") => HaveRoms(DOMAIN op[q].next)) /\ Found(q)
  BY <1>2 DEF RomsInv
<1>4. \A r \in Roms : /\ roms[r] # "none" => roms'[r] # "none"
                      /\ roms[r] = "good" => roms'[r] = "good"
                      /\ r \notin Damaged => roms'[r] = roms[r]
  BY <1>2 DEF Damaged
<1>5. HaveRoms(DOMAIN Candidate("index"))'
  <2>1. Candidate("index")' = Candidate("index")
    BY <1>1, QuietFile
  <2> QED BY <1>3, <1>4, <2>1, ListedRoms DEF HaveRoms
<1>6. ASSUME NEW q \in Procs, q # p
      PROVE  (Holds(q, "index") => HaveRoms(DOMAIN op[q].next))' /\ Found(q)'
  <2>1. pc'[q] = pc[q] /\ op'[q] = op[q]
    BY <1>1, <1>6 DEF Quiet
  <2>2. (Holds(q, "index") => HaveRoms(DOMAIN op[q].next))'
    BY <1>3, <1>4, <2>1, HeldRoms DEF Holds, HaveRoms
  <2>3. ASSUME pc[q] \in Reading, op[q].kind \in Imports \cup {"link"}
        PROVE  roms'[op[q].id] = roms[op[q].id]
    <3>1. op[q].id \in Roms
      BY <2>3, HeldRoms
    <3>2. Relied(op[q].id)
      BY <2>3 DEF Relied, Reading
    <3> QED BY <1>2, <1>4, <3>1, <3>2
  <2>4. Found(q)'
    BY <1>3, <2>1, <2>3 DEF Found, Reading, Writing
  <2> QED BY <2>2, <2>4
<1>7. HaveRoms(DOMAIN op[p].next)'
  <2>1. DOMAIN op'[p].next = SoundRoms
    BY <1>1, RebuiltType DEF IndexOps
  <2> QED BY <1>4, <2>1 DEF HaveRoms, SoundRoms
<1>8. Found(p)'
  BY <1>1 DEF Found, Imports
<1> QED BY <1>5, <1>6, <1>7, <1>8

LEMMA RomsDrop ==
  ASSUME Typed, RomsInv, NEW p \in Procs, DropRom(p)
  PROVE  RomsInv'
<1> DEFINE d == op[p].id
<1> SUFFICES ASSUME "index" \notin hurt'
             PROVE  /\ HaveRoms(DOMAIN Candidate("index"))'
                    /\ \A q \in Procs : (Holds(q, "index") => HaveRoms(DOMAIN op[q].next))' /\ Found(q)'
  BY DEF RomsInv
<1>1. Quiet(p) /\ pc[p] = "drop" /\ pc'[p] = "idle"
  <2>1. OpsOK
    BY DEF Typed
  <2> QED BY <2>1, QuietReturn DEF DropRom
<1>2. /\ roms' = [roms EXCEPT ![d] = "none"] /\ "index" \notin hurt /\ ~Relisted(p, d)
      /\ roms \in [Roms -> {"none", "good", "bad", "gone"}]
  BY DEF DropRom, Typed, FilesOK
<1>3. /\ HaveRoms(DOMAIN Candidate("index"))
      /\ \A q \in Procs : (Holds(q, "index") => HaveRoms(DOMAIN op[q].next)) /\ Found(q)
  BY <1>2 DEF RomsInv
<1>4. \A r \in Roms : r # d => roms'[r] = roms[r]
  BY <1>2
<1> HIDE DEF d
<1>5. HaveRoms(DOMAIN Candidate("index"))'
  <2>1. Candidate("index")' = Candidate("index") /\ d \notin DOMAIN Candidate("index")
    BY <1>1, <1>2, QuietFile DEF Relisted
  <2> QED BY <1>3, <1>4, <2>1, ListedRoms DEF HaveRoms
<1>6. ASSUME NEW q \in Procs, q # p
      PROVE  (Holds(q, "index") => HaveRoms(DOMAIN op[q].next))' /\ Found(q)'
  <2>1. pc'[q] = pc[q] /\ op'[q] = op[q]
    BY <1>1, <1>6 DEF Quiet
  <2>2. Holds(q, "index") => d \notin DOMAIN op[q].next
    BY <1>2, <1>6 DEF Relisted
  <2>3. (Holds(q, "index") => HaveRoms(DOMAIN op[q].next))'
    BY <1>3, <1>4, <2>1, <2>2, HeldRoms DEF Holds, HaveRoms
  <2>4. ASSUME pc[q] \in Writing, op[q].kind \in Imports \cup {"link"}
        PROVE  roms'[op[q].id] = roms[op[q].id]
    BY <1>4, <2>2, <2>4, HeldRoms DEF Reading, Writing
  <2>5. ASSUME pc[q] = "load", op[q].kind \in Imports
        PROVE  roms'[op[q].id] = roms[op[q].id]
    BY <1>2, <1>4, <1>6, <2>5, HeldRoms DEF Reading, Relisted
  <2>6. ASSUME pc[q] = "load", op[q].kind = "link"
        PROVE  roms'[op[q].id] # "gone"
    BY <1>2, <1>3, <2>6, HeldRoms DEF Reading, Found
  <2>7. Found(q)'
    BY <1>3, <2>1, <2>4, <2>5, <2>6 DEF Found, Reading, Writing
  <2> QED BY <2>3, <2>7
<1>7. (Holds(p, "index") => HaveRoms(DOMAIN op[p].next))' /\ Found(p)'
  BY <1>1 DEF Holds, Found, Reading, Writing
<1> QED BY <1>5, <1>6, <1>7

LEMMA RomsPlace ==
  ASSUME Typed, RomsInv, NEW p \in Procs, Place(p)
  PROVE  RomsInv'
<1> DEFINE o == op[p]
<1> SUFFICES ASSUME "index" \notin hurt'
             PROVE  /\ HaveRoms(DOMAIN Candidate("index"))'
                    /\ \A q \in Procs : (Holds(q, "index") => HaveRoms(DOMAIN op[q].next))' /\ Found(q)'
  BY DEF RomsInv
<1>1. UNCHANGED roms /\ hurt \subseteq hurt' /\ OpsOK /\ FilesOK /\ "index" \in Names
  BY PlaceFile DEF Typed, Names
<1>2. /\ HaveRoms(DOMAIN Candidate("index"))
      /\ \A q \in Procs : (Holds(q, "index") => HaveRoms(DOMAIN op[q].next)) /\ Found(q)
  BY <1>1 DEF RomsInv
<1>3. /\ o \in AnyOps /\ pc[p] = "place"
      /\ \A q \in Procs : q # p =>
           /\ pc'[q] = pc[q]
           /\ ~Holds(q, FileOf(o.kind)) => op'[q] = op[q]
           /\ op[q] \in AnyOps =>
                op'[q].kind = op[q].kind /\ op'[q].id = op[q].id /\ op'[q].next = op[q].next
      /\ o.kind = "install" => pc'[p] = "load" /\ op'[p].kind = "link" /\ op'[p].id = o.id
      /\ o.kind = "remove" => pc'[p] = "drop"
      /\ o.kind \notin {"install", "remove"} => pc'[p] = "idle"
  BY <1>1, PlaceFacts
<1>4. HaveRoms(DOMAIN Candidate("index"))'
  <2>1. CASE FileOf(o.kind) = "index"
    <3>1. Candidate("index")' = o.next
      BY <1>1, <2>1, PlaceFile
    <3>2. Holds(p, "index")
      BY <1>3, <2>1 DEF Holds
    <3> QED BY <1>1, <1>2, <3>1, <3>2 DEF HaveRoms
  <2>2. CASE FileOf(o.kind) # "index"
    <3>1. Candidate("index")' = Candidate("index")
      BY <1>1, <2>2, PlaceFile
    <3> QED BY <1>1, <1>2, <3>1 DEF HaveRoms
  <2> QED BY <2>1, <2>2
<1>5. ASSUME NEW q \in Procs, q # p
      PROVE  (Holds(q, "index") => HaveRoms(DOMAIN op[q].next))' /\ Found(q)'
  <2>1. pc[q] \in Reading \cup {"scan"} => op[q] \in AnyOps
    BY <1>1 DEF OpsOK, Shaped, AnyOps
  <2>2. /\ pc'[q] = pc[q]
        /\ op[q] \in AnyOps =>
             op'[q].kind = op[q].kind /\ op'[q].id = op[q].id /\ op'[q].next = op[q].next
    BY <1>3, <1>5
  <2>3. (Holds(q, "index") => HaveRoms(DOMAIN op[q].next))'
    BY <1>1, <1>2, <2>1, <2>2 DEF Holds, HaveRoms, Reading
  <2>4. Found(q)'
    BY <1>1, <1>2, <2>1, <2>2 DEF Found, Reading, Writing
  <2> QED BY <2>3, <2>4
<1>6. (Holds(p, "index") => HaveRoms(DOMAIN op[p].next))' /\ Found(p)'
  <2>1. pc'[p] \in {"load", "drop", "idle"}
    BY <1>3
  <2>2. ~Holds(p, "index")'
    BY <2>1 DEF Holds
  <2>3. CASE o.kind = "install"
    <3>1. pc'[p] = "load" /\ op'[p].kind = "link" /\ op'[p].id = o.id
      BY <1>3, <2>3
    <3>2. roms[o.id] \in {"good", "bad"}
      BY <1>2, <1>3, <2>3 DEF Found, Reading, Imports
    <3> QED BY <1>1, <2>2, <3>1, <3>2 DEF Found, Writing, Imports
  <2>4. CASE o.kind # "install"
    <3>1. pc'[p] \in {"drop", "idle"}
      BY <1>3, <2>4
    <3> QED BY <2>2, <3>1 DEF Found, Writing, Reading
  <2> QED BY <2>3, <2>4
<1> QED BY <1>4, <1>5, <1>6

LEMMA NextRoms == Typed /\ RomsInv /\ [Next]_vars => RomsInv'
<1> SUFFICES ASSUME Typed, RomsInv, [Next]_vars
             PROVE  RomsInv'
  OBVIOUS
<1>1. OpsOK /\ roms \in [Roms -> {"none", "good", "bad", "gone"}]
  BY DEF Typed, FilesOK
<1>2. ASSUME UNCHANGED <<cur, prev, pc, op, roms, hurt>>
      PROVE  RomsInv'
  BY <1>2 DEF RomsInv, HaveRoms, Found, Candidate, Holds
<1>3. ASSUME NEW p \in Procs, Quiet(p), UNCHANGED roms,
             pc'[p] \notin Reading \cup {"scan"} \/ (pc'[p] = "load" /\ op'[p].kind \notin Imports \cup {"link"})
      PROVE  RomsInv'
  <2>1. ~Holds(p, "index")' /\ Found(p)'
    BY <1>3 DEF Holds, Found, Reading, Writing
  <2> QED BY <1>3, <2>1, RomsQuiet
<1>4. ASSUME NEW p \in Procs, Start(p)
      PROVE  RomsInv'
  <2>1. ASSUME NEW kind \in Imports, NEW g \in Offers, Import(p, kind, g)
        PROVE  RomsInv'
    BY <1>3, <2>1, ImportQuiet DEF Reading
  <2>2. ASSUME NEW kind, NEW id, Begin(p, kind, id)
        PROVE  RomsInv'
    BY <1>3, <2>2, BeginQuiet
  <2>3. ASSUME NEW force \in BOOLEAN, List(p, force)
        PROVE  RomsInv'
    <3>1. UNCHANGED roms /\ Quiet(p) /\ pc'[p] \in {"idle", "reply"}
      BY <2>3, OtherQuiet DEF List, files
    <3> QED BY <1>3, <3>1 DEF Reading
  <2> QED BY <1>4, <2>1, <2>2, <2>3 DEF Start
<1>5. ASSUME NEW p \in Procs, Confirm(p)
      PROVE  RomsInv'
  <2>1. UNCHANGED roms /\ Quiet(p) /\ pc'[p] \in {"idle", "exists"}
    BY <1>1, <1>5, StoreQuiet DEF Confirm, files, Goto, Return, OpsOK
  <2> QED BY <1>3, <2>1 DEF Reading
<1>6. ASSUME NEW p \in Procs, LookForRom(p) \/ StoreRom(p)
      PROVE  RomsInv'
  <2>1. Quiet(p) /\ pc'[p] \in {"store", "load"} /\ op'[p] = op[p] /\ op[p] \in IndexOps
        /\ op[p].kind \in Imports
    BY <1>1, <1>6, StoreQuiet DEF LookForRom, StoreRom, Goto, OpsOK
  <2>2. op[p].id \in Roms
    BY <2>1 DEF IndexOps
  <2>3. \A r \in Roms : roms'[r] = roms[r] \/ (r = op[p].id /\ roms'[r] = "good")
    BY <1>1, <1>6 DEF LookForRom, StoreRom, files
  <2>4. pc'[p] = "load" => roms'[op[p].id] \in {"good", "bad"}
    <3>1. CASE LookForRom(p)
      BY <1>1, <3>1 DEF LookForRom, files, Goto, OpsOK
    <3>2. CASE StoreRom(p)
      BY <1>1, <2>2, <3>2 DEF StoreRom
    <3> QED BY <1>6, <3>1, <3>2
  <2>5. Found(p)' /\ ~Holds(p, "index")'
    BY <2>1, <2>4 DEF Found, Holds, Reading, Writing, Imports
  <2> QED BY <2>1, <2>3, <2>5, RomsQuiet
<1>7. ASSUME NEW p \in Procs, UnlinkPrevious(p) \/ MoveAside(p)
      PROVE  RomsInv'
  <2>1. /\ op' = op /\ pc[p] \in Writing /\ pc'[p] \in Writing /\ UNCHANGED roms /\ hurt \subseteq hurt'
        /\ \A q \in Procs : q # p => pc'[q] = pc[q]
    BY <1>1, <1>7 DEF UnlinkPrevious, MoveAside, Writing, Goto, OpsOK, faults
  <2>2. Candidate("index")' \in {Candidate("index"), Empty}
    BY <1>7 DEF UnlinkPrevious, MoveAside, Candidate, Typed, FilesOK, Names
  <2>3. HaveRoms(DOMAIN Candidate("index")) => HaveRoms(DOMAIN Candidate("index"))'
    BY <2>1, <2>2 DEF HaveRoms, Empty
  <2>4. \A q \in Procs : (Holds(q, "index")' => Holds(q, "index")) /\ (Found(q) => Found(q)')
    BY <2>1 DEF Holds, Found, Reading, Writing
  <2> QED BY <2>1, <2>3, <2>4 DEF RomsInv, HaveRoms
<1>8. ASSUME NEW p \in Procs, Answered(p)
      PROVE  RomsInv'
  <2>1. Quiet(p) /\ UNCHANGED roms /\ pc'[p] = "idle"
    BY <1>1, <1>8, OtherQuiet DEF Answered, files, Return, Goto, OpsOK
  <2> QED BY <1>3, <2>1 DEF Reading
<1>9. CASE Kill
  <2>1. UNCHANGED <<cur, prev, roms, hurt>> /\ \A q \in Procs : pc'[q] = "idle"
    BY <1>9 DEF Kill, files
  <2>2. Candidate("index")' = Candidate("index")
    BY <2>1 DEF Candidate
  <2> QED BY <2>1, <2>2 DEF RomsInv, HaveRoms, Found, Holds, Reading, Writing
<1>10. ASSUME NEW r \in Roms, Rot(r)
       PROVE  RomsInv'
  <2>1. UNCHANGED <<cur, prev, pc, op, hurt>> /\ roms[r] = "good" /\ roms' = [roms EXCEPT ![r] = "bad"]
    BY <1>10 DEF Rot, faults
  <2>2. /\ \A s : roms[s] # "none" /\ s \in Roms => roms'[s] # "none"
        /\ \A s : roms[s] \in {"good", "bad"} /\ s \in Roms => roms'[s] \in {"good", "bad"}
        /\ \A s : roms[s] # "gone" /\ s \in Roms => roms'[s] # "gone"
    BY <1>1, <2>1
  <2>3. Candidate("index")' = Candidate("index")
    BY <2>1 DEF Candidate
  <2>4. HaveRoms(DOMAIN Candidate("index")) => HaveRoms(DOMAIN Candidate("index"))'
    BY <2>2, <2>3, ListedRoms DEF HaveRoms
  <2>5. \A q \in Procs : Holds(q, "index") /\ HaveRoms(DOMAIN op[q].next) => HaveRoms(DOMAIN op[q].next)'
    BY <2>1, <2>2, HeldRoms DEF HaveRoms
  <2>6. ASSUME NEW q \in Procs, Found(q)
        PROVE  Found(q)'
    BY <2>1, <2>2, <2>6, HeldRoms DEF Found, Reading, Writing
  <2> QED BY <2>1, <2>4, <2>5, <2>6 DEF RomsInv, Holds
<1>11. CASE Expire \/ UNCHANGED vars
  BY <1>2, <1>11 DEF Expire, vars, files, faults
<1>12. ASSUME NEW p \in Procs, Start(p) \/ Step(p)
       PROVE  RomsInv'
  BY <1>4, <1>5, <1>6, <1>7, <1>8, <1>12, RomsLoad, RomsScan, RomsDrop, RomsPlace DEF Step
<1> QED BY <1>9, <1>10, <1>11, <1>12 DEF Next
LEMMA InitRoms == Init => RomsInv
<1> SUFFICES ASSUME Init
             PROVE  RomsInv
  OBVIOUS
<1>1. Candidate("index") = Empty /\ \A q \in Procs : pc[q] = "idle"
  BY DEF Init, Candidate, Names
<1> QED BY <1>1 DEF RomsInv, HaveRoms, Found, Holds, Reading, Writing, Empty

\* A game in library.json has its ROM file, or the quarantine has it, whatever operations are
\* under way at once and wherever the app is killed, as long as none has damaged the index.
THEOREM EntriesHaveRoms == Spec => []EntryHasRom
<1>1. Init => Typed /\ RomsInv
  BY InitTyped, InitRoms
<1>2. Typed /\ RomsInv /\ [Next]_vars => (Typed /\ RomsInv)'
  BY NextTyped, NextRoms
<1>3. RomsInv => EntryHasRom
  BY DEF RomsInv, EntryHasRom, Sound, Index, HaveRoms
<1> QED BY <1>1, <1>2, <1>3, PTL DEF Spec

------------------------------------------------------------------------------
(* The promises of the library. *)

\* A quiet step that promises nothing more, and takes no ROM file away from an entry.
LEMMA IndexQuiet ==
  ASSUME Typed, IndexInv, NEW p \in Procs, Quiet(p),
         Sound("index")' => \A r \in owned' :
           /\ r \in owned /\ credit'[r] = credit[r] /\ (r \in linked' => r \in linked)
           /\ roms[r] \in {"good", "bad"} => roms'[r] \in {"good", "bad"} \/ ~Relisted(p, r),
         Sound("index") /\ Sound("index")' /\ Fresh(p, "index")' => WritesIndex(op[p])' /\ Follows(p)'
  PROVE  IndexInv'
<1> DEFINE f == "index"
<1>1. /\ Candidate(f)' = Candidate(f) /\ (Gap(f) => Gap(f)')
      /\ Sound(f)' => Sound(f)
      /\ AsideOK(f)'
  BY QuietFile DEF IndexInv
<1>2. \A q \in Procs : q # p => pc'[q] = pc[q] /\ op'[q] = op[q]
  BY DEF Quiet
<1>3. IndexKept'
  <2> SUFFICES ASSUME Sound(f)', ~Gap(f)', NEW r \in owned'
               PROVE  Keeps(Candidate(f), r)'
    BY DEF IndexKept, Full
  <2>1. Full(Candidate(f), owned)
    BY <1>1 DEF IndexInv, IndexKept
  <2>2. r \in owned
    OBVIOUS
  <2>3. Keeps(Candidate(f), r)
    BY <2>1, <2>2 DEF Full
  <2>4. Relisted(p, r)
    BY <2>3 DEF Keeps, Relisted
  <2> QED BY <1>1, <2>3, <2>4 DEF Keeps
<1>4. ASSUME NEW q \in Procs, q # p, Sound(f)', Fresh(q, f)'
      PROVE  WritesIndex(op[q])'
  <2> DEFINE o == op[q]
             S == IF o.kind \in {"remove", "played"} THEN {o.id} ELSE {}
  <2>1. Fresh(q, f) /\ op'[q] = o
    BY <1>2, <1>4 DEF Fresh, Holds
  <2>2. WritesIndex(o)
    BY <1>1, <1>4, <2>1 DEF IndexInv, IndexWrites
  <2>3. \A r \in DOMAIN o.next : Relisted(p, r)
    BY <1>4, <2>1 DEF Relisted, Fresh
  <2>4. ASSUME NEW r \in owned', r \notin S
        PROVE  Keeps(o.next, r)'
    <3>1. Keeps(o.next, r)
      BY <1>4, <2>2, <2>4 DEF WritesIndex, Full
    <3>2. Relisted(p, r)
      BY <2>3, <3>1 DEF Keeps
    <3> QED BY <1>4, <2>1, <3>1, <3>2 DEF Keeps
  <2>5. ASSUME o.kind = "played", o.id \in owned'
        PROVE  /\ o.id \in DOMAIN o.next /\ o.next[o.id].played = credit'[o.id] + 1
               /\ (o.id \in linked' => o.next[o.id].cat) /\ roms'[o.id] \in {"good", "bad"}
    BY <1>4, <2>2, <2>3, <2>5 DEF WritesIndex
  <2> QED BY <2>1, <2>2, <2>4, <2>5 DEF WritesIndex, Full
<1>5. ASSUME NEW q \in Procs, q # p, Sound(f)'
      PROVE  Follows(q)'
  <2>1. Follows(q)
    BY <1>1, <1>5 DEF IndexInv, IndexFollows
  <2>2. pc'[q] = pc[q] /\ op'[q] = op[q] /\ cur' = cur
    BY <1>2, <1>5 DEF Quiet
  <2> QED BY <2>1, <2>2 DEF Follows, Fresh, Holds, Repairing
<1>6. ASSUME ~Fresh(p, f)'
      PROVE  Follows(p)'
  BY <1>6 DEF Follows
<1>7. IndexWrites' /\ IndexFollows'
  BY <1>1, <1>4, <1>5, <1>6 DEF IndexWrites, IndexFollows
<1> QED BY <1>1, <1>3, <1>7 DEF IndexInv

\* What an operation makes of the index it has read keeps the promises, with its own change.
LEMMA EditedKeeps ==
  ASSUME Typed, NEW o \in IndexOps, o.kind # "repair", NEW x \in Indexes, Applies(o, x),
         Full(x, owned), NEW n, n.kind = o.kind, n.id = o.id, n.next = Edited(o, x)
  PROVE  /\ WritesIndex(n)
         /\ \A r \in DOMAIN x :
              /\ r \in DOMAIN n.next \/ (n.kind = "remove" /\ n.id = r)
              /\ r \in DOMAIN n.next =>
                   n.next[r].played = x[r].played + (IF n.kind = "played" /\ n.id = r THEN 1 ELSE 0)
<1> DEFINE e == Edited(o, x)
<1>1. \A r \in DOMAIN x : x[r].played \in Nat
  <2>1. \A r \in DOMAIN x : x[r] \in GameEntry
    BY OfMap DEF Indexes
  <2> QED BY <2>1 DEF GameEntry
<1>2. \A r \in owned : Keeps(x, r)
  BY DEF Full
<1>3. o.kind \in IndexKinds
  BY OpKind
<1>4. CASE o.kind \in Imports
  <2>1. /\ DOMAIN e = DOMAIN x \cup {o.id} /\ o.id \notin DOMAIN x
        /\ \A r \in DOMAIN x : e[r] = x[r]
    BY <1>4, EditedIndex
  <2>2. \A r \in owned : Keeps(e, r)
    BY <1>2, <2>1 DEF Keeps
  <2> QED BY <1>1, <1>4, <2>1, <2>2 DEF WritesIndex, Full, Imports, e
<1>5. CASE o.kind \in {"link", "played", "mark"}
  <2>1. /\ DOMAIN e = DOMAIN x /\ o.id \in DOMAIN x
        /\ \A r \in DOMAIN x : r # o.id => e[r] = x[r]
        /\ e[o.id].played = x[o.id].played + (IF o.kind = "played" THEN 1 ELSE 0)
        /\ (e[o.id].cat <=> x[o.id].cat \/ o.kind = "link")
    BY <1>5, EditedIndex
  <2>2. \A r \in owned : r # o.id => Keeps(e, r)
    BY <1>2, <2>1 DEF Keeps
  <2>3. o.id \in owned =>
          /\ o.id \in DOMAIN e /\ roms[o.id] \in {"good", "bad"}
          /\ e[o.id].played = credit[o.id] + (IF o.kind = "played" THEN 1 ELSE 0)
          /\ (o.id \in linked => e[o.id].cat)
    BY <1>2, <2>1 DEF Keeps
  <2>4. o.id \in owned => credit[o.id] \in Nat
    BY DEF Typed, PromisesOK
  <2>5. o.id \in owned /\ o.kind # "played" => Keeps(e, o.id)
    BY <2>3, <2>4 DEF Keeps
  <2>6. WritesIndex(n)
    BY <1>5, <2>1, <2>2, <2>3, <2>5 DEF WritesIndex, Full
  <2>7. ASSUME NEW r \in DOMAIN x
        PROVE  e[r].played = x[r].played + (IF n.kind = "played" /\ n.id = r THEN 1 ELSE 0)
    BY <1>1, <2>1, <2>7
  <2> QED BY <2>1, <2>6, <2>7
<1>6. CASE o.kind = "remove"
  <2>1. DOMAIN e = DOMAIN x \ {o.id} /\ \A r \in DOMAIN e : e[r] = x[r]
    BY <1>6, EditedIndex
  <2>2. \A r \in owned \ {o.id} : Keeps(e, r)
    BY <1>2, <2>1 DEF Keeps
  <2> QED BY <1>1, <1>6, <2>1, <2>2 DEF WritesIndex, Full
<1> QED BY <1>3, <1>4, <1>5, <1>6 DEF IndexKinds, Imports

\* What is read of the index when nothing is missing of it.
LEMMA ReadWhole ==
  ASSUME NEW kind \in IndexKinds, ~Misses(kind)
  PROVE  /\ Loaded(kind) = Candidate("index") /\ ~Gap("index")
         /\ cur["index"] # NoFile => Candidate("index") = cur["index"]
<1>1. FileOf(kind) = "index" /\ kind \notin HistoryKinds
  BY FileOfKind DEF IndexKinds, HistoryKinds
<1>2. CASE kind = "repair"
  BY <1>1, <1>2 DEF Loaded, Misses, Gap, Candidate
<1>3. CASE kind # "repair"
  BY <1>1, <1>3 DEF Loaded, Misses, Gap, Candidate, CurrentOnly
<1> QED BY <1>2, <1>3

\* An import that finds its game listed promises it from now on.
LEMMA IndexReturns ==
  ASSUME Typed, RomsInv, IndexInv, NEW p \in Procs, Quiet(p), pc[p] = "load", UNCHANGED roms,
         op[p].kind = "import", pc'[p] = "idle",
         op[p].id \in DOMAIN CurrentOnly("index"), Returned(op[p], CurrentOnly("index")),
         Dropping(op[p].id) => "index" \in hurt'
  PROVE  IndexInv'
<1> DEFINE f == "index"
           i == op[p].id
           x == cur["index"]
<1>1. x # NoFile /\ CurrentOnly(f) = x /\ Candidate(f) = x /\ i \in DOMAIN x /\ ~Gap(f)
  BY DEF CurrentOnly, Empty, Candidate, Gap
<1>2. /\ Candidate(f)' = x /\ cur' = cur /\ (Sound(f)' => Sound(f)) /\ AsideOK(f)'
  BY <1>1, QuietFile DEF IndexInv, Quiet
<1>3. /\ \A q \in Procs : q # p => pc'[q] = pc[q] /\ op'[q] = op[q]
      /\ ~Fresh(p, f)'
  BY DEF Quiet, Fresh, Holds
<1>4. owned' = owned \cup {i} /\ linked' = linked /\ linked \subseteq owned /\ owned \subseteq Roms
  BY DEF Returned, Typed, PromisesOK
<1>5. /\ credit' = IF i \notin owned THEN [credit EXCEPT ![i] = CurrentOnly(f)[i].played] ELSE credit
      /\ credit \in [Roms -> Nat] /\ i \in Roms
  BY HeldRoms DEF Returned, Typed, PromisesOK, Reading, Imports
<1>6. /\ \A r \in owned : credit'[r] = credit[r]
      /\ i \notin owned => credit'[i] = x[i].played /\ i \notin linked'
  BY <1>1, <1>4, <1>5
<1>7. ASSUME Sound(f)'
      PROVE  /\ \A r \in owned : Keeps(x, r)
             /\ roms[i] \in {"good", "bad"} /\ ~Dropping(i)
  BY <1>1, <1>2, <1>7 DEF IndexInv, IndexKept, Full, RomsInv, Found, Sound, Reading, Imports
<1> HIDE DEF i
<1>8. IndexKept'
  <2> SUFFICES ASSUME Sound(f)', NEW r \in owned'
               PROVE  Keeps(Candidate(f), r)'
    BY DEF IndexKept, Full
  <2>1. CASE r \in owned
    BY <1>2, <1>4, <1>6, <1>7, <2>1 DEF Keeps
  <2>2. CASE r \notin owned
    BY <1>1, <1>2, <1>4, <1>6, <1>7, <2>2 DEF Keeps
  <2> QED BY <2>1, <2>2
<1>9. ASSUME NEW q \in Procs, q # p, Sound(f)', Fresh(q, f)'
      PROVE  WritesIndex(op[q])'
  <2> DEFINE o == op[q]
             S == IF o.kind \in {"remove", "played"} THEN {o.id} ELSE {}
  <2>1. Fresh(q, f) /\ op'[q] = o
    BY <1>3, <1>9 DEF Fresh, Holds
  <2>2. WritesIndex(o) /\ Follows(q)
    BY <1>2, <1>9, <2>1 DEF IndexInv, IndexWrites, IndexFollows
  <2>3. /\ i \in DOMAIN o.next \/ (o.kind = "remove" /\ o.id = i)
        /\ i \in DOMAIN o.next =>
             o.next[i].played = x[i].played + (IF o.kind = "played" /\ o.id = i THEN 1 ELSE 0)
    <3>1. i \in DOMAIN o.next \/ ~Repairing(q)
      BY <1>7, <1>9 DEF Dropping, Repairing, Writing
    <3> QED BY <1>1, <2>1, <2>2, <3>1 DEF Follows
  <2>4. x[i].played \in Nat
    <3>1. x \in Indexes
      BY <1>1 DEF Typed, FilesOK
    <3>2. x[i] \in GameEntry
      BY <1>1, <3>1, OfMap DEF Indexes
    <3> QED BY <3>2 DEF GameEntry
  <2>5. ASSUME NEW r \in owned', r \notin S
        PROVE  Keeps(o.next, r)'
    <3>1. CASE r \in owned
      <4>1. Keeps(o.next, r)
        BY <2>2, <2>5, <3>1 DEF WritesIndex, Full
      <4> QED BY <1>4, <1>6, <2>1, <3>1, <4>1 DEF Keeps
    <3>2. CASE r \notin owned
      <4>1. r = i
        BY <1>4, <3>2
      <4>2. i \in DOMAIN o.next /\ o.next[i].played = x[i].played
        BY <2>3, <2>4, <2>5, <4>1
      <4> QED BY <1>6, <1>7, <1>9, <2>1, <3>2, <4>1, <4>2 DEF Keeps
    <3> QED BY <3>1, <3>2
  <2>6. ASSUME o.kind = "played", o.id \in owned'
        PROVE  /\ o.id \in DOMAIN o.next /\ o.next[o.id].played = credit'[o.id] + 1
               /\ (o.id \in linked' => o.next[o.id].cat) /\ roms'[o.id] \in {"good", "bad"}
    <3>1. CASE o.id \in owned
      BY <1>4, <1>6, <2>2, <2>6, <3>1 DEF WritesIndex
    <3>2. CASE o.id \notin owned
      <4>1. o.id = i
        BY <1>4, <2>6, <3>2
      <4>2. i \in DOMAIN o.next /\ o.next[i].played = x[i].played + 1
        BY <2>3, <2>6, <4>1
      <4> QED BY <1>6, <1>7, <1>9, <3>2, <4>1, <4>2
    <3> QED BY <3>1, <3>2
  <2>7. o.kind = "link" => o.next[o.id].cat
    BY <2>2 DEF WritesIndex
  <2> QED BY <2>1, <2>5, <2>6, <2>7 DEF WritesIndex, Full
<1>10. ASSUME NEW q \in Procs, Sound(f)'
       PROVE  Follows(q)'
  <2>1. CASE q = p
    BY <1>3, <2>1 DEF Follows
  <2>2. CASE q # p
    <3>1. Follows(q)
      BY <1>2, <1>10 DEF IndexInv, IndexFollows
    <3>2. pc'[q] = pc[q] /\ op'[q] = op[q] /\ cur' = cur
      BY <1>2, <1>3, <2>2
    <3> QED BY <3>1, <3>2 DEF Follows, Fresh, Holds, Repairing
  <2> QED BY <2>1, <2>2
<1>11. IndexWrites' /\ IndexFollows'
  BY <1>3, <1>9, <1>10 DEF IndexWrites, IndexFollows
<1> QED BY <1>2, <1>8, <1>11 DEF IndexInv

LEMMA IndexReads ==
  ASSUME Typed, RomsInv, IndexInv, NEW p \in Procs, Load(p)
  PROVE  IndexInv'
<1> DEFINE f == "index"
           o == op[p]
           x == Loaded(o.kind)
<1>1. FilesOK /\ OpsOK /\ Quiet(p) /\ UNCHANGED roms /\ pc[p] = "load" /\ o \in AnyOps
  BY LoadQuiet, LoadCases DEF Typed
<1>2. Sound(f)' => Sound(f)
  BY <1>1, QuietFile
<1>3. ASSUME UNCHANGED promises,
             Sound(f) /\ Sound(f)' /\ Fresh(p, f)' => WritesIndex(op[p])' /\ Follows(p)'
      PROVE  IndexInv'
  BY <1>1, <1>3, IndexQuiet DEF promises
<1>4. /\ \A n : op' = [op EXCEPT ![p] = n] => op'[p] = n
      /\ \A label : pc' = [pc EXCEPT ![p] = label] => pc'[p] = label
  BY <1>1 DEF OpsOK
<1>5. ASSUME NEW n, UNCHANGED promises, WritesIndex(n), op'[p] = n
      PROVE  WritesIndex(op[p])'
  BY <1>1, <1>5 DEF WritesIndex, Full, Keeps, promises
<1>6. ASSUME NEW n \in AnyOps, UNCHANGED promises, op'[p] = n, pc'[p] = "unlink",
             n.kind = o.kind, n.id = o.id, n.next = Edited(o, x), n.stale = Misses(o.kind),
             o.kind # "repair", Applies(o, x),
             (o \in IndexOps => n \in IndexOps) /\ (o \in HistoryOps => n \in HistoryOps)
      PROVE  IndexInv'
  <2>1. CASE o \in HistoryOps
    <3>1. ~Fresh(p, f)'
      BY <1>6, <2>1, OpKind DEF Fresh, Holds
    <3> QED BY <1>3, <1>6, <3>1
  <2>2. CASE o \in IndexOps
    <3>1. ASSUME Sound(f), Fresh(p, f)'
          PROVE  WritesIndex(op[p])' /\ Follows(p)'
      <4>1. o.kind \in IndexKinds /\ ~Misses(o.kind)
        BY <1>6, <2>2, <3>1, OpKind DEF Fresh
      <4>2. x = Candidate(f) /\ ~Gap(f) /\ (cur[f] # NoFile => x = cur[f])
        BY <4>1, ReadWhole
      <4>3. Full(x, owned) /\ x \in Indexes
        BY <1>1, <3>1, <4>2, LoadedType DEF IndexInv, IndexKept
      <4> HIDE DEF x
      <4>4. /\ WritesIndex(n)
            /\ \A r \in DOMAIN x :
                 /\ r \in DOMAIN n.next \/ (n.kind = "remove" /\ n.id = r)
                 /\ r \in DOMAIN n.next =>
                      n.next[r].played = x[r].played + (IF n.kind = "played" /\ n.id = r THEN 1 ELSE 0)
        BY <1>6, <2>2, <4>3, EditedKeeps
      <4>5. cur' = cur
        BY <1>1 DEF Quiet
      <4>6. WritesIndex(op[p])'
        BY <1>5, <1>6, <4>4
      <4>7. Follows(p)'
        BY <1>6, <4>2, <4>4, <4>5 DEF Follows
      <4> QED BY <4>6, <4>7
    <3> QED BY <1>3, <1>6, <3>1
  <2> QED BY <1>1, <2>1, <2>2 DEF AnyOps
<1>7. ASSUME NEW n \in IndexOps, UNCHANGED promises, op'[p] = n,
             o \in IndexOps, o.kind = "repair", n.kind = "repair", n.next = x, n.stale = Misses(o.kind)
      PROVE  IndexInv'
  <2>1. ASSUME Sound(f), Fresh(p, f)'
        PROVE  WritesIndex(op[p])' /\ Follows(p)'
    <3>1. o.kind \in IndexKinds /\ ~Misses(o.kind)
      BY <1>7, <2>1, OpKind DEF Fresh
    <3>2. x = Candidate(f) /\ ~Gap(f) /\ (cur[f] # NoFile => x = cur[f])
      BY <3>1, ReadWhole
    <3>3. Full(x, owned) /\ x \in Indexes
      BY <1>1, <2>1, <3>2, LoadedType DEF IndexInv, IndexKept
    <3>4. \A r \in DOMAIN x : x[r].played \in Nat
      <4>1. \A r \in DOMAIN x : x[r] \in GameEntry
        BY <3>3, OfMap DEF Indexes
      <4> QED BY <4>1 DEF GameEntry
    <3> HIDE DEF x
    <3>5. WritesIndex(n)
      BY <1>7, <3>3 DEF WritesIndex, Full
    <3>6. WritesIndex(op[p])'
      BY <1>5, <1>7, <3>5
    <3>7. cur' = cur
      BY <1>1 DEF Quiet
    <3>8. Follows(p)'
      BY <1>7, <3>2, <3>4, <3>7 DEF Follows
    <3> QED BY <3>6, <3>8
  <2> QED BY <1>3, <1>7, <2>1
<1>8. ASSUME pc'[p] \in {"load", "idle"}, UNCHANGED promises
      PROVE  IndexInv'
  <2>1. ~Fresh(p, f)'
    BY <1>8 DEF Fresh, Holds
  <2> QED BY <1>3, <1>8, <2>1
<1>9. ASSUME o \in IndexOps, o.kind = "import", pc'[p] = "idle", o.id \in DOMAIN x, Returned(o, x),
             hurt' = IF o.kind \in Imports /\ Dropping(o.id) THEN hurt \cup {"index"} ELSE hurt
      PROVE  IndexInv'
  <2>1. x = CurrentOnly(f)
    BY <1>9 DEF Loaded, HistoryKinds
  <2>2. Dropping(o.id) => "index" \in hurt'
    BY <1>9 DEF Imports
  <2> QED BY <1>1, <1>9, <2>1, <2>2, IndexReturns
<1>10. \/ \E n \in AnyOps :
             /\ o.kind # "repair" /\ Applies(o, x) /\ UNCHANGED promises
             /\ pc' = [pc EXCEPT ![p] = "unlink"] /\ op' = [op EXCEPT ![p] = n]
             /\ n.kind = o.kind /\ n.id = o.id
             /\ n.next = Edited(o, x) /\ n.stale = Misses(o.kind)
             /\ (o \in IndexOps => n \in IndexOps) /\ (o \in HistoryOps => n \in HistoryOps)
       \/ \E n \in IndexOps :
             /\ o \in IndexOps /\ o.kind = "repair" /\ UNCHANGED promises
             /\ op' = [op EXCEPT ![p] = n]
             /\ n.kind = o.kind /\ n.next = x /\ n.stale = Misses(o.kind)
       \/ /\ o \in IndexOps
          /\ \/ o.kind = "install" /\ pc' = pc
             \/ o.kind # "install" /\ pc' = [pc EXCEPT ![p] = "idle"]
          /\ IF o.kind = "import" THEN o.id \in DOMAIN x /\ Returned(o, x) ELSE UNCHANGED promises
          /\ hurt' = IF o.kind \in Imports /\ Dropping(o.id) THEN hurt \cup {"index"} ELSE hurt
  BY <1>1, LoadCases
<1> HIDE DEF o, x
<1> QED BY <1>1, <1>4, <1>6, <1>7, <1>8, <1>9, <1>10

LEMMA IndexScan ==
  ASSUME Typed, IndexInv, NEW p \in Procs, ScanRomFiles(p)
  PROVE  IndexInv'
<1> DEFINE f == "index"
           o == op[p]
<1>1. /\ Quiet(p) /\ pc[p] = "scan" /\ pc'[p] = "unlink" /\ o \in IndexOps /\ o.kind = "repair"
      /\ op'[p] \in IndexOps /\ op'[p].kind = "repair" /\ op'[p].next = Rebuilt(o.next)
      /\ op'[p].stale = o.stale
  BY ScanQuiet
<1>2. /\ roms' = [r \in Roms |-> IF r \in Damaged THEN "gone" ELSE roms[r]]
      /\ owned' = owned \ Damaged /\ linked' = linked \ Damaged /\ credit' = credit
      /\ owned \subseteq Roms
  BY DEF ScanRomFiles, Typed, PromisesOK
<1>3. \A r \in owned' : /\ r \in owned /\ r \in Roms /\ (r \in linked' => r \in linked)
                        /\ roms[r] \in {"good", "bad"} => roms[r] = "good" /\ roms'[r] = "good"
  BY <1>2 DEF Damaged
<1>4. /\ DOMAIN op'[p].next = SoundRoms
      /\ \A r \in SoundRoms : r \in DOMAIN o.next => op'[p].next[r] = o.next[r]
  BY <1>1, RebuiltType DEF IndexOps
<1>5. ASSUME Sound(f), Fresh(p, f)'
      PROVE  WritesIndex(op[p])' /\ Follows(p)'
  <2>1. Fresh(p, f)
    BY <1>1, <1>5, OpKind DEF Fresh, Holds
  <2>2. WritesIndex(o) /\ Follows(p)
    BY <1>5, <2>1 DEF IndexInv, IndexWrites, IndexFollows
  <2>3. ASSUME NEW r \in owned'
        PROVE  Keeps(op[p].next, r)'
    <3>1. Keeps(o.next, r)
      BY <1>1, <1>3, <2>2, <2>3 DEF WritesIndex, Full
    <3>2. r \in SoundRoms
      BY <1>3, <2>3, <3>1 DEF Keeps, SoundRoms
    <3> QED BY <1>2, <1>3, <1>4, <2>3, <3>1, <3>2 DEF Keeps
  <2>4. WritesIndex(op[p])'
    BY <1>1, <2>3 DEF WritesIndex, Full
  <2>5. cur' = cur
    BY <1>1 DEF Quiet
  <2>6. Repairing(p)' /\ ~Repairing(p)
    BY <1>1 DEF Repairing, Writing
  <2>7. Follows(p)'
    BY <1>1, <1>4, <2>1, <2>2, <2>5, <2>6 DEF Follows
  <2> QED BY <2>4, <2>7
<1> QED BY <1>1, <1>2, <1>3, <1>5, IndexQuiet

LEMMA IndexPlaced ==
  ASSUME Typed, RomsInv, IndexInv, NEW p \in Procs, Place(p)
  PROVE  IndexInv'
<1> DEFINE o == op[p]
           f == "index"
<1>1. OpsOK /\ FilesOK /\ o \in AnyOps /\ pc[p] = "place" /\ Returned(o, o.next)
  BY PlaceFacts DEF Typed, Place
<1>2. /\ f \in Names /\ owned \subseteq Roms /\ linked \subseteq owned /\ credit \in [Roms -> Nat]
  BY DEF Names, Typed, PromisesOK
<1>3. /\ UNCHANGED roms /\ hurt \subseteq hurt'
      /\ Sound(f)' => Sound(f)
      /\ \A q \in Procs : Fresh(q, f)' =>
           f # FileOf(o.kind) /\ Fresh(q, f) /\ op'[q] = op[q] /\ pc'[q] = pc[q]
  BY <1>2, PlaceFile
<1>4. CASE o \in HistoryOps
  <2>1. f # FileOf(o.kind) /\ o.kind \in HistoryKinds
    BY <1>4, OpKind
  <2>2. /\ Candidate(f)' = Candidate(f) /\ (Gap(f) => Gap(f)') /\ (AsideOK(f) => AsideOK(f)')
        /\ cur'[f] = cur[f]
    BY <1>2, <2>1, PlaceFile
  <2>3. UNCHANGED <<owned, credit, linked>>
    BY <1>1, <2>1 DEF Returned, HistoryKinds
  <2>4. IndexKept'
    BY <1>3, <2>2, <2>3 DEF IndexInv, IndexKept, Full, Keeps
  <2>5. ASSUME NEW q \in Procs, Sound(f)', Fresh(q, f)'
        PROVE  WritesIndex(op[q])' /\ Follows(q)'
    <3>1. Fresh(q, f) /\ op'[q] = op[q] /\ pc'[q] = pc[q]
      BY <1>3, <2>5
    <3>2. WritesIndex(op[q]) /\ Follows(q)
      BY <1>3, <2>5, <3>1 DEF IndexInv, IndexWrites, IndexFollows
    <3>3. WritesIndex(op[q])'
      BY <1>3, <2>3, <3>1, <3>2 DEF WritesIndex, Full, Keeps
    <3>4. Follows(q)'
      BY <2>2, <3>1, <3>2 DEF Follows, Repairing
    <3> QED BY <3>3, <3>4
  <2>6. ASSUME NEW q \in Procs, ~Fresh(q, f)'
        PROVE  Follows(q)'
    BY <2>6 DEF Follows
  <2>7. IndexWrites' /\ IndexFollows'
    BY <2>5, <2>6 DEF IndexWrites, IndexFollows
  <2> QED BY <2>2, <2>4, <2>7 DEF IndexInv
<1>5. CASE o \in IndexOps
  <2>1. f = FileOf(o.kind) /\ o.kind \in IndexKinds /\ o.id \in Roms
    BY <1>5, OpKind DEF IndexOps
  <2>2. /\ Candidate(f)' = o.next /\ AsideOK(f)'
        /\ Sound(f)' => ~o.stale
    BY <1>2, <2>1, PlaceFile
  <2>3. \A q \in Procs : ~Fresh(q, f)'
    BY <1>3, <2>1
  <2>4. IndexWrites' /\ IndexFollows'
    BY <2>3 DEF IndexWrites, IndexFollows, Follows
  <2>5. ASSUME Sound(f)', NEW r \in owned'
        PROVE  Keeps(Candidate(f), r)'
    <3>1. WritesIndex(o)
      BY <1>1, <1>3, <2>1, <2>2, <2>5 DEF Fresh, Holds, IndexInv, IndexWrites
    <3>2. o.kind \in {"import", "link"} =>
            roms[o.id] \in {"good", "bad"} /\ o.id \in DOMAIN o.next
      <4>1. Found(p)
        BY <1>3, <2>5 DEF RomsInv, Sound
      <4>2. Shaped("place", o)
        BY <1>1 DEF OpsOK
      <4> QED BY <1>1, <4>1, <4>2 DEF Found, Reading, Writing, Shaped, Imports
    <3>3. /\ owned' = CASE o.kind \in {"import", "link"} -> owned \cup {o.id}
                        [] o.kind = "remove" -> owned \ {o.id}
                        [] OTHER -> owned
          /\ credit' = CASE o.kind \in {"import", "link"} /\ o.id \notin owned ->
                              [credit EXCEPT ![o.id] = o.next[o.id].played]
                         [] o.kind = "played" -> [credit EXCEPT ![o.id] = @ + 1]
                         [] OTHER -> credit
          /\ linked' = CASE o.kind = "link" -> linked \cup {o.id}
                         [] o.kind = "remove" -> linked \ {o.id}
                         [] OTHER -> linked
      BY <1>1 DEF Returned
    <3>4. CASE o.kind \in {"import", "link"}
      <4>1. /\ owned' = owned \cup {o.id}
            /\ linked' = IF o.kind = "link" THEN linked \cup {o.id} ELSE linked
            /\ o.id \notin owned => credit' = [credit EXCEPT ![o.id] = o.next[o.id].played]
            /\ o.id \in owned => credit' = credit
        BY <3>3, <3>4
      <4>2. CASE r \in owned
        <5>1. Keeps(o.next, r)
          BY <3>1, <3>4, <4>2 DEF WritesIndex, Full
        <5>2. credit'[r] = credit[r]
          BY <1>2, <4>1, <4>2
        <5>3. r \in linked' => r \in linked \/ (o.kind = "link" /\ r = o.id)
          BY <4>1
        <5>4. r \in linked' => o.next[r].cat
          BY <3>1, <5>1, <5>3 DEF WritesIndex, Keeps
        <5> QED BY <1>3, <2>2, <5>1, <5>2, <5>4 DEF Keeps
      <4>3. CASE r \notin owned
        <5>1. r = o.id /\ credit'[r] = o.next[r].played
          BY <1>2, <2>1, <2>5, <4>1, <4>3
        <5>2. r \in linked' => o.kind = "link"
          BY <1>2, <4>1, <4>3
        <5>3. r \in linked' => o.next[r].cat
          BY <3>1, <5>1, <5>2 DEF WritesIndex
        <5> QED BY <1>3, <2>2, <3>2, <3>4, <5>1, <5>3 DEF Keeps
      <4> QED BY <4>2, <4>3
    <3>5. CASE o.kind = "remove"
      <4>1. owned' = owned \ {o.id} /\ linked' = linked \ {o.id} /\ credit' = credit
        BY <3>3, <3>5
      <4>2. Keeps(o.next, r)
        BY <2>5, <3>1, <3>5, <4>1 DEF WritesIndex, Full
      <4> QED BY <1>3, <2>2, <4>1, <4>2 DEF Keeps
    <3>6. CASE o.kind = "played"
      <4>1. owned' = owned /\ linked' = linked /\ credit' = [credit EXCEPT ![o.id] = @ + 1]
        BY <3>3, <3>6
      <4>2. CASE r = o.id
        <5>1. /\ r \in DOMAIN o.next /\ o.next[r].played = credit[r] + 1
              /\ (r \in linked => o.next[r].cat) /\ roms[r] \in {"good", "bad"}
          BY <2>5, <3>1, <3>6, <4>1, <4>2 DEF WritesIndex
        <5>2. credit'[r] = credit[r] + 1
          BY <1>2, <2>1, <4>1, <4>2
        <5> QED BY <1>3, <2>2, <4>1, <5>1, <5>2 DEF Keeps
      <4>3. CASE r # o.id
        <5>1. Keeps(o.next, r)
          BY <2>5, <3>1, <3>6, <4>1, <4>3 DEF WritesIndex, Full
        <5>2. credit'[r] = credit[r]
          BY <1>2, <2>5, <4>1, <4>3
        <5> QED BY <1>3, <2>2, <4>1, <5>1, <5>2 DEF Keeps
      <4> QED BY <4>2, <4>3
    <3>7. CASE o.kind \in {"install", "mark", "repair"}
      <4>1. owned' = owned /\ linked' = linked /\ credit' = credit
        BY <3>3, <3>7
      <4>2. Keeps(o.next, r)
        BY <2>5, <3>1, <3>7, <4>1 DEF WritesIndex, Full
      <4> QED BY <1>3, <2>2, <4>1, <4>2 DEF Keeps
    <3> QED BY <2>1, <3>4, <3>5, <3>6, <3>7 DEF IndexKinds
  <2>6. IndexKept'
    BY <2>5 DEF IndexKept, Full
  <2> QED BY <2>2, <2>4, <2>6 DEF IndexInv
<1> QED BY <1>1, <1>4, <1>5 DEF AnyOps

LEMMA NextIndex == Typed /\ RomsInv /\ IndexInv /\ [Next]_vars => IndexInv'
<1> SUFFICES ASSUME Typed, RomsInv, IndexInv, [Next]_vars
             PROVE  IndexInv'
  OBVIOUS
<1> DEFINE f == "index"
<1>1. /\ f \in Names /\ AsideOK(f) /\ OpsOK /\ owned \subseteq Roms
      /\ roms \in [Roms -> {"none", "good", "bad", "gone"}]
  BY DEF Names, IndexInv, Typed, FilesOK, PromisesOK
<1>2. ASSUME UNCHANGED <<cur, prev, roms, pc, op, promises, faults>>
      PROVE  IndexInv'
  BY <1>2 DEF IndexInv, IndexKept, IndexWrites, IndexFollows, AsideOK, Gap, Cut, Replacing,
     Candidate, Sound, Fresh, Holds, WritesIndex, Follows, Repairing, Full, Keeps, promises, faults
<1>3. ASSUME NEW p \in Procs, Quiet(p), pc'[p] \notin {"scan", "unlink", "aside", "place"},
             owned' \subseteq owned, linked' \subseteq linked, credit' = credit,
             \A r \in owned : roms[r] \in {"good", "bad"} => roms'[r] \in {"good", "bad"}
      PROVE  IndexInv'
  <2>1. ~Fresh(p, f)'
    BY <1>3 DEF Fresh, Holds
  <2> QED BY <1>3, <2>1, IndexQuiet
<1>4. ASSUME NEW p \in Procs, Start(p)
      PROVE  IndexInv'
  <2>1. ASSUME NEW kind \in Imports, NEW g \in Offers, Import(p, kind, g)
        PROVE  IndexInv'
    BY <1>3, <2>1, ImportQuiet DEF promises
  <2>2. ASSUME NEW kind, NEW id, Begin(p, kind, id)
        PROVE  IndexInv'
    <3>1. owned' \subseteq owned /\ linked' \subseteq linked /\ credit' = credit
      BY <2>2 DEF Begin
    <3>2. Quiet(p) /\ UNCHANGED roms /\ pc'[p] = "load"
      BY <2>2, BeginQuiet
    <3> QED BY <1>3, <3>1, <3>2
  <2>3. ASSUME NEW force \in BOOLEAN, List(p, force)
        PROVE  IndexInv'
    <3>1. UNCHANGED roms /\ Quiet(p) /\ pc'[p] \in {"idle", "reply"} /\ UNCHANGED promises
      BY <2>3, OtherQuiet DEF List, files
    <3> QED BY <1>3, <3>1 DEF promises
  <2> QED BY <1>4, <2>1, <2>2, <2>3 DEF Start
<1>5. ASSUME NEW p \in Procs, Confirm(p) \/ LookForRom(p) \/ StoreRom(p)
      PROVE  IndexInv'
  <2>1. Quiet(p) /\ pc'[p] \in {"idle", "exists", "store", "load"} /\ UNCHANGED promises
    BY <1>5, StoreQuiet
  <2>2. \A r \in Roms : roms'[r] = roms[r] \/ roms'[r] = "good"
    BY <1>1, <1>5 DEF Confirm, LookForRom, StoreRom, files
  <2>3. \A r \in owned : roms[r] \in {"good", "bad"} => roms'[r] \in {"good", "bad"}
    BY <1>1, <2>2
  <2> QED BY <1>3, <2>1, <2>3 DEF promises
<1>6. ASSUME NEW p \in Procs, UnlinkPrevious(p) \/ MoveAside(p)
      PROVE  IndexInv'
  <2>1. /\ \A q \in Procs : q # p => pc'[q] = pc[q]
        /\ op' = op /\ pc[p] \in Writing /\ pc'[p] \in Writing /\ UNCHANGED <<roms, promises>>
        /\ cur'[f] \in {cur[f], NoFile} /\ AsideOK(f)'
        /\ Sound(f)' => (Candidate(f)' = Candidate(f) /\ (Gap(f) => Gap(f)')) \/ Gap(f)'
    BY <1>1, <1>6, WritingFile
  <2>2. Sound(f)' => Sound(f)
    BY <1>1, <1>6, WritingFile
  <2>3. \A q \in Procs : (Fresh(q, f)' => Fresh(q, f)) /\ (Repairing(q) => Repairing(q)')
    BY <2>1 DEF Fresh, Holds, Writing, Repairing
  <2>4. IndexKept'
    BY <2>1, <2>2 DEF IndexInv, IndexKept, Full, Keeps, promises
  <2>5. ASSUME NEW q \in Procs, Sound(f)'
        PROVE  Follows(q)'
    <3>1. Follows(q)
      BY <2>2, <2>5 DEF IndexInv, IndexFollows
    <3> QED BY <2>1, <2>3, <3>1 DEF Follows
  <2>6. ASSUME NEW q \in Procs, Sound(f)', Fresh(q, f)'
        PROVE  WritesIndex(op[q])'
    <3>1. WritesIndex(op[q])
      BY <2>2, <2>3, <2>6 DEF IndexInv, IndexWrites
    <3> QED BY <2>1, <3>1 DEF WritesIndex, Full, Keeps, promises
  <2> QED BY <2>1, <2>4, <2>5, <2>6 DEF IndexInv, IndexWrites, IndexFollows
<1>7. ASSUME NEW p \in Procs, Answered(p)
      PROVE  IndexInv'
  <2>1. Quiet(p) /\ UNCHANGED <<roms, promises>> /\ pc'[p] = "idle"
    BY <1>1, <1>7, OtherQuiet DEF Answered, files, Return, Goto, OpsOK
  <2> QED BY <1>3, <2>1 DEF promises
<1>8. ASSUME NEW p \in Procs, DropRom(p)
      PROVE  IndexInv'
  <2> DEFINE d == op[p].id
  <2>1. Quiet(p) /\ UNCHANGED promises /\ ~Fresh(p, f)'
    BY <1>8, OtherQuiet DEF Fresh, Holds
  <2>2. roms' = [roms EXCEPT ![d] = "none"] /\ (Relisted(p, d) => f \in hurt')
    BY <1>8 DEF DropRom
  <2>3. ASSUME Sound(f)', NEW r \in owned'
        PROVE  /\ r \in owned /\ credit'[r] = credit[r] /\ (r \in linked' => r \in linked)
               /\ roms[r] \in {"good", "bad"} => roms'[r] \in {"good", "bad"} \/ ~Relisted(p, r)
    <3>1. ~Relisted(p, d)
      BY <2>2, <2>3 DEF Sound
    <3> HIDE DEF d
    <3>2. r # d => roms'[r] = roms[r]
      BY <1>1, <2>1, <2>2, <2>3 DEF promises
    <3> QED BY <2>1, <2>3, <3>1, <3>2 DEF promises
  <2> QED BY <2>1, <2>3, IndexQuiet
<1>9. CASE Kill
  <2>1. /\ Candidate(f)' = Candidate(f) /\ (Sound(f)' => Sound(f) /\ ~Gap(f))
        /\ AsideOK(f)' /\ UNCHANGED <<roms, promises>> /\ \A q \in Procs : pc'[q] = "idle"
    BY <1>1, <1>9, KillFile DEF files
  <2>2. \A q \in Procs : ~Fresh(q, f)'
    BY <2>1 DEF Fresh, Holds
  <2>3. IndexKept'
    BY <2>1 DEF IndexInv, IndexKept, Full, Keeps, promises
  <2> QED BY <2>1, <2>2, <2>3 DEF IndexInv, IndexWrites, IndexFollows, Follows
<1>10. ASSUME NEW r \in Roms, Rot(r)
       PROVE  IndexInv'
  <2>1. /\ UNCHANGED <<cur, prev, pc, op, promises, faults>>
        /\ roms[r] = "good" /\ roms' = [roms EXCEPT ![r] = "bad"]
    BY <1>10 DEF Rot
  <2>2. \A s \in Roms : roms[s] \in {"good", "bad"} => roms'[s] \in {"good", "bad"}
    BY <1>1, <2>1
  <2>3. /\ Candidate(f)' = Candidate(f) /\ (Gap(f) => Gap(f)') /\ (Sound(f)' => Sound(f)) /\ AsideOK(f)'
    BY <1>1, <2>1 DEF Candidate, Gap, Cut, Sound, AsideOK, Replacing, faults
  <2>4. \A q \in Procs : (Fresh(q, f)' => Fresh(q, f)) /\ (Follows(q) => Follows(q)')
    BY <2>1 DEF Fresh, Holds, Follows, Repairing
  <2>5. IndexKept'
    BY <1>1, <2>1, <2>2, <2>3 DEF IndexInv, IndexKept, Full, Keeps, promises
  <2>6. ASSUME NEW q \in Procs, WritesIndex(op[q])
        PROVE  WritesIndex(op[q])'
    <3>1. UNCHANGED <<owned, credit, linked, op>>
      BY <2>1 DEF promises
    <3> QED BY <1>1, <2>2, <2>6, <3>1 DEF WritesIndex, Full, Keeps
  <2> QED BY <2>3, <2>4, <2>5, <2>6 DEF IndexInv, IndexWrites, IndexFollows
<1>11. CASE Expire \/ UNCHANGED vars
  BY <1>2, <1>11 DEF Expire, vars, files
<1>12. ASSUME NEW p \in Procs, Start(p) \/ Step(p)
       PROVE  IndexInv'
  BY <1>4, <1>5, <1>6, <1>7, <1>8, <1>12, IndexReads, IndexScan, IndexPlaced DEF Step
<1> QED BY <1>9, <1>10, <1>11, <1>12 DEF Next
LEMMA InitIndex == Init => IndexInv
<1> SUFFICES ASSUME Init
             PROVE  IndexInv
  OBVIOUS
<1>1. owned = {} /\ prev["index"] = NoFile /\ cur["index"] = NoFile /\ \A q \in Procs : pc[q] = "idle"
  BY DEF Init, Names
<1> QED BY <1>1 DEF IndexInv, IndexKept, Full, IndexWrites, IndexFollows, Follows, AsideOK, Fresh, Holds

\* A game whose import has returned is in library.json until it is removed, with all of its
\* play time and its link to the catalogue, whatever is under way at once and wherever the app
\* is killed, unless two operations have damaged the index together or two replacements in a
\* row were cut short.
THEOREM ImportsAreKept == Spec => []ImportKept
<1>1. Init => Typed /\ RomsInv /\ IndexInv
  BY InitTyped, InitRoms, InitIndex
<1>2. Typed /\ RomsInv /\ IndexInv /\ [Next]_vars => (Typed /\ RomsInv /\ IndexInv)'
  BY NextTyped, NextRoms, NextIndex
<1>3. IndexInv => ImportKept
  BY DEF IndexInv, IndexKept, ImportKept, Settled, Index, Full, Keeps, Gap
<1> QED BY <1>1, <1>2, <1>3, PTL DEF Spec

------------------------------------------------------------------------------
(* What a repair writes. *)

\* A step of s leaves a list of another repair complete.
LEMMA RepairStep ==
  ASSUME RepairInv, NEW s \in Procs, hurt \subseteq hurt',
         \A q \in Procs : q # s => pc'[q] = pc[q] /\ op'[q] = op[q],
         "index" \notin hurt' => \A r \in Roms :
           /\ roms'[r] = "good" => roms[r] = "good" \/ Listing(s, r)'
           /\ Listing(s, r) => Listing(s, r)' \/ ~Dropping(r)
           /\ roms[r] \in {"good", "bad"} =>
                roms'[r] \in {"good", "bad"} \/ Repairing(s)' \/ ~Relisted(s, r),
         Repairing(s) => Repairing(s)',
         "index" \notin hurt' /\ Repairing(s)' /\ ~op'[s].stale => Rebuilds(s)'
  PROVE  RepairInv'
<1> SUFFICES ASSUME "index" \notin hurt', NEW p \in Procs, Repairing(p)', ~op'[p].stale, p # s
             PROVE  Rebuilds(p)'
  BY DEF RepairInv
<1>1. pc'[p] = pc[p] /\ op'[p] = op[p] /\ Repairing(p)
  BY DEF Repairing
<1>2. Rebuilds(p)
  BY <1>1 DEF RepairInv
<1>3. ASSUME NEW r \in Roms, roms'[r] = "good"
      PROVE  r \in DOMAIN op'[p].next \/ \E q \in Procs : q # p /\ Listing(q, r)'
  <2>1. CASE Listing(s, r)'
    BY <2>1
  <2>2. CASE ~Listing(s, r)' /\ r \notin DOMAIN op[p].next
    <3>1. Dropping(r)
      BY <1>1, <2>2 DEF Dropping, Repairing, Writing
    <3>2. ~Listing(s, r) /\ roms[r] = "good"
      BY <1>3, <2>2, <3>1
    <3>3. PICK q \in Procs : q # p /\ Listing(q, r)
      BY <1>2, <2>2, <3>2 DEF Rebuilds
    <3>4. Listing(q, r)'
      BY <3>2, <3>3 DEF Listing
    <3> QED BY <3>3, <3>4
  <2> QED BY <1>1, <2>1, <2>2
<1>4. ASSUME NEW r \in Roms, r \in DOMAIN op'[p].next
      PROVE  roms'[r] \in {"good", "bad"} \/ \E q \in Procs : q # p /\ Repairing(q)'
  <2>1. Relisted(s, r)
    BY <1>1, <1>4 DEF Relisted, Holds, Repairing, Writing, FileOf, HistoryKinds
  <2>2. CASE roms[r] \in {"good", "bad"}
    BY <1>4, <2>1, <2>2
  <2>3. CASE roms[r] \notin {"good", "bad"}
    <3>1. PICK q \in Procs : q # p /\ Repairing(q)
      BY <1>1, <1>2, <1>4, <2>3 DEF Rebuilds
    <3>2. Repairing(q)'
      BY <3>1 DEF Repairing
    <3> QED BY <3>1, <3>2
  <2> QED BY <2>2, <2>3
<1> QED BY <1>3, <1>4 DEF Rebuilds

\* A step of an operation that is neither listing a game nor repairing.
LEMMA RepairApart ==
  ASSUME RepairInv, NEW s \in Procs, hurt \subseteq hurt',
         \A q \in Procs : q # s => pc'[q] = pc[q] /\ op'[q] = op[q],
         pc[s] \notin Reading, pc'[s] \notin Writing,
         "index" \notin hurt' => \A r \in Roms :
           /\ roms'[r] = "good" => roms[r] = "good" \/ Listing(s, r)'
           /\ roms[r] \in {"good", "bad"} => roms'[r] \in {"good", "bad"} \/ ~Relisted(s, r)
  PROVE  RepairInv'
<1>1. ~Repairing(s) /\ ~Repairing(s)' /\ \A r \in Roms : ~Listing(s, r)
  BY DEF Repairing, Listing, Reading, Writing
<1> QED BY <1>1, RepairStep

LEMMA RepairLoad ==
  ASSUME Typed, RepairInv, NEW p \in Procs, Load(p)
  PROVE  RepairInv'
<1> DEFINE o == op[p]
<1>1. FilesOK /\ OpsOK /\ Quiet(p) /\ UNCHANGED roms /\ pc[p] = "load" /\ o \in AnyOps
  BY LoadQuiet, LoadCases DEF Typed
<1>2. hurt \subseteq hurt' /\ \A q \in Procs : q # p => pc'[q] = pc[q] /\ op'[q] = op[q]
  BY <1>1 DEF Quiet
<1>3. \/ pc'[p] = "unlink" /\ op'[p].kind = o.kind /\ op'[p].id = o.id /\ o.kind # "repair"
      \/ pc'[p] = "scan" /\ o.kind = "repair"
      \/ /\ pc'[p] \in {"load", "idle"}
         /\ hurt' = IF o.kind \in Imports /\ Dropping(o.id) THEN hurt \cup {"index"} ELSE hurt
  <2>1. /\ \A n : op' = [op EXCEPT ![p] = n] => op'[p] = n
        /\ \A label : pc' = [pc EXCEPT ![p] = label] => pc'[p] = label
    BY <1>1 DEF OpsOK
  <2>2. \/ \E n \in AnyOps :
             /\ o.kind # "repair" /\ pc' = [pc EXCEPT ![p] = "unlink"] /\ op' = [op EXCEPT ![p] = n]
             /\ n.kind = o.kind /\ n.id = o.id
        \/ pc' = [pc EXCEPT ![p] = "scan"] /\ o.kind = "repair"
        \/ /\ pc' = pc \/ pc' = [pc EXCEPT ![p] = "idle"]
           /\ hurt' = IF o.kind \in Imports /\ Dropping(o.id) THEN hurt \cup {"index"} ELSE hurt
    BY <1>1, LoadCases
  <2> QED BY <1>1, <2>1, <2>2
<1>4. ~Repairing(p) /\ ~Repairing(p)'
  BY <1>1, <1>3 DEF Repairing, Writing
<1>5. ASSUME "index" \notin hurt', NEW r \in Roms, Listing(p, r)
      PROVE  Listing(p, r)' \/ ~Dropping(r)
  <2>1. o.id = r /\ o.kind \in Imports
    BY <1>5 DEF Listing
  <2> QED BY <1>3, <1>5, <2>1 DEF Listing, Reading, Imports
<1> QED BY <1>1, <1>2, <1>4, <1>5, RepairStep

LEMMA RepairScan ==
  ASSUME Typed, RepairInv, NEW p \in Procs, ScanRomFiles(p)
  PROVE  RepairInv'
<1>1. /\ Quiet(p) /\ pc[p] = "scan" /\ pc'[p] = "unlink" /\ op[p] \in IndexOps
      /\ op'[p].kind = "repair" /\ op'[p].next = Rebuilt(op[p].next)
  BY ScanQuiet
<1>2. hurt \subseteq hurt' /\ \A q \in Procs : q # p => pc'[q] = pc[q] /\ op'[q] = op[q]
  BY <1>1 DEF Quiet
<1>3. roms' = [r \in Roms |-> IF r \in Damaged THEN "gone" ELSE roms[r]]
  BY DEF ScanRomFiles
<1>4. ~Repairing(p) /\ Repairing(p)' /\ \A r \in Roms : ~Listing(p, r)
  BY <1>1 DEF Repairing, Listing, Reading, Writing
<1>5. \A r \in Roms : (roms'[r] = "good" <=> roms[r] = "good")
  BY <1>3 DEF Damaged
<1>6. DOMAIN op'[p].next = SoundRoms
  BY <1>1, RebuiltType DEF IndexOps
<1>7. Rebuilds(p)'
  BY <1>5, <1>6 DEF Rebuilds, SoundRoms
<1> QED BY <1>2, <1>4, <1>5, <1>7, RepairStep

LEMMA RepairWrites ==
  ASSUME Typed, RepairInv, NEW p \in Procs, UnlinkPrevious(p) \/ MoveAside(p)
  PROVE  RepairInv'
<1>1. OpsOK
  BY DEF Typed
<1>2. /\ op' = op /\ pc[p] \in Writing /\ pc'[p] \in Writing /\ UNCHANGED roms /\ hurt \subseteq hurt'
      /\ \A q \in Procs : q # p => pc'[q] = pc[q]
  BY <1>1 DEF UnlinkPrevious, MoveAside, Writing, Goto, OpsOK, faults
<1>3. \A q \in Procs : (Repairing(q)' <=> Repairing(q)) /\ \A r \in Roms : Listing(q, r)' <=> Listing(q, r)
  BY <1>2 DEF Repairing, Listing, Reading, Writing
<1> QED BY <1>2, <1>3 DEF RepairInv, Rebuilds

LEMMA RepairPlaced ==
  ASSUME Typed, RepairInv, NEW p \in Procs, Place(p)
  PROVE  RepairInv'
<1> DEFINE o == op[p]
<1>1. OpsOK /\ FilesOK /\ UNCHANGED roms /\ hurt \subseteq hurt' /\ "index" \in Names
  BY PlaceFile DEF Typed, Names
<1>2. \A q \in Procs : Fresh(q, "index")' =>
        q # p /\ "index" # FileOf(o.kind) /\ Fresh(q, "index") /\ op'[q] = op[q] /\ pc'[q] = pc[q]
  BY <1>1, PlaceFile
<1>3. /\ o \in AnyOps /\ pc[p] = "place"
      /\ \A q \in Procs : q # p =>
           pc'[q] = pc[q] /\ (op[q] \in AnyOps => op'[q].kind = op[q].kind /\ op'[q].id = op[q].id)
  BY <1>1, PlaceFacts
<1> SUFFICES ASSUME "index" \notin hurt', NEW q \in Procs, Repairing(q)', ~op'[q].stale
             PROVE  Rebuilds(q)'
  BY DEF RepairInv
<1>4. Fresh(q, "index")'
  BY DEF Fresh, Holds, Repairing, Writing, FileOf, HistoryKinds
<1>5. q # p /\ op'[q] = op[q] /\ pc'[q] = pc[q] /\ "index" # FileOf(o.kind)
  BY <1>2, <1>4
<1>6. Repairing(q) /\ Rebuilds(q)
  BY <1>1, <1>5 DEF Repairing, RepairInv
<1>7. \A s \in Procs : (Repairing(s) => Repairing(s)') /\ \A r \in Roms : Listing(s, r) => Listing(s, r)'
  <2> SUFFICES ASSUME NEW s \in Procs, pc[s] \in Reading, op[s].kind \in Imports \cup {"repair"}
               PROVE  pc'[s] = pc[s] /\ op'[s].kind = op[s].kind /\ op'[s].id = op[s].id
    BY DEF Repairing, Listing, Reading, Writing
  <2>1. s # p
    BY <1>5 DEF FileOf, Imports, HistoryKinds
  <2>2. op[s] \in AnyOps
    BY <1>1 DEF OpsOK, Shaped
  <2> QED BY <1>3, <2>1, <2>2
<1> QED BY <1>1, <1>5, <1>6, <1>7 DEF Rebuilds

LEMMA NextRepair == Typed /\ RepairInv /\ [Next]_vars => RepairInv'
<1> SUFFICES ASSUME Typed, RepairInv, [Next]_vars
             PROVE  RepairInv'
  OBVIOUS
<1>1. OpsOK /\ roms \in [Roms -> {"none", "good", "bad", "gone"}]
  BY DEF Typed, FilesOK
<1>2. ASSUME UNCHANGED <<pc, op, roms, hurt>>
      PROVE  RepairInv'
  BY <1>2 DEF RepairInv, Rebuilds, Repairing, Listing
<1>3. ASSUME NEW p \in Procs, Quiet(p), pc[p] \notin Reading, pc'[p] \notin Writing, UNCHANGED roms
      PROVE  RepairInv'
  BY <1>3, RepairApart DEF Quiet
<1>4. ASSUME NEW p \in Procs, Start(p)
      PROVE  RepairInv'
  <2>1. ASSUME NEW kind \in Imports, NEW g \in Offers, Import(p, kind, g)
        PROVE  RepairInv'
    BY <1>3, <2>1, ImportQuiet DEF Reading, Writing
  <2>2. ASSUME NEW kind, NEW id, Begin(p, kind, id)
        PROVE  RepairInv'
    BY <1>3, <2>2, BeginQuiet DEF Reading, Writing
  <2>3. ASSUME NEW force \in BOOLEAN, List(p, force)
        PROVE  RepairInv'
    <3>1. UNCHANGED roms /\ Quiet(p) /\ pc[p] = "idle" /\ pc'[p] \in {"idle", "reply"}
      BY <2>3, OtherQuiet DEF List, files
    <3> QED BY <1>3, <3>1 DEF Reading, Writing
  <2> QED BY <1>4, <2>1, <2>2, <2>3 DEF Start
<1>5. ASSUME NEW p \in Procs, Confirm(p) \/ LookForRom(p) \/ StoreRom(p)
      PROVE  RepairInv'
  <2>1. /\ Quiet(p) /\ pc[p] \in {"confirm", "exists", "store"}
        /\ pc'[p] \in {"idle", "exists", "store", "load"} /\ (pc'[p] # "idle" => op'[p] = op[p])
        /\ op[p].kind \in Imports
    BY <1>5, StoreQuiet
  <2>2. \A r \in Roms : roms'[r] = roms[r] \/ (r = op[p].id /\ pc'[p] = "load" /\ roms'[r] = "good")
    BY <1>1, <1>5 DEF Confirm, LookForRom, StoreRom, Goto, OpsOK, files
  <2>3. \A r \in Roms : roms'[r] = "good" => roms[r] = "good" \/ Listing(p, r)'
    BY <2>1, <2>2 DEF Listing, Reading
  <2>4. \A r \in Roms : roms[r] \in {"good", "bad"} => roms'[r] \in {"good", "bad"}
    BY <2>2
  <2>5. pc[p] \notin Reading /\ pc'[p] \notin Writing
    BY <2>1 DEF Reading, Writing
  <2> QED BY <2>1, <2>3, <2>4, <2>5, RepairApart DEF Quiet
<1>6. ASSUME NEW p \in Procs, Answered(p)
      PROVE  RepairInv'
  <2>1. Quiet(p) /\ UNCHANGED roms /\ pc[p] = "reply" /\ pc'[p] = "idle"
    BY <1>1, <1>6, OtherQuiet DEF Answered, files, Return, Goto, OpsOK
  <2> QED BY <1>3, <2>1 DEF Reading, Writing
<1>7. ASSUME NEW p \in Procs, DropRom(p)
      PROVE  RepairInv'
  <2> DEFINE d == op[p].id
  <2>1. Quiet(p) /\ pc[p] = "drop" /\ pc'[p] = "idle"
    BY <1>1, <1>7, OtherQuiet DEF DropRom, Return, Goto, OpsOK
  <2>2. roms' = [roms EXCEPT ![d] = "none"] /\ (Relisted(p, d) => "index" \in hurt')
    BY <1>7 DEF DropRom
  <2> HIDE DEF d
  <2>3. \A r \in Roms : (r # d => roms'[r] = roms[r]) /\ (roms'[r] = "good" => roms[r] = "good")
    BY <1>1, <2>2
  <2>4. "index" \notin hurt' => \A r \in Roms :
          /\ roms'[r] = "good" => roms[r] = "good" \/ Listing(p, r)'
          /\ roms[r] \in {"good", "bad"} => roms'[r] \in {"good", "bad"} \/ ~Relisted(p, r)
    BY <2>2, <2>3
  <2>5. pc[p] \notin Reading /\ pc'[p] \notin Writing
    BY <2>1 DEF Reading, Writing
  <2> QED BY <2>1, <2>4, <2>5, RepairApart DEF Quiet
<1>8. CASE Kill
  BY <1>8 DEF Kill, RepairInv, Repairing, Writing
<1>9. ASSUME NEW r \in Roms, Rot(r)
      PROVE  RepairInv'
  <2>1. UNCHANGED <<pc, op, hurt>> /\ roms[r] = "good" /\ roms' = [roms EXCEPT ![r] = "bad"]
    BY <1>9 DEF Rot, faults
  <2>2. \A t \in Roms : /\ roms[t] \in {"good", "bad"} => roms'[t] \in {"good", "bad"}
                        /\ roms'[t] = "good" => roms[t] = "good"
    BY <1>1, <2>1
  <2> QED BY <2>1, <2>2 DEF RepairInv, Rebuilds, Repairing, Listing
<1>10. CASE Expire \/ UNCHANGED vars
  BY <1>2, <1>10 DEF Expire, vars, files, faults
<1>11. ASSUME NEW p \in Procs, Start(p) \/ Step(p)
       PROVE  RepairInv'
  BY <1>4, <1>5, <1>6, <1>7, <1>11, RepairLoad, RepairScan, RepairWrites, RepairPlaced DEF Step
<1> QED BY <1>8, <1>9, <1>10, <1>11 DEF Next
LEMMA InitRepair == Init => RepairInv
BY DEF Init, RepairInv, Repairing, Writing

\* The index is written by the one operation under way.
LEMMA RepairAlone ==
  ASSUME Typed, [Next]_vars, NEW p \in Procs, pc[p] = "place", cur'["index"] # cur["index"],
         \A q \in Procs \ {p} : pc[q] = "idle"
  PROVE  Place(p) /\ (op[p].kind = "repair" => cur'["index"] = op[p].next)
<1>1. cur' # cur
  OBVIOUS
<1>2. ASSUME NEW q \in Procs, Start(q)
      PROVE  cur' = cur
  BY <1>2 DEF Start, Import, Begin, List, files
<1>3. ASSUME NEW q \in Procs, Step(q), q # p
      PROVE  cur' = cur
  BY <1>3 DEF Step, Confirm, LookForRom, StoreRom, Load, ScanRomFiles, UnlinkPrevious, MoveAside,
     Place, DropRom, Answered
<1>4. ASSUME Step(p), ~Place(p)
      PROVE  cur' = cur
  BY <1>4 DEF Step, Confirm, LookForRom, StoreRom, Load, ScanRomFiles, UnlinkPrevious, MoveAside,
     DropRom, Answered
<1>5. ASSUME Expire \/ Kill \/ (\E r \in Roms : Rot(r)) \/ UNCHANGED vars
      PROVE  cur' = cur
  BY <1>5 DEF Expire, Kill, Rot, vars, files
<1>6. Place(p)
  BY <1>1, <1>2, <1>3, <1>4, <1>5 DEF Next
<1>7. op[p].kind = "repair" => FileOf(op[p].kind) = "index" /\ "index" \in Names
  BY DEF FileOf, HistoryKinds, Names
<1> QED BY <1>6, <1>7, PlaceFile

\* A repair with nothing else under way lists every ROM file that passes the checks and none
\* that is missing: from what it found in the directory, not from what the index said.
THEOREM RepairsComplete == Spec => RepairComplete
<1>1. Init => Typed /\ RepairInv
  BY InitTyped, InitRepair
<1>2. Typed /\ RepairInv /\ [Next]_vars => (Typed /\ RepairInv)'
  BY NextTyped, NextRepair
<1> DEFINE Complete ==
  \A p \in Procs :
    /\ pc[p] = "place" /\ op[p].kind = "repair" /\ cur'["index"] # cur["index"]
    /\ \A q \in Procs \ {p} : pc[q] = "idle"
    /\ ~op[p].stale /\ "index" \notin hurt
    => /\ \A r \in Roms : roms[r] = "good" => r \in DOMAIN cur'["index"]
       /\ \A r \in DOMAIN cur'["index"] : roms[r] \in {"good", "bad"}
<1>3. Typed /\ RepairInv /\ [Next]_vars => Complete
  <2> SUFFICES ASSUME Typed, RepairInv, [Next]_vars, NEW p \in Procs,
                      pc[p] = "place", op[p].kind = "repair", cur'["index"] # cur["index"],
                      \A q \in Procs \ {p} : pc[q] = "idle",
                      ~op[p].stale, "index" \notin hurt
               PROVE  /\ \A r \in Roms : roms[r] = "good" => r \in DOMAIN cur'["index"]
                      /\ \A r \in DOMAIN cur'["index"] : roms[r] \in {"good", "bad"}
    OBVIOUS
  <2>1. cur'["index"] = op[p].next
    BY RepairAlone
  <2>2. Rebuilds(p)
    BY DEF RepairInv, Repairing, Writing
  <2>3. \A q \in Procs : q # p => ~Repairing(q) /\ \A r \in Roms : ~Listing(q, r)
    BY DEF Repairing, Listing, Reading, Writing
  <2>4. DOMAIN op[p].next \subseteq Roms
    BY HeldRoms DEF Holds, FileOf, HistoryKinds
  <2> QED BY <2>1, <2>2, <2>3, <2>4 DEF Rebuilds
<1> QED BY <1>1, <1>2, <1>3, PTL DEF Spec, RepairComplete
=============================================================================
