-------------------------- MODULE LumiSections_proofs --------------------------
(***************************************************************************)
(* The accounts of the anelastic script: the theorems that every entry     *)
(* that is written accounts for every event that was read, that it is      *)
(* written once and not before the last event has been read (the script    *)
(* implements LumiLedger).                                                 *)
(***************************************************************************)
EXTENDS LumiCourse_proofs

-----------------------------------------------------------------------------
(* How many events of a kind wait *)

Hits(P, Z) == {i \in DOMAIN P : P[i] \in Z}

LEMMA HitsFinite ==
  ASSUME NEW P \in Seq(FileEvent), NEW Z
  PROVE  IsFiniteSet(Hits(P, Z)) /\ Cardinality(Hits(P, Z)) \in Nat
<1>1. DOMAIN P = 1 .. Len(P) /\ Len(P) \in Nat
  BY LenProperties
<1>2. IsFiniteSet(DOMAIN P)
  BY <1>1, FS_Interval
<1>3. Hits(P, Z) \in SUBSET DOMAIN P
  BY DEF Hits
<1> QED  BY <1>2, <1>3, FS_Subset, FS_CardinalityType

\* Two sets of positions, one of them shifted by d.
LEMMA ShiftedHits ==
  ASSUME NEW A \in SUBSET Int, NEW B \in SUBSET Int, NEW d \in Int, IsFiniteSet(A),
         \A i \in A : i + d \in B, \A j \in B : j - d \in A
  PROVE  IsFiniteSet(B) /\ Cardinality(B) = Cardinality(A)
<1> DEFINE f == [i \in A |-> i + d]
<1>1. f \in [A -> B]
  OBVIOUS
<1>2. \A i, j \in A : f[i] = f[j] => i = j
  OBVIOUS
<1>3. \A j \in B : \E i \in A : f[i] = j
  <2> SUFFICES ASSUME NEW j \in B PROVE \E i \in A : f[i] = j
    OBVIOUS
  <2>1. j - d \in A /\ (j - d) + d = j
    OBVIOUS
  <2> QED  BY <2>1
<1> HIDE DEF f
<1>4. f \in Injection(A, B)
  BY <1>1, <1>2 DEF Injection, IsInjective
<1>5. f \in Surjection(A, B)
  BY <1>1, <1>3 DEF Surjection
<1> QED  BY <1>4, <1>5, FS_Surjection

LEMMA HitsShift ==
  ASSUME NEW P, NEW Q, NEW k, NEW X, Shifted(P, Q, k, X), NEW Z
  PROVE  Cardinality(Hits(Q, Z)) =
           Cardinality(Hits(P, Z)) - (IF k = 1 /\ P[1] \in Z THEN 1 ELSE 0)
             + Cardinality(Hits(X, Z))
<1> DEFINE m == Len(P) - k
           A == {i \in Hits(P, Z) : i > k}
           B1 == {j \in Hits(Q, Z) : j <= m}
           B2 == {j \in Hits(Q, Z) : j > m}
<1>1. /\ DOMAIN P = 1 .. Len(P) /\ DOMAIN Q = 1 .. Len(Q) /\ DOMAIN X = 1 .. Len(X)
      /\ Len(P) \in Nat /\ Len(Q) \in Nat /\ Len(X) \in Nat /\ k \in {0, 1}
      /\ k <= Len(P) /\ m \in Nat
      /\ P \in Seq(FileEvent) /\ Q \in Seq(FileEvent) /\ X \in Seq(FileEvent)
  BY LenProperties DEF Shifted
<1>2. \A j \in DOMAIN Q :
        \/ j + k \in DOMAIN P /\ Q[j] = P[j + k] /\ j <= m
        \/ j > m /\ j - m \in DOMAIN X /\ Q[j] = X[j - m]
  BY ShiftedFrom
<1>3. /\ \A i \in DOMAIN P : i > k => i - k \in DOMAIN Q /\ Q[i - k] = P[i]
      /\ \A i \in DOMAIN X : m + i \in DOMAIN Q /\ Q[m + i] = X[i]
  BY ShiftedTo
<1> HIDE DEF m
<1>4. /\ IsFiniteSet(Hits(P, Z)) /\ IsFiniteSet(Hits(Q, Z)) /\ IsFiniteSet(Hits(X, Z))
      /\ Cardinality(Hits(P, Z)) \in Nat /\ Cardinality(Hits(Q, Z)) \in Nat
      /\ Cardinality(Hits(X, Z)) \in Nat
  BY <1>1, HitsFinite
<1>5. /\ Hits(P, Z) \subseteq Int /\ Hits(Q, Z) \subseteq Int /\ Hits(X, Z) \subseteq Int
      /\ A \in SUBSET Hits(P, Z) /\ B1 \in SUBSET Hits(Q, Z) /\ B2 \in SUBSET Hits(Q, Z)
  BY <1>1 DEF Hits
<1>6. IsFiniteSet(A) /\ IsFiniteSet(B1) /\ IsFiniteSet(B2)
  BY <1>4, <1>5, FS_Subset
<1>7. Cardinality(A) = Cardinality(Hits(P, Z)) - (IF k = 1 /\ P[1] \in Z THEN 1 ELSE 0)
  <2>1. CASE k = 1 /\ P[1] \in Z
    <3>1. 1 \in Hits(P, Z) /\ A = Hits(P, Z) \ {1}
      BY <1>1, <2>1 DEF Hits
    <3> HIDE DEF A
    <3> QED  BY <1>4, <2>1, <3>1, FS_RemoveElement
  <2>2. CASE ~(k = 1 /\ P[1] \in Z)
    <3>1. \A i \in Hits(P, Z) : i > k
      <4> SUFFICES ASSUME NEW i \in Hits(P, Z), ~(i > k) PROVE FALSE
        OBVIOUS
      <4>1. i \in 1 .. Len(P) /\ P[i] \in Z
        BY <1>1 DEF Hits
      <4>2. k = 1 /\ i = 1
        BY <1>1, <4>1
      <4> QED  BY <2>2, <4>1, <4>2
    <3>2. A = Hits(P, Z)
      BY <3>1
    <3> QED  BY <1>4, <2>2, <3>2
  <2> QED  BY <2>1, <2>2
<1>8. Cardinality(A) = Cardinality(B1)
  <2>1. \A i \in A : i - k \in B1
    BY <1>1, <1>3 DEF Hits, m
  <2>2. \A j \in B1 : j + k \in A
    <3> SUFFICES ASSUME NEW j \in B1 PROVE j + k \in A
      OBVIOUS
    <3>1. j \in 1 .. Len(Q) /\ j <= m /\ Q[j] \in Z
      BY <1>1 DEF Hits
    <3>2. j + k \in DOMAIN P /\ Q[j] = P[j + k]
      BY <1>1, <1>2, <3>1
    <3>3. j + k > k
      BY <1>1, <3>1
    <3> QED  BY <3>1, <3>2, <3>3 DEF Hits
  <2> HIDE DEF A, B1
  <2>3. A \in SUBSET Int /\ B1 \in SUBSET Int
    BY <1>5
  <2>4. \A i \in B1 : i + k \in A
    BY <2>2
  <2>5. k \in Int
    BY <1>1
  <2> QED  BY <1>6, <2>1, <2>3, <2>4, <2>5, ShiftedHits
<1>9. Cardinality(Hits(X, Z)) = Cardinality(B2)
  <2> DEFINE C == Hits(X, Z)
  <2>1. \A i \in C : i + m \in B2
    <3> SUFFICES ASSUME NEW i \in C PROVE i + m \in B2
      OBVIOUS
    <3>1. i \in 1 .. Len(X) /\ X[i] \in Z
      BY <1>1 DEF Hits
    <3>2. m + i = i + m /\ i + m > m
      BY <1>1, <3>1
    <3>3. i + m \in DOMAIN Q /\ Q[i + m] = X[i]
      BY <1>1, <1>3, <3>1, <3>2
    <3> QED  BY <3>1, <3>2, <3>3 DEF Hits
  <2>2. \A j \in B2 : j - m \in C
    <3> SUFFICES ASSUME NEW j \in B2 PROVE j - m \in C
      OBVIOUS
    <3>1. j \in 1 .. Len(Q) /\ j > m /\ Q[j] \in Z
      BY <1>1 DEF Hits
    <3>2. j - m \in DOMAIN X /\ Q[j] = X[j - m]
      BY <1>1, <1>2, <3>1
    <3> QED  BY <3>1, <3>2 DEF Hits
  <2>3. C \in SUBSET Int /\ B2 \in SUBSET Int /\ IsFiniteSet(C) /\ m \in Int
    BY <1>1, <1>4, <1>5
  <2> HIDE DEF C, B2
  <2>4. Cardinality(C) = Cardinality(B2)
    BY <2>1, <2>2, <2>3, ShiftedHits
  <2> QED  BY <2>4 DEF C
<1>10. Cardinality(Hits(Q, Z)) = Cardinality(B1) + Cardinality(B2)
  <2>1. Hits(Q, Z) = B1 \union B2 /\ B1 \cap B2 = {}
    BY <1>1, <1>5
  <2> HIDE DEF B1, B2
  <2>2. /\ Cardinality(B1 \union B2) = Cardinality(B1) + Cardinality(B2) - Cardinality(B1 \cap B2)
        /\ Cardinality(B1) \in Nat /\ Cardinality(B2) \in Nat
    BY <1>6, FS_Union, FS_CardinalityType
  <2> QED  BY <2>1, <2>2, FS_EmptySet
<1> HIDE DEF A, B1, B2
<1>11. Cardinality(B1) \in Nat /\ Cardinality(B2) \in Nat
  BY <1>6, FS_CardinalityType
<1> QED  BY <1>1, <1>4, <1>7, <1>8, <1>9, <1>10, <1>11

-----------------------------------------------------------------------------
(* The files that were read *)

IndexFiles(l, p) == {e \in FileEvent : e.kind = "index" /\ e.ls = l /\ e.pid = p}
\* The index files of a process that have not been taken.
Left(P, l, p) == Cardinality(Hits(P, IndexFiles(l, p)))

\* No more event of the lumisection will be read, and all index files were taken.
Over(P, ended, l) ==
  l \in ended /\ \A i \in DOMAIN P : P[i].kind = "index" => P[i].ls # l

\* The first c[p] files of each process p.
FilesOf(c) == {f \in Pids \X (1 .. Max["files"]) : f[2] <= c[f[1]]}

LEMMA FilesFinite ==
  ASSUME NEW c
  PROVE  IsFiniteSet(FilesOf(c)) /\ Cardinality(FilesOf(c)) \in Nat
<1>1. IsFiniteSet(Pids) /\ IsFiniteSet(1 .. Max["files"])
  BY LumiAssumption, MaxTyped, FS_Interval
<1>2. IsFiniteSet(Pids \X (1 .. Max["files"]))
  BY <1>1, FS_Product
<1>3. FilesOf(c) \in SUBSET (Pids \X (1 .. Max["files"]))
  BY DEF FilesOf
<1> QED  BY <1>2, <1>3, FS_Subset, FS_CardinalityType

\* One more file is read by p.
LEMMA FileAdded ==
  ASSUME NEW c \in [Pids -> Nat], NEW d \in [Pids -> Nat], NEW p \in Pids,
         d[p] = c[p] + 1, \A q \in Pids \ {p} : d[q] = c[q], d[p] <= Max["files"]
  PROVE  Cardinality(FilesOf(d)) = Cardinality(FilesOf(c)) + 1
<1> DEFINE f == <<p, d[p]>>
<1>1. f \in Pids \X (1 .. Max["files"]) /\ f[1] = p /\ f[2] = d[p]
  BY MaxTyped
<1>2. f \notin FilesOf(c)
  BY <1>1 DEF FilesOf
<1>3. FilesOf(d) = FilesOf(c) \union {f}
  <2>1. \A g \in Pids \X (1 .. Max["files"]) : g[2] <= d[g[1]] <=> g[2] <= c[g[1]] \/ g = f
    <3> SUFFICES ASSUME NEW q \in Pids, NEW n \in 1 .. Max["files"]
                 PROVE  n <= d[q] <=> n <= c[q] \/ <<q, n>> = f
      OBVIOUS
    <3>1. CASE q = p
      BY <3>1, MaxTyped
    <3>2. CASE q # p
      BY <3>2
    <3> QED  BY <3>1, <3>2
  <2> HIDE DEF f
  <2> QED  BY <1>1, <2>1 DEF FilesOf
<1> HIDE DEF f
<1> QED  BY <1>2, <1>3, FilesFinite, FS_AddElement

\* What one process has read is not more than what all have.
LEMMA FilesBound ==
  ASSUME NEW c \in [Pids -> Nat], NEW p \in Pids, c[p] <= Max["files"]
  PROVE  c[p] <= Cardinality(FilesOf(c))
<1> DEFINE A == 1 .. c[p]
           B == {f \in FilesOf(c) : f[1] = p}
           g == [i \in A |-> <<p, i>>]
<1>1. g \in [A -> B]
  BY MaxTyped DEF FilesOf
<1>2. \A i, j \in A : g[i] = g[j] => i = j
  OBVIOUS
<1>3. IsFiniteSet(B) /\ Cardinality(B) <= Cardinality(FilesOf(c))
  <2>1. B \in SUBSET FilesOf(c)
    OBVIOUS
  <2> HIDE DEF B
  <2> QED  BY <2>1, FilesFinite, FS_Subset
<1>4. IsFiniteSet(A) /\ Cardinality(A) = c[p]
  BY FS_Interval
<1> HIDE DEF A, B, g
<1>5. Cardinality(A) <= Cardinality(B)
  <2>1. g \in Injection(A, B)
    BY <1>1, <1>2 DEF Injection, IsInjective
  <2> QED  BY <1>3, <2>1, FS_Injection
<1>6. Cardinality(B) \in Nat /\ Cardinality(FilesOf(c)) \in Nat
  BY <1>3, FilesFinite, FS_CardinalityType
<1> QED  BY <1>3, <1>4, <1>5, <1>6

-----------------------------------------------------------------------------
(* The account of one lumisection *)

Counts(h) == [p \in Pids |-> h.pid[p].n]

\* What the handler h of lumisection l has counted, when the events P have not
\* been taken, the BU has ended the lumisections in ended, and process p has read
\* c[p] events.
Account(h, l, P, ended, c) ==
  /\ \A p \in Pids : h.pid[p].n + Left(P, l, p) = c[p]
  /\ h.st = "open" /\ ~h.empty => h.total = Cardinality(FilesOf(Counts(h)))
  /\ h.st = "none" \/ h.empty => \A p \in Pids : ~h.pid[p].seen /\ h.pid[p].n = 0
  /\ h.st = "open" /\ h.empty => Over(P, ended, l)

\* Which streams have an entry in the row of the ledger.
Entered(h, row) ==
  /\ h.st = "none" => \A s \in Streams : row[s] = Unwritten
  /\ h.st = "open" /\ h.empty => \A s \in Streams \ h.fwd : row[s] = Unwritten
  /\ h.st = "open" /\ ~h.empty => \A s \in Streams : h.out[s].open <=> row[s] = Unwritten

Book(l, h, P, ended, c, row, sn) ==
  /\ h.st # "closed" => Account(h, l, P, ended, c)
  /\ h.st = "closed" => Over(P, ended, l)
  /\ Entered(h, row)
  /\ l \in sn => Over(P, ended, l)
  /\ \A s \in Streams : row[s] # Unwritten =>
       Over(P, ended, l) /\ row[s].proc + row[s].err = Cardinality(FilesOf(c))
  /\ \A p \in Pids : c[p] <= Max["files"]

Books == \A l \in Lumis : Book(l, lumi[l], Pend, buEols, grab[l], ledger[l], seen)

LEMMA OverShift ==
  ASSUME NEW P, NEW Q, NEW k, NEW X, Shifted(P, Q, k, X), NEW l, NEW ended, NEW ended1,
         Over(P, ended, l), ended \subseteq ended1,
         \A i \in DOMAIN X : X[i].kind = "index" => X[i].ls # l
  PROVE  Over(Q, ended1, l)
BY ShiftedFrom DEF Over

LEMMA LeftFinite ==
  ASSUME NEW P \in Seq(FileEvent), NEW l, NEW p
  PROVE  Left(P, l, p) \in Nat
BY HitsFinite DEF Left

LEMMA NoneLeft ==
  ASSUME NEW P \in Seq(FileEvent), NEW ended, NEW l, Over(P, ended, l), NEW p
  PROVE  Left(P, l, p) = 0
<1>1. Hits(P, IndexFiles(l, p)) = {}
  BY DEF Hits, IndexFiles, Over
<1> QED  BY <1>1, FS_EmptySet DEF Left

LEMMA LeftShift ==
  ASSUME NEW P, NEW Q, NEW k, NEW X, Shifted(P, Q, k, X), NEW l, NEW p,
         \A i \in DOMAIN X : X[i] \notin IndexFiles(l, p)
  PROVE  Left(Q, l, p) =
           IF k = 1 /\ P[1] \in IndexFiles(l, p) THEN Left(P, l, p) - 1 ELSE Left(P, l, p)
<1> DEFINE Z == IndexFiles(l, p)
<1>1. Hits(X, Z) = {}
  BY DEF Hits
<1>2. Cardinality(Hits(X, Z)) = 0
  BY <1>1, FS_EmptySet
<1> HIDE DEF Z
<1>3. Cardinality(Hits(Q, Z)) =
        Cardinality(Hits(P, Z)) - (IF k = 1 /\ P[1] \in Z THEN 1 ELSE 0) + Cardinality(Hits(X, Z))
  BY HitsShift
<1>4. Cardinality(Hits(P, Z)) \in Nat
  BY HitsFinite DEF Shifted
<1>5. Cardinality(Hits(Q, Z)) =
        IF k = 1 /\ P[1] \in Z THEN Cardinality(Hits(P, Z)) - 1 ELSE Cardinality(Hits(P, Z))
  BY <1>2, <1>3, <1>4
<1> QED  BY <1>5 DEF Left, Z

\* Events are taken or appear, none of them an index file of the lumisection.
LEMMA BookShift ==
  ASSUME NEW P, NEW Q, NEW k, NEW X, Shifted(P, Q, k, X), NEW l, NEW h, NEW ended, NEW ended1,
         NEW c, NEW row, NEW sn, NEW sn1, Book(l, h, P, ended, c, row, sn),
         ended \subseteq ended1,
         \A i \in DOMAIN X : X[i].kind = "index" => X[i].ls # l,
         k = 1 => ~(P[1].kind = "index" /\ P[1].ls = l),
         l \in sn1 => l \in sn \/ Over(Q, ended1, l)
  PROVE  Book(l, h, Q, ended1, c, row, sn1)
<1>1. Over(P, ended, l) => Over(Q, ended1, l)
  BY OverShift
<1>2. \A p \in Pids : Left(Q, l, p) = Left(P, l, p)
  <2> TAKE p \in Pids
  <2>1. \A i \in DOMAIN X : X[i] \notin IndexFiles(l, p)
    BY DEF IndexFiles
  <2>2. ~(k = 1 /\ P[1] \in IndexFiles(l, p))
    BY DEF IndexFiles
  <2> QED  BY <2>1, <2>2, LeftShift
<1> QED  BY <1>1, <1>2 DEF Book, Account

\* The handler changes, but not what the account depends on.
LEMMA BookKept ==
  ASSUME NEW l, NEW h, NEW g, NEW P, NEW ended, NEW c, NEW row, NEW sn,
         Book(l, h, P, ended, c, row, sn),
         g.st = h.st, g.empty = h.empty, g.fwd = h.fwd, g.total = h.total,
         \A p \in Pids : g.pid[p].n = h.pid[p].n /\ g.pid[p].seen = h.pid[p].seen,
         \A s \in Streams : g.out[s].open = h.out[s].open
  PROVE  Book(l, g, P, ended, c, row, sn)
<1>1. Counts(g) = Counts(h)
  BY DEF Counts
<1> QED  BY <1>1 DEF Book, Account, Entered

\* A handler is made.
LEMMA BookNew ==
  ASSUME NEW l, NEW h, NEW P, NEW ended, NEW c, NEW row, NEW sn,
         Book(l, h, P, ended, c, row, sn), h.st = "none", NEW kind,
         kind = "index" \/ Over(P, ended, l)
  PROVE  Book(l, NewHandler(kind), P, ended, c, row, sn)
<1> DEFINE g == NewHandler(kind)
<1> g = NewHandler(kind)
  OBVIOUS
<1> HIDE DEF g
<1>0. /\ g.st = "open" /\ g.empty = (kind # "index") /\ g.total = 0 /\ g.fwd = {}
      /\ g.pid = NoHandler.pid /\ g.out = NoHandler.out
  BY NewFields
<1>1. \A s \in Streams : g.out[s].open
  <2>1. \A s \in Streams : NoHandler.out[s] =
          [open |-> TRUE, proc |-> 0, err |-> 0, pb |-> FALSE, stage |-> 0]
    BY NoHandlerTyped
  <2> QED  BY <1>0, <2>1
<1>2. \A p \in Pids : ~g.pid[p].seen /\ g.pid[p].n = 0
  <2>1. \A p \in Pids : NoHandler.pid[p] = [seen |-> FALSE, n |-> 0, merged |-> {}]
    BY NoHandlerTyped
  <2> QED  BY <1>0, <2>1
<1>3. Cardinality(FilesOf(Counts(g))) = 0
  <2>1. FilesOf(Counts(g)) = {}
    BY <1>2, MaxTyped DEF FilesOf, Counts
  <2> QED  BY <2>1, FS_EmptySet
<1>4. \A p \in Pids : h.pid[p].n = 0
  BY DEF Book, Account
<1>5. Account(g, l, P, ended, c)
  BY <1>0, <1>2, <1>3, <1>4 DEF Book, Account
<1>6. Entered(g, row)
  BY <1>0, <1>1 DEF Book, Entered
<1> QED  BY <1>0, <1>5, <1>6 DEF Book

\* An index file is taken.
LEMMA BookIndexed ==
  ASSUME NEW P, NEW Q, NEW X, Shifted(P, Q, 1, X), NEW l, NEW h \in Handler, NEW ended,
         NEW c, NEW row, NEW sn, Book(l, h, P, ended, c, row, sn), h.st = "open",
         NEW p \in Pids, P[1] \in IndexFiles(l, p),
         \A i \in DOMAIN X : X[i].kind # "index",
         NEW g, g = WithIndex(h, p, 1), c \in [Pids -> Nat]
  PROVE  Book(l, g, Q, ended, c, row, sn)
<1>1. /\ P \in Seq(FileEvent) /\ Q \in Seq(FileEvent) /\ 1 \in DOMAIN P
      /\ P[1].kind = "index" /\ P[1].ls = l
  BY LenProperties DEF Shifted, IndexFiles
<1>2. ~Over(P, ended, l)
  BY <1>1 DEF Over
<1>3. /\ g \in Handler /\ g.total = h.total + 1
      /\ g.pid[p].seen /\ g.pid[p].n = h.pid[p].n + 1
      /\ \A q \in Pids \ {p} : g.pid[q] = h.pid[q]
      /\ g.st = h.st /\ g.empty = h.empty /\ g.fwd = h.fwd /\ g.out = h.out
  <2>1. 1 \in Nat
    OBVIOUS
  <2> QED  BY ONLY <2>1, h \in Handler, p \in Pids, g = WithIndex(h, p, 1), IndexFields
<1>4. Account(h, l, P, ended, c) /\ ~h.empty /\ l \notin sn /\ \A s \in Streams : row[s] = Unwritten
  BY <1>2 DEF Book, Account
<1>5. Left(Q, l, p) = Left(P, l, p) - 1
  <2>1. \A i \in DOMAIN X : X[i] \notin IndexFiles(l, p)
    BY DEF IndexFiles
  <2> QED  BY <2>1, LeftShift
<1>6. \A q \in Pids \ {p} : Left(Q, l, q) = Left(P, l, q)
  <2> TAKE q \in Pids \ {p}
  <2>1. \A i \in DOMAIN X : X[i] \notin IndexFiles(l, q)
    BY DEF IndexFiles
  <2>2. P[1] \notin IndexFiles(l, q)
    BY DEF IndexFiles
  <2> QED  BY <2>1, <2>2, LeftShift
<1>7. \A q \in Pids : /\ Left(P, l, q) \in Nat /\ Left(Q, l, q) \in Nat
                      /\ h.pid[q].n \in Nat /\ g.pid[q].n \in Nat
  BY <1>1, <1>3, LeftFinite, HandlerFields
<1>8. \A q \in Pids : g.pid[q].n + Left(Q, l, q) = c[q]
  <2> SUFFICES ASSUME NEW q \in Pids PROVE g.pid[q].n + Left(Q, l, q) = c[q]
    OBVIOUS
  <2>1. h.pid[q].n + Left(P, l, q) = c[q]
    BY <1>4 DEF Account
  <2>2. CASE q = p
    BY <1>3, <1>5, <1>7, <2>1, <2>2
  <2>3. CASE q # p
    BY <1>3, <1>6, <1>7, <2>1, <2>3
  <2> QED  BY <2>2, <2>3
<1>9. g.total = Cardinality(FilesOf(Counts(g)))
  <2>1. Counts(h) \in [Pids -> Nat] /\ Counts(g) \in [Pids -> Nat]
    BY <1>7 DEF Counts
  <2>2. Counts(g)[p] = Counts(h)[p] + 1 /\ \A q \in Pids \ {p} : Counts(g)[q] = Counts(h)[q]
    BY <1>3 DEF Counts
  <2>3. Counts(g)[p] <= Max["files"]
    <3>1. c[p] <= Max["files"]
      BY DEF Book
    <3>2. Counts(g)[p] = g.pid[p].n
      BY DEF Counts
    <3> QED  BY <1>7, <1>8, <3>1, <3>2, MaxTyped
  <2>4. Cardinality(FilesOf(Counts(g))) = Cardinality(FilesOf(Counts(h))) + 1
    BY <2>1, <2>2, <2>3, FileAdded
  <2>5. h.total = Cardinality(FilesOf(Counts(h)))
    BY <1>4 DEF Account
  <2> QED  BY <1>3, <2>4, <2>5
<1>10. Account(g, l, Q, ended, c)
  BY <1>3, <1>4, <1>8, <1>9 DEF Account
<1>11. Entered(g, row)
  BY <1>3, <1>4 DEF Book, Entered
<1> QED  BY <1>3, <1>4, <1>10, <1>11 DEF Book

\* When everything was taken, the handler has counted all events.
LEMMA AllCounted ==
  ASSUME NEW P \in Seq(FileEvent), NEW l, NEW h \in Handler, NEW ended, NEW c \in [Pids -> Nat],
         Over(P, ended, l), Account(h, l, P, ended, c)
  PROVE  /\ \A p \in Pids : h.pid[p].n = c[p]
         /\ h.st = "open" /\ ~h.empty => h.total = Cardinality(FilesOf(c))
<1>1. \A p \in Pids : h.pid[p].n = c[p]
  BY NoneLeft, HandlerFields DEF Account
<1>2. Counts(h) = c
  BY <1>1 DEF Counts
<1> QED  BY <1>1, <1>2 DEF Account

\* The entries that are written account for all events.
LEMMA BookSettled ==
  ASSUME NEW P \in Seq(FileEvent), NEW l, NEW h \in Handler, NEW ended, NEW c \in [Pids -> Nat],
         NEW row, NEW row1, NEW sn, Book(l, h, P, ended, c, row, sn), h.st = "open",
         h.eols => l \in sn, WrittenFor(h, row, row1)
  PROVE  /\ Book(l, Settled(h), P, ended, c, row1, sn)
         /\ \A s \in Streams : row1[s] # row[s] =>
              row[s] = Unwritten /\ row1[s].proc + row1[s].err = Cardinality(FilesOf(c))
<1>1. \A s \in ToWrite(h) : s \in Streams /\ h.out[s].open /\ h.eols /\ ~h.empty
  BY DEF ToWrite, Full
<1>2. \A s \in ToWrite(h) : h.out[s].proc + h.out[s].err = h.total
  BY DEF ToWrite, Full
<1>3. ASSUME h.eols PROVE Over(P, ended, l)
  BY <1>3 DEF Book
<1>4. Account(h, l, P, ended, c)
  BY DEF Book
<1>5. \A s \in ToWrite(h) : /\ row1[s] # Unwritten
                            /\ row1[s].proc + row1[s].err = Cardinality(FilesOf(c))
                            /\ row[s] = Unwritten /\ Over(P, ended, l)
  <2> SUFFICES ASSUME NEW s \in ToWrite(h)
               PROVE  /\ row1[s] # Unwritten
                      /\ row1[s].proc + row1[s].err = Cardinality(FilesOf(c))
                      /\ row[s] = Unwritten /\ Over(P, ended, l)
    OBVIOUS
  <2>1. s \in Streams /\ h.out[s].open /\ h.eols /\ ~h.empty /\ h.out[s] \in OutFile
    BY <1>1, HandlerFields
  <2>2. Over(P, ended, l) /\ row[s] = Unwritten
    BY <1>3, <2>1 DEF Book, Entered
  <2>3. PICK b \in BOOLEAN : row1[s] = Entry(h.out[s], b)
    BY <2>1 DEF WrittenFor
  <2>4. /\ row1[s] \in [proc : Nat, err : Nat]
        /\ row1[s].proc + row1[s].err = h.out[s].proc + h.out[s].err
    BY <2>1, <2>3, EntryTyped
  <2>5. h.total = Cardinality(FilesOf(c))
    BY <1>4, <2>1, <2>2, AllCounted
  <2> QED  BY <1>2, <2>2, <2>4, <2>5, LumiAssumption
<1>6. \A s \in Streams \ ToWrite(h) : row1[s] = row[s]
  BY DEF WrittenFor
<1>7. \A s \in Streams : row1[s] # Unwritten =>
        Over(P, ended, l) /\ row1[s].proc + row1[s].err = Cardinality(FilesOf(c))
  BY <1>5, <1>6 DEF Book
<1>8. CASE Complete(h)
  <2>1. Settled(h) = Closed
    BY <1>8, SettledTyped
  <2>2. Over(P, ended, l)
    BY <1>3, <1>8 DEF Complete, Full
  <2>3. Book(l, Closed, P, ended, c, row1, sn)
    BY <1>7, <2>2, NoHandlerTyped DEF Book, Entered
  <2> QED  BY <1>5, <1>6, <2>1, <2>3
<1>9. CASE ~Complete(h)
  <2> DEFINE g == Settled(h)
  <2>1. /\ Kept(g, h) /\ g.total = h.total /\ g.pid = h.pid
        /\ \A s \in Streams : g.out[s].open = (h.out[s].open /\ s \notin ToWrite(h))
    BY <1>9, SettledFields
  <2> HIDE DEF g
  <2>2. Counts(g) = Counts(h)
    BY <2>1 DEF Counts
  <2>3. Account(g, l, P, ended, c)
    BY <1>4, <2>1, <2>2 DEF Account, Kept
  <2>4. Entered(g, row1)
    <3>1. CASE h.empty
      <4>1. row1 = row \/ \A s \in Streams : row1[s] = row[s]
        BY <1>1, <1>6, <3>1
      <4> QED  BY <2>1, <3>1, <4>1 DEF Book, Entered, Kept
    <3>2. CASE ~h.empty
      <4>1. \A s \in Streams : h.out[s].open <=> row[s] = Unwritten
        BY <3>2 DEF Book, Entered
      <4> QED  BY <1>5, <1>6, <2>1, <3>2, <4>1 DEF Entered, Kept
    <3> QED  BY <3>1, <3>2
  <2>5. Book(l, g, P, ended, c, row1, sn)
    BY <1>7, <2>1, <2>3, <2>4 DEF Book, Kept
  <2> QED  BY <1>5, <1>6, <2>5 DEF g
<1> QED  BY <1>8, <1>9

-----------------------------------------------------------------------------
(* The accounts after a step *)

\* Events are taken or appear, no index file among those that appear.
Moved(k) ==
  \E X \in Seq(FileEvent) :
    Shifted(Pend, Pend', k, X) /\ \A i \in DOMAIN X : X[i].kind # "index"

\* The entries that a step writes account for all events that were read.
Posted(l) ==
  \A s \in Streams : ledger'[l][s] # ledger[l][s] =>
    /\ ledger[l][s] = Unwritten
    /\ ledger'[l][s].proc + ledger'[l][s].err = Cardinality(FilesOf(grab[l]))

LEMMA BooksMoved ==
  ASSUME NEW k, Moved(k), k = 1 => Pend[1].kind # "index", buEols \subseteq buEols', grab' = grab,
         \A l \in Lumis : Book(l, lumi'[l], Pend, buEols, grab[l], ledger'[l], seen')
  PROVE  Books'
<1>1. PICK X \in Seq(FileEvent) :
        Shifted(Pend, Pend', k, X) /\ \A i \in DOMAIN X : X[i].kind # "index"
  BY DEF Moved
<1> SUFFICES ASSUME NEW l \in Lumis
             PROVE  Book(l, lumi'[l], Pend', buEols', grab[l], ledger'[l], seen')
  BY DEF Books
<1>2. \A i \in DOMAIN X : X[i].kind = "index" => X[i].ls # l
  BY <1>1
<1>3. k = 1 => ~(Pend[1].kind = "index" /\ Pend[1].ls = l)
  OBVIOUS
<1>4. l \in seen' => l \in seen' \/ Over(Pend', buEols', l)
  OBVIOUS
<1> QED  BY <1>1, <1>2, <1>3, <1>4, BookShift

LEMMA BooksSame ==
  ASSUME Books, NEW k, Moved(k), k = 1 => Pend[1].kind # "index", buEols \subseteq buEols',
         UNCHANGED <<lumi, ledger, grab, seen>>
  PROVE  Books' /\ \A l \in Lumis : Posted(l)
<1>1. \A l \in Lumis : Book(l, lumi'[l], Pend, buEols, grab[l], ledger'[l], seen')
  BY DEF Books
<1>2. \A l \in Lumis : Posted(l)
  BY DEF Posted
<1> QED  BY <1>1, <1>2, BooksMoved

LEMMA TakenMoves ==
  ASSUME Course, Started, main'.buffer = main.buffer,
         \/ queue' = Tail(queue)
         \/ \E S \in SUBSET Lumis, ql \in SUBSET Lumis : WriteEoLS(S, Tail(queue), ql)
  PROVE  Moved(1) /\ Pend[1] = Event /\ WellFormed(Event)
<1>1. LumiTypeOK /\ Events /\ Buffered
  BY DEF Course
<1>2. Pend[1] = Event /\ WellFormed(Event)
  BY <1>1, StartedPend
<1>3. CASE queue' = Tail(queue)
  <2>1. Shifted(Pend, Pend', 1, <<>>)
    BY <1>1, <1>3, TakeOnlyShifts
  <2>2. <<>> \in Seq(FileEvent) /\ \A i \in DOMAIN <<>> : <<>>[i].kind # "index"
    BY EmptySeq
  <2> QED  BY <1>2, <2>1, <2>2 DEF Moved
<1>4. ASSUME NEW S \in SUBSET Lumis, NEW ql \in SUBSET Lumis, WriteEoLS(S, Tail(queue), ql)
      PROVE  Moved(1)
  <2>1. PICK X : EndsOf(X, S \ ql) /\ queue' = Tail(queue) \o X
    BY <1>4, WritesEnds
  <2>2. X \in Seq(FileEvent) /\ \A i \in DOMAIN X : X[i].kind # "index"
    BY <2>1, EoLSFields DEF EndsOf
  <2>3. Shifted(Pend, Pend', 1, X)
    BY <1>1, <2>1, <2>2, TakeShifts
  <2> QED  BY <2>2, <2>3 DEF Moved
<1> QED  BY <1>2, <1>3, <1>4

LEMMA AddedMoves ==
  ASSUME Course, main' = main,
         \/ queue' = queue
         \/ \E e \in FileEvent : e.kind # "index" /\ queue' = Append(queue, e)
         \/ \E S \in SUBSET Lumis, ql \in SUBSET Lumis : WriteEoLS(S, queue, ql)
  PROVE  Moved(0)
<1>1. LumiTypeOK /\ Pend \in Seq(FileEvent)
  BY DEF Course, Events
<1>2. CASE queue' = queue
  <2>1. Pend' = Pend
    BY <1>2 DEF Pend
  <2>2. <<>> \in Seq(FileEvent) /\ \A i \in DOMAIN <<>> : <<>>[i].kind # "index"
    BY EmptySeq
  <2>3. Shifted(Pend, Pend', 0, <<>>)
    BY <1>1, <2>1, NothingShifted
  <2> QED  BY <2>2, <2>3 DEF Moved
<1>3. ASSUME NEW e \in FileEvent, e.kind # "index", queue' = Append(queue, e)
      PROVE  Moved(0)
  <2>1. Shifted(Pend, Pend', 0, <<e>>)
    BY <1>1, <1>3, ReportShifts
  <2>2. <<e>> \in Seq(FileEvent) /\ \A i \in DOMAIN <<e>> : <<e>>[i].kind # "index"
    BY <1>3
  <2> QED  BY <2>1, <2>2 DEF Moved
<1>4. ASSUME NEW S \in SUBSET Lumis, NEW ql \in SUBSET Lumis, WriteEoLS(S, queue, ql)
      PROVE  Moved(0)
  <2>1. PICK X : EndsOf(X, S \ ql) /\ queue' = queue \o X
    BY <1>4, WritesEnds
  <2>2. X \in Seq(FileEvent) /\ \A i \in DOMAIN X : X[i].kind # "index"
    BY <2>1, EoLSFields DEF EndsOf
  <2>3. Shifted(Pend, Pend', 0, X)
    BY <1>1, <2>1, <2>2, AddShifts
  <2> QED  BY <2>2, <2>3 DEF Moved
<1> QED  BY <1>2, <1>3, <1>4

\* checkClosure, whatever events P have not been taken.
LEMMA Concluded ==
  ASSUME Course, NEW S \in SUBSET Lumis, NEW hs \in [Lumis -> Handler], CheckClosure(S, hs),
         NEW P \in Seq(FileEvent), NEW sn,
         \A k \in Lumis : Book(k, hs[k], P, buEols, grab[k], ledger[k], sn),
         \A k \in Lumis \ S : hs[k] = lumi[k],
         \A k \in S : hs[k].st = "open" /\ (hs[k].eols => k \in sn)
  PROVE  \A k \in Lumis : Book(k, lumi'[k], P, buEols, grab[k], ledger'[k], sn) /\ Posted(k)
<1> SUFFICES ASSUME NEW k \in Lumis
             PROVE  Book(k, lumi'[k], P, buEols, grab[k], ledger'[k], sn) /\ Posted(k)
  OBVIOUS
<1>1. LumiTypeOK /\ grab[k] \in [Pids -> Nat] /\ hs[k] \in Handler
  BY DEF Course, LumiTypeOK
<1>2. /\ \A l \in Lumis : lumi'[l] = IF l \in S THEN Settled(hs[l]) ELSE lumi[l]
      /\ \A l \in S : WrittenFor(hs[l], ledger[l], ledger'[l])
      /\ \A l \in Lumis \ S : ledger'[l] = ledger[l]
  BY <1>1, ClosureFacts, ZenonT(60)
<1>3. CASE k \in S
  <2>2. hs[k].st = "open" /\ (hs[k].eols => k \in sn)
    BY <1>3
  <2>3. Book(k, hs[k], P, buEols, grab[k], ledger[k], sn)
    OBVIOUS
  <2> DEFINE row == ledger[k]
             row1 == ledger'[k]
             h == hs[k]
             c == grab[k]
  <2>4. /\ h \in Handler /\ c \in [Pids -> Nat] /\ Book(k, h, P, buEols, c, row, sn)
        /\ h.st = "open" /\ (h.eols => k \in sn)
    BY <1>1, <2>2, <2>3
  <2>5. WrittenFor(h, row, row1)
    BY <1>2, <1>3
  <2> HIDE DEF row, row1, h, c
  <2>6. /\ Book(k, Settled(h), P, buEols, c, row1, sn)
        /\ \A s \in Streams : row1[s] # row[s] =>
             row[s] = Unwritten /\ row1[s].proc + row1[s].err = Cardinality(FilesOf(c))
    BY <2>4, <2>5, BookSettled, SMTT(60)
  <2> QED  BY <1>2, <1>3, <2>6 DEF Posted, row, row1, h, c
<1>4. CASE k \notin S
  <2>1. ledger'[k] = ledger[k]
    BY <1>2, <1>4
  <2> QED  BY <1>2, <1>4, <2>1 DEF Posted
<1> QED  BY <1>3, <1>4

-----------------------------------------------------------------------------
(* Steps that leave the accounts alone *)

AllPosted == \A l \in Lumis : Posted(l)

LEMMA NothingTaken ==
  ASSUME Course, Books, Moved(0), buEols \subseteq buEols', UNCHANGED <<lumi, ledger, grab, seen>>
  PROVE  Books' /\ AllPosted
BY BooksSame DEF AllPosted

LEMMA BeforeStartBooks ==
  ASSUME Course, Books, BufferIndex \/ FlushBuffer
  PROVE  Books' /\ AllPosted
<1>1. /\ main \in MainState /\ main.buffer \in Seq(FileEvent) /\ queue \in Seq(FileEvent)
      /\ queue # <<>>
  BY MainFields DEF Course, LumiTypeOK, BufferIndex, FlushBuffer, Looping
<1>2. UNCHANGED <<lumi, ledger, grab, seen, buEols>>
  BY DEF BufferIndex, FlushBuffer
<1>3. Pend' = Pend
  <2>1. CASE BufferIndex
    <3> DEFINE b == Append(main.buffer, Event)
    <3>1. b \in Seq(FileEvent) /\ b \o Tail(queue) = Pend
      BY <1>1, HeadMoves DEF Event, Pend
    <3>2. main' = [main EXCEPT !.buffer = b, !.index = TRUE] /\ queue' = Tail(queue)
      BY <2>1 DEF BufferIndex
    <3> HIDE DEF b
    <3>3. main'.buffer = b
      BY <1>1, <3>1, <3>2, MainFields
    <3> QED  BY <3>1, <3>2, <3>3 DEF Pend
  <2>2. CASE FlushBuffer
    <3>1. /\ Flushed \o Tail(queue) = Pend /\ Flushed \o Tail(queue) \in Seq(FileEvent)
      BY <1>1, HeadMoves DEF Event, Pend, Flushed
    <3> DEFINE a == main.allowEmpty \/ Event.kind = "processing"
    <3>2. main' = [main EXCEPT !.started = TRUE, !.buffer = <<>>, !.allowEmpty = a]
      BY <2>2 DEF FlushBuffer
    <3>3. a \in BOOLEAN
      BY <1>1 DEF MainState
    <3> HIDE DEF a
    <3>4. main'.buffer = <<>> /\ queue' = Flushed \o Tail(queue)
      BY <1>1, <2>2, <3>2, <3>3, MainFields DEF FlushBuffer
    <3> QED  BY <3>1, <3>4, ConcatEmptySeq DEF Pend
  <2> QED  BY <2>1, <2>2
<1>4. Moved(0)
  <2>1. Shifted(Pend, Pend', 0, <<>>)
    BY <1>3, NothingShifted DEF Course, Events
  <2>2. <<>> \in Seq(FileEvent) /\ \A i \in DOMAIN <<>> : <<>>[i].kind # "index"
    BY EmptySeq
  <2> QED  BY <2>1, <2>2 DEF Moved
<1> QED  BY <1>2, <1>4, NothingTaken

LEMMA DropEarlyBooks ==
  ASSUME Course, Books, DropEarly
  PROVE  Books' /\ AllPosted
<1>1. /\ Shifted(Pend, Pend', 1, <<>>) /\ Pend[1].kind = "crash"
  BY DropEarlyShifts
<1>2. <<>> \in Seq(FileEvent) /\ \A i \in DOMAIN <<>> : <<>>[i].kind # "index"
  BY EmptySeq
<1>3. Moved(1)
  BY <1>1, <1>2 DEF Moved
<1>4. buEols \subseteq buEols' /\ UNCHANGED <<lumi, ledger, grab, seen>>
  BY DEF DropEarly
<1>5. 1 = 1 => Pend[1].kind # "index"
  BY <1>1
<1> QED  BY <1>3, <1>4, <1>5, BooksSame DEF AllPosted

LEMMA TakeOtherBooks ==
  ASSUME Course, Books, TakeProcessing \/ TakeComplete
  PROVE  Books' /\ AllPosted
<1>1. /\ LumiTypeOK /\ Started /\ Event.kind \in {"processing", "complete", "abort"}
      /\ UNCHANGED <<lumi, ledger, grab, seen, buEols>>
  BY DEF Course, TakeProcessing, TakeComplete
<1>2. main'.buffer = main.buffer
  <2>1. main' = [main EXCEPT !.allowEmpty = TRUE] \/ main' = [main EXCEPT !.stop = Event.kind]
    BY DEF TakeProcessing, TakeComplete
  <2> QED  BY <1>1, <2>1 DEF LumiTypeOK, MainState
<1>3. \/ queue' = Tail(queue)
      \/ \E S \in SUBSET Lumis, ql \in SUBSET Lumis : WriteEoLS(S, Tail(queue), ql)
  <2>1. queue' = Tail(queue) \/ WriteEoLS(MissingEoLS, Tail(queue), queued)
    BY DEF TakeProcessing, TakeComplete
  <2>2. MissingEoLS \in SUBSET Lumis /\ queued \in SUBSET Lumis
    BY <1>1 DEF MissingEoLS, LumiTypeOK
  <2> QED  BY <2>1, <2>2
<1>4. Moved(1) /\ Pend[1] = Event
  BY <1>1, <1>2, <1>3, TakenMoves
<1>5. 1 = 1 => Pend[1].kind # "index"
  BY <1>1, <1>4
<1> QED  BY <1>1, <1>4, <1>5, BooksSame DEF AllPosted

LEMMA QuietBooks ==
  ASSUME Course, Books,
         Idle \/ Finish \/ DqmTake \/ \E l \in Lumis : BuEnds(l)
  PROVE  Books' /\ AllPosted
<1>1. /\ queue' = queue /\ buEols \subseteq buEols' /\ UNCHANGED <<lumi, ledger, grab, seen>>
  BY DEF Idle, Finish, DqmTake, BuEnds, scriptVars
<1>2. main'.buffer = main.buffer
  <2>1. main \in MainState
    BY DEF Course, LumiTypeOK
  <2>2. \/ main' = main
        \/ main' = [main EXCEPT !.pc = "finish"] \/ main' = [main EXCEPT !.pc = "exited"]
        \/ \E n, a : main' = [main EXCEPT !.left = n, !.skip = a]
    BY DEF Idle, Finish, DqmTake, BuEnds, scriptVars
  <2> QED  BY <2>1, <2>2 DEF MainState
<1>3. Pend' = Pend
  BY <1>1, <1>2 DEF Pend
<1>4. Moved(0)
  <2>1. Shifted(Pend, Pend', 0, <<>>)
    BY <1>3, NothingShifted DEF Course, Events
  <2>2. <<>> \in Seq(FileEvent) /\ \A i \in DOMAIN <<>> : <<>>[i].kind # "index"
    BY EmptySeq
  <2> QED  BY <2>1, <2>2 DEF Moved
<1> QED  BY <1>1, <1>4, NothingTaken

LEMMA ProcessBooks ==
  ASSUME Course, Books, NEW p \in Pids,
         \/ Begin(p) \/ Leave(p) \/ Die(p) \/ ReportCrash(p) \/ (\E s \in Streams : Output(p, s))
  PROVE  Books' /\ AllPosted
<1>1. LumiTypeOK
  BY DEF Course
<1>2. main' = main /\ buEols' = buEols /\ UNCHANGED <<lumi, ledger, grab, seen>>
  BY DEF Begin, Leave, Die, ReportCrash, Output, Report, scriptVars
<1>3. \/ queue' = queue
      \/ \E e \in FileEvent : e.kind # "index" /\ queue' = Append(queue, e)
      \/ \E S \in SUBSET Lumis, ql \in SUBSET Lumis : WriteEoLS(S, queue, ql)
  <2>1. CASE Begin(p) \/ Die(p)
    BY <2>1 DEF Begin, Die
  <2>2. CASE Leave(p)
    <3>1. queue' = queue \/ WriteEoLS({Current(p)}, queue, queued)
      BY <2>2 DEF Leave
    <3>2. {Current(p)} \in SUBSET Lumis /\ queued \in SUBSET Lumis
      BY <1>1, <2>2 DEF Leave, LumiTypeOK
    <3> QED  BY <3>1, <3>2
  <2>3. CASE ReportCrash(p)
    <3>1. queue' = Append(queue, Ev("crash", 0, p, NoStream, 0))
      BY <2>3 DEF ReportCrash, Report
    <3>2. Ev("crash", 0, p, NoStream, 0).kind # "index"
      BY DEF Ev
    <3> QED  BY <3>1, <3>2, EventsTyped
  <2>4. ASSUME NEW s \in Streams, Output(p, s)
        PROVE  \E e \in FileEvent : e.kind # "index" /\ queue' = Append(queue, e)
    <3> DEFINE l == Current(p)
               n == grab[l][p]
    <3>1. l \in Lumis
      BY <1>1, <2>4 DEF Output, Course, LumisEnded, LumiTypeOK, Current
    <3>2. n \in Nat
      BY <1>1, <3>1 DEF LumiTypeOK
    <3>3. queue' = Append(queue, Ev("json", l, p, s, n)) \/ queue' = Append(queue, Ev("bad", l, p, s, 0))
      BY <2>4 DEF Output, Report
    <3> HIDE DEF l, n
    <3>4. Ev("json", l, p, s, n) \in FileEvent /\ Ev("bad", l, p, s, 0) \in FileEvent
      BY <3>1, <3>2, EventsTyped
    <3>5. Ev("json", l, p, s, n).kind # "index" /\ Ev("bad", l, p, s, 0).kind # "index"
      BY DEF Ev
    <3> QED  BY <3>3, <3>4, <3>5
  <2> QED  BY <2>1, <2>2, <2>3, <2>4
<1>4. Moved(0)
  BY <1>2, <1>3, AddedMoves
<1> QED  BY <1>2, <1>4, NothingTaken

LEMMA RunOverBooks ==
  ASSUME Course, Books, RunComplete \/ RunAborted
  PROVE  Books' /\ AllPosted
<1>1. main' = main /\ buEols' = buEols /\ UNCHANGED <<lumi, ledger, grab, seen>>
  BY DEF RunComplete, RunAborted, Report, scriptVars
<1>2. \E e \in {Ev("complete", 0, NoPid, NoStream, 0), Ev("abort", 0, NoPid, NoStream, 0)} :
        queue' = Append(queue, e)
  BY DEF RunComplete, RunAborted, Report
<1>3. \A e \in {Ev("complete", 0, NoPid, NoStream, 0), Ev("abort", 0, NoPid, NoStream, 0)} :
        e \in FileEvent /\ e.kind # "index"
  <2>1. \A e \in {Ev("complete", 0, NoPid, NoStream, 0), Ev("abort", 0, NoPid, NoStream, 0)} :
          e.kind # "index"
    BY DEF Ev
  <2> QED  BY <2>1, EventsTyped
<1>4. \E e \in FileEvent : e.kind # "index" /\ queue' = Append(queue, e)
  BY <1>2, <1>3
<1>5. Moved(0)
  BY <1>1, <1>4, AddedMoves
<1> QED  BY <1>1, <1>5, NothingTaken

-----------------------------------------------------------------------------
(* The main loop takes the files of a lumisection *)

\* When an event of a lumisection other than an index file is taken, no index
\* file of it is left.
LEMMA HeadOver ==
  ASSUME Course, Started, Event.kind \in {"json", "bad", "eols", "merged"}
  PROVE  Over(Pend, buEols, Event.ls) /\ Event.ls \in Lumis
<1>1. /\ 1 \in DOMAIN Pend /\ Pend[1] = Event /\ WellFormed(Event) /\ AfterEnd(Event, buEols)
      /\ Pend \in Seq(FileEvent)
  BY StartedPend DEF Course
<1>2. Event.ls \in Lumis /\ Event.ls \in buEols
  BY <1>1 DEF WellFormed, AfterEnd
<1>3. \A i \in DOMAIN Pend : Pend[i].kind = "index" => Pend[i].ls # Event.ls
  <2> SUFFICES ASSUME NEW i \in DOMAIN Pend, Pend[i].kind = "index", Pend[i].ls = Event.ls
               PROVE  FALSE
    OBVIOUS
  <2>1. i > 1
    <3>1. i \in Nat /\ i >= 1 /\ i # 1
      BY <1>1, LenProperties
    <3> QED  BY <3>1
  <2>2. MayPrecede(Pend[1], Pend[i])
    BY <1>1, <2>1 DEF Course, Events
  <2>3. Event.ls < Event.ls
    BY <1>1, <2>2 DEF MayPrecede
  <2>4. Event.ls \in Nat
    BY <1>2, LumisFinite
  <2> QED  BY <2>3, <2>4
<1> QED  BY <1>2, <1>3 DEF Over

\* The handler to which a file goes.
LEMMA HandlerBook ==
  ASSUME Course, Books, NEW l \in Lumis, NEW kind, kind = "index" \/ Over(Pend, buEols, l),
         NEW h, h = IF Open(l) THEN lumi[l] ELSE NewHandler(kind), Open(l) \/ lumi[l].st = "none"
  PROVE  /\ h \in Handler /\ h.st = "open" /\ (h.eols => l \in seen)
         /\ Book(l, h, Pend, buEols, grab[l], ledger[l], seen)
<1>1. Book(l, lumi[l], Pend, buEols, grab[l], ledger[l], seen)
  BY DEF Books
<1>2. CASE Open(l)
  BY <1>1, <1>2, HandlerOf DEF Open
<1>3. CASE ~Open(l)
  <2>1. lumi[l].st = "none" /\ h = NewHandler(kind)
    BY <1>3
  <2>2. h \in Handler /\ h.st = "open" /\ ~h.eols
    BY <2>1, NewFields
  <2>3. Book(l, NewHandler(kind), Pend, buEols, grab[l], ledger[l], seen)
    BY <1>1, <2>1, BookNew
  <2> QED  BY <2>1, <2>2, <2>3
<1> QED  BY <1>2, <1>3

\* A handler gets the state h, and its streams that are full are written.
LEMMA ConcludedBooks ==
  ASSUME Course, NEW l \in Lumis, NEW h \in Handler, Conclude(l, h),
         NEW P \in Seq(FileEvent), NEW sn, h.st = "open", h.eols => l \in sn,
         Book(l, h, P, buEols, grab[l], ledger[l], sn),
         \A k \in Lumis \ {l} : Book(k, lumi[k], P, buEols, grab[k], ledger[k], sn)
  PROVE  \A k \in Lumis : Book(k, lumi'[k], P, buEols, grab[k], ledger'[k], sn) /\ Posted(k)
<1> DEFINE hs == [lumi EXCEPT ![l] = h]
           S == {l}
<1>1. hs \in [Lumis -> Handler] /\ hs[l] = h /\ S \in SUBSET Lumis /\ l \in S
  BY ConcludeTyped
<1>2. CheckClosure(S, hs)
  BY DEF Conclude
<1>3. \A k \in Lumis \ S : hs[k] = lumi[k]
  BY DEF Course, LumiTypeOK
<1>4. \A k \in Lumis : Book(k, hs[k], P, buEols, grab[k], ledger[k], sn)
  BY <1>1, <1>3
<1>5. \A k \in S : hs[k].st = "open" /\ (hs[k].eols => k \in sn)
  BY <1>1
<1> HIDE DEF hs, S
<1> QED  BY <1>1, <1>2, <1>3, <1>4, <1>5, Concluded

\* One handler changes and nothing is written.
LEMMA ReplacedBooks ==
  ASSUME Course, Books, NEW l \in Lumis, NEW h, lumi' = [lumi EXCEPT ![l] = h],
         ledger' = ledger, Book(l, h, Pend, buEols, grab[l], ledger[l], seen)
  PROVE  \A k \in Lumis : Book(k, lumi'[k], Pend, buEols, grab[k], ledger'[k], seen) /\ Posted(k)
<1>1. \A k \in Lumis : lumi'[k] = IF k = l THEN h ELSE lumi[k]
  BY DEF Course, LumiTypeOK
<1> QED  BY <1>1 DEF Books, Posted

\* An event other than an index file was taken.
LEMMA TakenBooks ==
  ASSUME Course, Started, Event.kind # "index", main' = main, queue' = Tail(queue),
         buEols' = buEols, grab' = grab, seen' = seen,
         \A k \in Lumis : Book(k, lumi'[k], Pend, buEols, grab[k], ledger'[k], seen) /\ Posted(k)
  PROVE  Books' /\ AllPosted
<1>1. Moved(1) /\ Pend[1] = Event
  BY TakenMoves
<1>2. 1 = 1 => Pend[1].kind # "index"
  BY <1>1
<1>3. \A k \in Lumis : Book(k, lumi'[k], Pend, buEols, grab[k], ledger'[k], seen')
  OBVIOUS
<1>4. Books'
  BY <1>1, <1>2, <1>3, BooksMoved
<1> QED  BY <1>4 DEF AllPosted

LEMMA UnchangedBooks ==
  ASSUME Books, UNCHANGED <<lumi, ledger>>
  PROVE  \A k \in Lumis : Book(k, lumi'[k], Pend, buEols, grab[k], ledger'[k], seen) /\ Posted(k)
BY DEF Books, Posted

\* An empty lumisection is accounted for by zero events.
LEMMA ForwardBooks ==
  ASSUME Course, Books, NEW l \in Lumis, NEW h \in Handler, NEW s \in Streams,
         Book(l, h, Pend, buEols, grab[l], ledger[l], seen), h.st = "open", h.empty,
         Forward(l, h, s)
  PROVE  \A k \in Lumis : Book(k, lumi'[k], Pend, buEols, grab[k], ledger'[k], seen) /\ Posted(k)
<1> DEFINE c == grab[l]
           row == ledger[l]
           g == IF h.fwd \union {s} = Streams THEN Closed ELSE [h EXCEPT !.fwd = @ \union {s}]
           z == [proc |-> 0, err |-> 0]
<1>1. /\ lumi \in [Lumis -> Handler] /\ c \in [Pids -> Nat] /\ Pend \in Seq(FileEvent)
      /\ ledger \in [Lumis -> [Streams -> [proc : Nat, err : Nat] \union {Unwritten}]]
  BY DEF Course, LumiTypeOK, Events
<1>2. lumi' = [lumi EXCEPT ![l] = g]
  BY DEF Forward
<1>3. \A k \in Lumis : lumi'[k] = IF k = l THEN g ELSE lumi[k]
  BY <1>1, <1>2
<1>4. /\ Over(Pend, buEols, l) /\ Account(h, l, Pend, buEols, c)
      /\ \A u \in Streams \ h.fwd : row[u] = Unwritten
  BY DEF Book, Account, Entered
<1>5. Cardinality(FilesOf(c)) = 0
  <2>1. \A p \in Pids : h.pid[p].n = 0
    BY <1>4 DEF Account
  <2> HIDE DEF c
  <2>2. \A p \in Pids : h.pid[p].n = c[p]
    BY <1>1, <1>4, AllCounted
  <2>3. FilesOf(c) = {}
    BY <2>1, <2>2, MaxTyped DEF FilesOf
  <2> QED  BY <2>3, FS_EmptySet
<1>6. /\ \A k \in Lumis \ {l} : ledger'[k] = ledger[k]
      /\ \A u \in Streams : ledger'[l][u] = IF h.eols /\ s \notin h.fwd /\ u = s THEN z ELSE row[u]
  <2>1. ledger' = IF h.eols /\ s \notin h.fwd THEN [ledger EXCEPT ![l][s] = z] ELSE ledger
    BY DEF Forward
  <2> HIDE DEF z
  <2> QED  BY <1>1, <2>1
<1>7. z # Unwritten /\ z.proc + z.err = 0
  BY LumiAssumption
<1>8. Posted(l)
  BY <1>4, <1>5, <1>6, <1>7 DEF Posted
<1>9. g = Closed \/ (/\ g.st = h.st /\ g.empty = h.empty /\ g.fwd = h.fwd \union {s}
                     /\ g.pid = h.pid)
  <2>1. CASE h.fwd \union {s} = Streams
    BY <2>1
  <2>2. CASE h.fwd \union {s} # Streams
    <3> DEFINE w == [h EXCEPT !.fwd = @ \union {s}]
    <3>1. g = w
      BY <2>2
    <3>2. w.st = h.st /\ w.empty = h.empty /\ w.fwd = h.fwd \union {s} /\ w.pid = h.pid
      BY DEF Handler
    <3> HIDE DEF g, w
    <3> QED  BY <3>1, <3>2
  <2> QED  BY <2>1, <2>2
<1> DEFINE row1 == ledger'[l]
<1>10. \A u \in Streams : row1[u] = row[u] \/ (row1[u] = z /\ u = s)
  BY <1>6
<1>11. Book(l, h, Pend, buEols, c, row, seen)
  OBVIOUS
<1> HIDE DEF c, row, g, z, row1
<1>12. \A u \in Streams : row1[u] # Unwritten =>
         Over(Pend, buEols, l) /\ row1[u].proc + row1[u].err = Cardinality(FilesOf(c))
  BY <1>4, <1>5, <1>7, <1>10, <1>11 DEF Book
<1>13. Book(l, g, Pend, buEols, c, row1, seen)
  <2>1. CASE g = Closed
    BY <1>4, <1>11, <1>12, <2>1, NoHandlerTyped DEF Book, Entered
  <2>2. CASE /\ g.st = h.st /\ g.empty = h.empty /\ g.fwd = h.fwd \union {s} /\ g.pid = h.pid
    <3>1. Account(g, l, Pend, buEols, c)
      BY <1>4, <2>2 DEF Account
    <3>2. Entered(g, row1)
      BY <1>4, <1>10, <2>2 DEF Entered
    <3> QED  BY <1>11, <1>12, <2>2, <3>1, <3>2 DEF Book
  <2> QED  BY <1>9, <2>1, <2>2
<1> QED  BY <1>3, <1>6, <1>8, <1>13 DEF Books, Posted, c, row1

LEMMA TakeJsonBooks ==
  ASSUME Course, Books, TakeJson
  PROVE  Books' /\ AllPosted
<1> DEFINE l == Event.ls
           p == Event.pid
           s == Event.stream
           n == Event.n
           h == IF Open(l) THEN lumi[l] ELSE NewHandler("json")
           all == \A k \in Lumis : Book(k, lumi'[k], Pend, buEols, grab[k], ledger'[k], seen) /\ Posted(k)
<1>1. /\ LumiTypeOK /\ Events /\ Buffered /\ Started /\ Event.kind = "json" /\ Event.kind # "index"
      /\ queue' = Tail(queue) /\ main' = main /\ buEols' = buEols /\ grab' = grab /\ seen' = seen
  BY DEF Course, TakeJson
<1>2. Over(Pend, buEols, l) /\ l \in Lumis
  BY <1>1, HeadOver
<1>3. p \in Pids /\ s \in Streams /\ n \in Nat /\ Pend \in Seq(FileEvent)
  BY <1>1, StartedPend DEF WellFormed, FileEvent
<1>4. CASE ~Open(l) /\ (lumi[l].st = "closed" \/ ~main.allowEmpty)
  <2>1. UNCHANGED <<lumi, ledger>>
    BY <1>4 DEF TakeJson
  <2>2. all
    BY <2>1, UnchangedBooks
  <2> QED  BY <1>1, <2>2, TakenBooks
<1>5. CASE ~(~Open(l) /\ (lumi[l].st = "closed" \/ ~main.allowEmpty))
  <2>1. Open(l) \/ lumi[l].st = "none"
    <3>1. lumi[l].st \in {"none", "open", "closed"}
      BY <1>1, <1>2, HandlerFields DEF LumiTypeOK
    <3> QED  BY <1>5, <3>1 DEF Open
  <2>2. h = IF Open(l) THEN lumi[l] ELSE NewHandler("json")
    OBVIOUS
  <2>3. \/ Conclude(l, WithJson(h, p, s, n))
        \/ h.empty /\ Forward(l, h, s)
        \/ lumi' = [lumi EXCEPT ![l] = h] /\ ledger' = ledger
    BY <1>5 DEF TakeJson
  <2> HIDE DEF l, h, p, s, n
  <2>4. /\ h \in Handler /\ h.st = "open" /\ (h.eols => l \in seen)
        /\ Book(l, h, Pend, buEols, grab[l], ledger[l], seen)
    BY <1>2, <2>1, <2>2, HandlerBook
  <2>5. CASE Conclude(l, WithJson(h, p, s, n))
    <3> DEFINE g == WithJson(h, p, s, n)
    <3>1. g = WithJson(h, p, s, n)
      OBVIOUS
    <3> HIDE DEF g
    <3>2. /\ g \in Handler /\ Kept(g, h) /\ g.total = h.total
          /\ g.pid[p].seen = h.pid[p].seen /\ g.pid[p].n = h.pid[p].n
          /\ \A q \in Pids \ {p} : g.pid[q] = h.pid[q]
          /\ \A u \in Streams \ {s} : g.out[u] = h.out[u]
          /\ g.out[s].open = h.out[s].open
      BY <1>3, <2>4, <3>1, JsonFields
    <3>3. /\ g.st = h.st /\ g.empty = h.empty /\ g.fwd = h.fwd /\ g.eols = h.eols
          /\ \A q \in Pids : g.pid[q].n = h.pid[q].n /\ g.pid[q].seen = h.pid[q].seen
          /\ \A u \in Streams : g.out[u].open = h.out[u].open
      BY <3>2 DEF Kept
    <3>4. Book(l, g, Pend, buEols, grab[l], ledger[l], seen)
      BY <2>4, <3>2, <3>3, BookKept
    <3>5. Conclude(l, g)
      BY <2>5, <3>1
    <3>6. \A k \in Lumis \ {l} : Book(k, lumi[k], Pend, buEols, grab[k], ledger[k], seen)
      BY DEF Books
    <3>7. all
      BY <1>2, <1>3, <2>4, <3>2, <3>3, <3>4, <3>5, <3>6, ConcludedBooks
    <3> QED  BY <1>1, <3>7, TakenBooks
  <2>6. CASE h.empty /\ Forward(l, h, s)
    <3>1. all
      BY <1>2, <1>3, <2>4, <2>6, ForwardBooks
    <3> QED  BY <1>1, <3>1, TakenBooks
  <2>7. CASE lumi' = [lumi EXCEPT ![l] = h] /\ ledger' = ledger
    <3>1. all
      BY <1>2, <2>4, <2>7, ReplacedBooks
    <3> QED  BY <1>1, <3>1, TakenBooks
  <2> QED  BY <2>3, <2>5, <2>6, <2>7
<1> QED  BY <1>4, <1>5

LEMMA TakeBadBooks ==
  ASSUME Course, Books, TakeBad
  PROVE  Books' /\ AllPosted
<1> DEFINE l == Event.ls
           p == Event.pid
           s == Event.stream
           h == lumi[l]
           all == \A k \in Lumis : Book(k, lumi'[k], Pend, buEols, grab[k], ledger'[k], seen) /\ Posted(k)
<1>1. /\ LumiTypeOK /\ Events /\ Buffered /\ Started /\ Event.kind = "bad" /\ Event.kind # "index"
      /\ queue' = Tail(queue) /\ main' = main /\ buEols' = buEols /\ grab' = grab /\ seen' = seen
  BY DEF Course, TakeBad
<1>2. Over(Pend, buEols, l) /\ l \in Lumis
  BY <1>1, HeadOver
<1>3. p \in Pids /\ s \in Streams /\ Pend \in Seq(FileEvent)
  BY <1>1, StartedPend DEF WellFormed, FileEvent
<1>4. /\ h \in Handler /\ (h.eols => l \in seen)
      /\ Book(l, h, Pend, buEols, grab[l], ledger[l], seen)
  BY <1>2, HandlerOf DEF Books
<1>5. \/ Open(l) /\ Conclude(l, WithBad(h, p, s))
      \/ h.st = "none" /\ lumi' = [lumi EXCEPT ![l] = NewHandler("bad")] /\ ledger' = ledger
      \/ UNCHANGED <<lumi, ledger>>
  BY DEF TakeBad
<1>6. Open(l) => h.st = "open"
  BY DEF Open
<1> HIDE DEF l, h, p, s
<1>7. CASE Open(l) /\ Conclude(l, WithBad(h, p, s))
  <2> DEFINE g == WithBad(h, p, s)
  <2>1. g = WithBad(h, p, s)
    OBVIOUS
  <2> HIDE DEF g
  <2>2. /\ g \in Handler /\ Kept(g, h) /\ g.total = h.total /\ g.pid = h.pid
        /\ \A u \in Streams : g.out[u].open = h.out[u].open
    BY <1>3, <1>4, <2>1, BadFields
  <2>3. g.st = h.st /\ g.empty = h.empty /\ g.fwd = h.fwd /\ g.eols = h.eols
    BY <2>2 DEF Kept
  <2>4. \A q \in Pids : g.pid[q].n = h.pid[q].n /\ g.pid[q].seen = h.pid[q].seen
    BY <2>2
  <2>5. Book(l, g, Pend, buEols, grab[l], ledger[l], seen)
    BY <1>4, <2>2, <2>3, <2>4, BookKept
  <2>6. Conclude(l, g)
    BY <1>7, <2>1
  <2>7. \A k \in Lumis \ {l} : Book(k, lumi[k], Pend, buEols, grab[k], ledger[k], seen)
    BY DEF Books
  <2>8. all
    BY <1>2, <1>3, <1>4, <1>6, <1>7, <2>2, <2>3, <2>5, <2>6, <2>7, ConcludedBooks
  <2> QED  BY <1>1, <2>8, TakenBooks
<1>8. CASE h.st = "none" /\ lumi' = [lumi EXCEPT ![l] = NewHandler("bad")] /\ ledger' = ledger
  <2>1. Book(l, NewHandler("bad"), Pend, buEols, grab[l], ledger[l], seen)
    BY <1>2, <1>4, <1>8, BookNew
  <2>2. all
    BY <1>2, <1>8, <2>1, ReplacedBooks
  <2> QED  BY <1>1, <2>2, TakenBooks
<1>9. CASE UNCHANGED <<lumi, ledger>>
  <2>1. all
    BY <1>9, UnchangedBooks
  <2> QED  BY <1>1, <2>1, TakenBooks
<1> QED  BY <1>5, <1>7, <1>8, <1>9

LEMMA TakeMergedBooks ==
  ASSUME Course, Books, TakeMerged
  PROVE  Books' /\ AllPosted
<1> DEFINE l == Event.ls
           s == Event.stream
           h == lumi[l]
           all == \A k \in Lumis : Book(k, lumi'[k], Pend, buEols, grab[k], ledger'[k], seen) /\ Posted(k)
<1>1. /\ LumiTypeOK /\ Events /\ Buffered /\ Started /\ Event.kind = "merged" /\ Event.kind # "index"
      /\ queue' = Tail(queue) /\ main' = main /\ buEols' = buEols /\ grab' = grab /\ seen' = seen
  BY DEF Course, TakeMerged
<1>2. l \in Lumis
  BY <1>1, HeadOver
<1>3. s \in Streams /\ Pend \in Seq(FileEvent)
  BY <1>1, StartedPend DEF WellFormed, FileEvent
<1>4. /\ h \in Handler /\ (h.eols => l \in seen)
      /\ Book(l, h, Pend, buEols, grab[l], ledger[l], seen)
  BY <1>2, HandlerOf DEF Books
<1>5. \/ h.st = "open" /\ Conclude(l, WithMerged(h, s))
      \/ UNCHANGED <<lumi, ledger>>
  BY DEF TakeMerged, Open
<1> HIDE DEF l, h, s
<1>6. CASE h.st = "open" /\ Conclude(l, WithMerged(h, s))
  <2> DEFINE g == WithMerged(h, s)
  <2>1. g = WithMerged(h, s)
    OBVIOUS
  <2> HIDE DEF g
  <2>2. /\ g \in Handler /\ Kept(g, h) /\ g.total = h.total /\ g.pid = h.pid
        /\ \A u \in Streams \ {s} : g.out[u] = h.out[u]
        /\ g.out[s].open = h.out[s].open
    BY <1>3, <1>4, <2>1, MergedFields
  <2>3. g.st = h.st /\ g.empty = h.empty /\ g.fwd = h.fwd /\ g.eols = h.eols
    BY <2>2 DEF Kept
  <2>4. \A u \in Streams : g.out[u].open = h.out[u].open
    BY <2>2
  <2>5. \A q \in Pids : g.pid[q].n = h.pid[q].n /\ g.pid[q].seen = h.pid[q].seen
    BY <2>2
  <2>6. Book(l, g, Pend, buEols, grab[l], ledger[l], seen)
    BY <1>4, <2>2, <2>3, <2>4, <2>5, BookKept
  <2>7. Conclude(l, g)
    BY <1>6, <2>1
  <2>8. \A k \in Lumis \ {l} : Book(k, lumi[k], Pend, buEols, grab[k], ledger[k], seen)
    BY DEF Books
  <2>9. all
    BY <1>2, <1>3, <1>4, <1>6, <2>2, <2>3, <2>6, <2>7, <2>8, ConcludedBooks
  <2> QED  BY <1>1, <2>9, TakenBooks
<1>7. CASE UNCHANGED <<lumi, ledger>>
  <2>1. all
    BY <1>7, UnchangedBooks
  <2> QED  BY <1>1, <2>1, TakenBooks
<1> QED  BY <1>5, <1>6, <1>7

LEMMA TakeCrashBooks ==
  ASSUME Course, Books, TakeCrash
  PROVE  Books' /\ AllPosted
<1> DEFINE p == Event.pid
           hit == {l \in Lumis : Open(l) /\ lumi[l].pid[p].seen}
<1>1. /\ LumiTypeOK /\ Events /\ Buffered /\ Started /\ Event.kind = "crash" /\ Event.kind # "index"
      /\ queue' = Tail(queue) /\ main' = main /\ buEols' = buEols /\ grab' = grab /\ seen' = seen
  BY DEF Course, TakeCrash
<1>2. p \in Pids /\ Pend \in Seq(FileEvent)
  BY <1>1, StartedPend DEF WellFormed
<1>3. PICK raw \in [hit -> 0 .. Max["files"]] :
        CheckClosure(hit, [l \in Lumis |-> IF l \in hit THEN WithCrash(lumi[l], p, raw[l])
                                          ELSE lumi[l]])
  BY DEF TakeCrash
<1> DEFINE hs == [l \in Lumis |-> IF l \in hit THEN WithCrash(lumi[l], p, raw[l]) ELSE lumi[l]]
<1>4. raw \in [hit -> Nat] /\ hit \in SUBSET Lumis
  OBVIOUS
<1>5. hs \in [Lumis -> Handler] /\ \A l \in Lumis : Kept(hs[l], lumi[l])
  <2>1. hs = [l \in Lumis |-> IF l \in hit THEN WithCrash(lumi[l], p, raw[l]) ELSE lumi[l]]
    OBVIOUS
  <2>2. p \in Pids
    BY <1>2
  <2> HIDE DEF hs, hit, p
  <2> QED  BY ONLY Course, <1>4, <2>1, <2>2, CrashHandlers
<1>6. CheckClosure(hit, hs)
  BY <1>3
<1>7. \A l \in hit : lumi[l].st = "open"
  BY DEF Open
<1>8. \A l \in Lumis : hs[l] = IF l \in hit THEN WithCrash(lumi[l], p, raw[l]) ELSE lumi[l]
  OBVIOUS
<1> HIDE DEF hs, hit, p
<1>9. \A l \in hit : hs[l].st = "open" /\ (hs[l].eols => l \in seen)
  <2> SUFFICES ASSUME NEW l \in hit PROVE hs[l].st = "open" /\ (hs[l].eols => l \in seen)
    OBVIOUS
  <2>1. l \in Lumis /\ Kept(hs[l], lumi[l]) /\ lumi[l].st = "open"
    BY <1>4, <1>5, <1>7
  <2> QED  BY <2>1, HandlerOf DEF Kept
<1>10. \A l \in Lumis : Book(l, hs[l], Pend, buEols, grab[l], ledger[l], seen)
  <2> SUFFICES ASSUME NEW l \in Lumis
               PROVE  Book(l, hs[l], Pend, buEols, grab[l], ledger[l], seen)
    OBVIOUS
  <2>1. Book(l, lumi[l], Pend, buEols, grab[l], ledger[l], seen) /\ lumi[l] \in Handler
    BY HandlerOf DEF Books
  <2>2. CASE l \notin hit
    BY <1>8, <2>1, <2>2
  <2>3. CASE l \in hit
    <3> DEFINE g == hs[l]
               h == lumi[l]
    <3>1. g = WithCrash(h, p, raw[l]) /\ raw[l] \in Nat /\ h \in Handler
      BY <1>4, <1>8, <2>1, <2>3
    <3> HIDE DEF g, h
    <3>2. /\ Kept(g, h) /\ g.total = h.total /\ g.pid = h.pid
          /\ \A s \in Streams : g.out[s].open = h.out[s].open
      BY <1>2, <3>1, CrashFields
    <3>3. g.st = h.st /\ g.empty = h.empty /\ g.fwd = h.fwd
      BY <3>2 DEF Kept
    <3>4. \A q \in Pids : g.pid[q].n = h.pid[q].n /\ g.pid[q].seen = h.pid[q].seen
      BY <3>2
    <3>5. Book(l, h, Pend, buEols, grab[l], ledger[l], seen)
      BY <2>1 DEF h
    <3>6. Book(l, g, Pend, buEols, grab[l], ledger[l], seen)
      BY <3>2, <3>3, <3>4, <3>5, BookKept
    <3> QED  BY <3>6 DEF g
  <2> QED  BY <2>2, <2>3
<1>11. \A l \in Lumis \ hit : hs[l] = lumi[l]
  BY <1>8
<1>12. \A k \in Lumis : Book(k, lumi'[k], Pend, buEols, grab[k], ledger'[k], seen) /\ Posted(k)
  BY <1>2, <1>4, <1>5, <1>6, <1>9, <1>10, <1>11, Concluded
<1> QED  BY <1>1, <1>12, TakenBooks

\* The end of a lumisection is seen: none of its index files is left.
LEMMA TakeEoLSBooks ==
  ASSUME Course, Books, TakeEoLS
  PROVE  Books' /\ AllPosted
<1> DEFINE l == Event.ls
           h == IF Open(l) THEN lumi[l] ELSE NewHandler("eols")
           g == [h EXCEPT !.eols = TRUE]
<1>1. /\ LumiTypeOK /\ Events /\ Buffered /\ Started /\ Event.kind = "eols" /\ Event.kind # "index"
      /\ main' = main /\ buEols' = buEols /\ grab' = grab
      /\ main'.buffer = main.buffer /\ Pend \in Seq(FileEvent)
  BY DEF Course, TakeEoLS, Events
<1>2. Over(Pend, buEols, l) /\ l \in Lumis
  BY <1>1, HeadOver
<1>3. \/ queue' = Tail(queue)
      \/ \E S \in SUBSET Lumis, ql \in SUBSET Lumis : WriteEoLS(S, Tail(queue), ql)
  <2>1. queue' = Tail(queue) \/ WriteEoLS(Unended(l), Tail(queue), queued \ {l})
    BY DEF TakeEoLS, Notify
  <2>2. Unended(l) \in SUBSET Lumis /\ queued \ {l} \in SUBSET Lumis
    BY <1>1 DEF Unended, LumiTypeOK
  <2> QED  BY <2>1, <2>2
<1>4. Moved(1) /\ Pend[1] = Event
  BY <1>1, <1>3, TakenMoves
<1>5. seen' = seen \/ seen' = seen \union {l}
  BY DEF TakeEoLS
<1>6. \A k \in Lumis : Book(k, lumi[k], Pend, buEols, grab[k], ledger[k], seen')
  <2> TAKE k \in Lumis
  <2>1. Book(k, lumi[k], Pend, buEols, grab[k], ledger[k], seen)
    BY DEF Books
  <2>2. k \in seen' => k \in seen \/ Over(Pend, buEols, k)
    BY <1>2, <1>5
  <2> QED  BY <2>1, <2>2 DEF Book
<1>7. \/ UNCHANGED <<lumi, ledger>>
      \/ (Open(l) \/ lumi[l].st = "none") /\ l \in seen' /\ Conclude(l, g)
  BY DEF TakeEoLS
<1>8. h = IF Open(l) THEN lumi[l] ELSE NewHandler("eols")
  OBVIOUS
<1>9. g = [h EXCEPT !.eols = TRUE]
  OBVIOUS
<1> HIDE DEF l, h, g
<1>10. \A k \in Lumis : Book(k, lumi'[k], Pend, buEols, grab[k], ledger'[k], seen') /\ Posted(k)
  <2>1. CASE UNCHANGED <<lumi, ledger>>
    BY <1>6, <2>1 DEF Posted
  <2>2. CASE (Open(l) \/ lumi[l].st = "none") /\ l \in seen' /\ Conclude(l, g)
    <3>1. /\ h \in Handler /\ h.st = "open"
          /\ Book(l, h, Pend, buEols, grab[l], ledger[l], seen)
      BY <1>2, <1>8, <2>2, HandlerBook
    <3>2. /\ g \in Handler /\ g.st = h.st /\ g.empty = h.empty /\ g.fwd = h.fwd
          /\ g.total = h.total /\ g.pid = h.pid /\ g.out = h.out
      BY <1>9, <3>1, EolsFields
    <3>3. Book(l, h, Pend, buEols, grab[l], ledger[l], seen')
      BY <1>2, <3>1 DEF Book
    <3>4. /\ \A q \in Pids : g.pid[q].n = h.pid[q].n /\ g.pid[q].seen = h.pid[q].seen
          /\ \A u \in Streams : g.out[u].open = h.out[u].open
      BY <3>2
    <3>5. Book(l, g, Pend, buEols, grab[l], ledger[l], seen')
      BY <3>2, <3>3, <3>4, BookKept
    <3>6. \A k \in Lumis \ {l} : Book(k, lumi[k], Pend, buEols, grab[k], ledger[k], seen')
      BY <1>6
    <3>7. g.eols => l \in seen'
      BY <2>2
    <3>8. g.st = "open" /\ Conclude(l, g)
      BY <2>2, <3>1, <3>2
    <3> QED  BY <1>1, <1>2, <3>2, <3>5, <3>6, <3>7, <3>8, ConcludedBooks
  <2> QED  BY <1>7, <2>1, <2>2
<1>11. 1 = 1 => Pend[1].kind # "index"
  BY <1>1, <1>4
<1>12. buEols \subseteq buEols'
  BY <1>1
<1> QED  BY <1>1, <1>4, <1>10, <1>11, <1>12, BooksMoved DEF AllPosted

\* An index file is taken: its event is counted before any entry is written.
LEMMA TakeIndexBooks ==
  ASSUME Course, Books, TakeIndex
  PROVE  Books' /\ AllPosted
<1> DEFINE l == Event.ls
           p == Event.pid
           h == IF Open(l) THEN lumi[l] ELSE NewHandler("index")
           g == WithIndex(h, p, 1)
           c == grab[l]
           row == ledger[l]
<1>1. /\ LumiTypeOK /\ Events /\ Buffered /\ Started /\ Event.kind = "index"
      /\ main' = main /\ buEols' = buEols /\ grab' = grab /\ seen' = seen
      /\ main'.buffer = main.buffer /\ Pend \in Seq(FileEvent)
  BY DEF Course, TakeIndex, Events
<1>2. WellFormed(Event) /\ Pend[1] = Event /\ 1 \in DOMAIN Pend
  BY <1>1, StartedPend
<1>3. l \in Lumis /\ p \in Pids /\ Event.n = 1 /\ Event \in FileEvent
  BY <1>1, <1>2 DEF WellFormed
<1>4. \/ queue' = Tail(queue)
      \/ \E S \in SUBSET Lumis, ql \in SUBSET Lumis : WriteEoLS(S, Tail(queue), ql)
  <2>1. queue' = Tail(queue) \/ WriteEoLS(Unended(l), Tail(queue), queued)
    BY DEF TakeIndex
  <2>2. Unended(l) \in SUBSET Lumis /\ queued \in SUBSET Lumis
    BY <1>1 DEF Unended, LumiTypeOK
  <2> QED  BY <2>1, <2>2
<1>5. Moved(1)
  BY <1>1, <1>4, TakenMoves
<1>6. PICK X \in Seq(FileEvent) :
        Shifted(Pend, Pend', 1, X) /\ \A i \in DOMAIN X : X[i].kind # "index"
  BY <1>5 DEF Moved
<1>7. Conclude(l, g)
  BY <1>3 DEF TakeIndex
<1>8. h = IF Open(l) THEN lumi[l] ELSE NewHandler("index")
  OBVIOUS
<1>9. g = WithIndex(h, p, 1) /\ Pend[1] \in IndexFiles(l, p)
  BY <1>1, <1>2, <1>3 DEF IndexFiles
<1>10. c \in [Pids -> Nat]
  BY <1>1, <1>3 DEF LumiTypeOK
<1> HIDE DEF g, h
<1>11. Open(l) \/ lumi[l].st = "none"
  <2>1. ~Over(Pend, buEols, l)
    BY <1>1, <1>2 DEF Over
  <2>2. lumi[l].st \in {"none", "open", "closed"}
    BY <1>1, <1>3, HandlerFields DEF LumiTypeOK
  <2>3. Book(l, lumi[l], Pend, buEols, grab[l], ledger[l], seen)
    BY <1>3 DEF Books
  <2>4. lumi[l].st # "closed"
    BY <2>1, <2>3 DEF Book
  <2> QED  BY <2>2, <2>4 DEF Open
<1> HIDE DEF l, p
<1>12. /\ h \in Handler /\ h.st = "open" /\ (h.eols => l \in seen)
       /\ Book(l, h, Pend, buEols, grab[l], ledger[l], seen)
  BY <1>3, <1>8, <1>11, HandlerBook
<1>13. Book(l, g, Pend', buEols, c, row, seen)
  <2>1. Book(l, h, Pend, buEols, c, row, seen)
    BY <1>12
  <2> HIDE DEF c, row
  <2> QED  BY <1>3, <1>6, <1>9, <1>10, <1>12, <2>1, BookIndexed
<1>14. g \in Handler /\ g.st = "open" /\ (g.eols => l \in seen)
  <2>1. 1 \in Nat
    OBVIOUS
  <2>2. g \in Handler /\ g.st = h.st /\ g.eols = h.eols
    BY <1>3, <1>9, <1>12, <2>1, IndexFields
  <2> QED  BY <1>12, <2>2
<1>15. \A k \in Lumis \ {l} : Book(k, lumi[k], Pend', buEols, grab[k], ledger[k], seen)
  <2> SUFFICES ASSUME NEW k \in Lumis \ {l}
               PROVE  Book(k, lumi[k], Pend', buEols, grab[k], ledger[k], seen)
    OBVIOUS
  <2>1. Book(k, lumi[k], Pend, buEols, grab[k], ledger[k], seen)
    BY DEF Books
  <2>2. 1 = 1 => ~(Pend[1].kind = "index" /\ Pend[1].ls = k)
    BY <1>2 DEF l
  <2>3. \A i \in DOMAIN X : X[i].kind = "index" => X[i].ls # k
    BY <1>6
  <2>4. k \in seen => k \in seen \/ Over(Pend', buEols, k)
    OBVIOUS
  <2>5. buEols \subseteq buEols
    OBVIOUS
  <2> QED  BY <1>6, <2>1, <2>2, <2>3, <2>4, <2>5, BookShift
<1>16. Pend' \in Seq(FileEvent) /\ Book(l, g, Pend', buEols, grab[l], ledger[l], seen)
  BY <1>6, <1>13 DEF Shifted
<1> DEFINE Q == Pend'
<1>17. /\ Q \in Seq(FileEvent) /\ Book(l, g, Q, buEols, grab[l], ledger[l], seen)
       /\ \A k \in Lumis \ {l} : Book(k, lumi[k], Q, buEols, grab[k], ledger[k], seen)
  BY <1>15, <1>16
<1> HIDE DEF Q
<1>18. \A k \in Lumis : Book(k, lumi'[k], Q, buEols, grab[k], ledger'[k], seen) /\ Posted(k)
  BY <1>3, <1>7, <1>14, <1>17, ConcludedBooks
<1> QED  BY <1>1, <1>18 DEF Books, AllPosted, Q

-----------------------------------------------------------------------------
(* The merging thread, and a process that reads an event *)

LEMMA DqmDoneBooks ==
  ASSUME Course, Books, DqmDone
  PROVE  Books' /\ AllPosted
<1>1. /\ LumiTypeOK /\ dqm \in DqmState /\ lumi \in [Lumis -> Handler]
      /\ UNCHANGED <<queued, seen, main, ledger, grab, buEols>>
  BY DEF Course, LumiTypeOK, DqmDone
<1>2. PICK m \in dqm.cur :
        /\ lumi' = [lumi EXCEPT ![m.ls].out[m.stream] = Merged(@, dqm.counts)]
        /\ queue' = Append(queue, Ev("merged", m.ls, NoPid, m.stream, 0))
  BY DEF DqmDone
<1> DEFINE l == m.ls
           s == m.stream
           c == dqm.counts
           o == Merged(lumi[l].out[s], c)
           b == [lumi[l].out EXCEPT ![s] = o]
           h == lumi[l]
           g == [h EXCEPT !.out = b]
<1>3. l \in Lumis /\ s \in Streams
  BY <1>1 DEF DqmState, Merge
<1>4. h \in Handler /\ h.out \in [Streams -> OutFile] /\ h.out[s] \in OutFile
  BY <1>1, <1>3, HandlerFields
<1>5. o \in OutFile /\ o.open = h.out[s].open
  <2> DEFINE w == h.out[s]
  <2>1. w \in OutFile /\ c \in [proc : Nat, err : Nat]
    BY <1>1, <1>4 DEF DqmState
  <2>2. o = Merged(w, c)
    OBVIOUS
  <2> HIDE DEF o, w, c
  <2>3. o \in OutFile /\ o.open = w.open
    BY <2>1, <2>2, CountsFields
  <2> QED  BY <2>3 DEF w
<1>6. lumi' = [lumi EXCEPT ![l] = g]
  BY <1>1, <1>2, <1>3, <1>4 DEF Handler
<1> HIDE DEF o
<1>7. b \in [Streams -> OutFile] /\ \A u \in Streams : b[u].open = h.out[u].open
  BY <1>3, <1>4, <1>5
<1> HIDE DEF b
<1>8. g = [h EXCEPT !.out = b]
  OBVIOUS
<1>9. Book(l, h, Pend, buEols, grab[l], ledger[l], seen)
  BY <1>3 DEF Books
<1>10. Moved(0)
  <2>1. Ev("merged", l, NoPid, s, 0) \in FileEvent
    BY <1>3, EventsTyped
  <2>2. Ev("merged", l, NoPid, s, 0).kind # "index"
    BY DEF Ev
  <2> QED  BY <1>1, <1>2, <2>1, <2>2, AddedMoves
<1> HIDE DEF g, h, l, s
<1>11. /\ g.st = h.st /\ g.empty = h.empty /\ g.fwd = h.fwd /\ g.total = h.total
       /\ \A q \in Pids : g.pid[q].n = h.pid[q].n /\ g.pid[q].seen = h.pid[q].seen
       /\ \A u \in Streams : g.out[u].open = h.out[u].open
  <2>1. Kept(g, h) /\ g.total = h.total /\ g.pid = h.pid /\ g.out = b
    BY <1>4, <1>7, <1>8, OutFields
  <2> QED  BY <1>7, <2>1 DEF Kept
<1>12. Book(l, g, Pend, buEols, grab[l], ledger[l], seen)
  BY <1>9, <1>11, BookKept
<1>13. \A k \in Lumis : Book(k, lumi'[k], Pend, buEols, grab[k], ledger'[k], seen) /\ Posted(k)
  BY <1>1, <1>3, <1>6, <1>12, ReplacedBooks
<1>14. /\ ~(0 = 1) /\ buEols \subseteq buEols' /\ grab' = grab
       /\ \A k \in Lumis : Book(k, lumi'[k], Pend, buEols, grab[k], ledger'[k], seen')
  BY <1>1, <1>13
<1>15. Books'
  BY <1>10, <1>14, BooksMoved
<1> QED  BY <1>13, <1>15 DEF AllPosted

\* The events X appear when process p reads a raw file of lumisection l.
ReadsOne(l, p, X) ==
  /\ Shifted(Pend, Pend', 0, X)
  /\ 1 \in DOMAIN X /\ X[1] \in IndexFiles(l, p)
  /\ \A i \in DOMAIN X : X[i].kind = "index" => i = 1
  /\ \A i \in DOMAIN X : i # 1 => X[i].kind = "processing"

\* What a process does when it reads a raw file.
LEMMA GrabFacts ==
  ASSUME Course, NEW p \in Pids, Grab(p), NEW l, l = Current(p)
  PROVE  /\ l \in Lumis /\ l \notin buEols
         /\ UNCHANGED <<lumi, ledger, seen, buEols>>
         /\ Cardinality(AllFiles) < Max["files"]
         /\ grab' \in [Lumis -> [Pids -> Nat]] /\ grab \in [Lumis -> [Pids -> Nat]]
         /\ grab'[l][p] = grab[l][p] + 1
         /\ \A q \in Pids \ {p} : grab'[l][q] = grab[l][q]
         /\ \A k \in Lumis \ {l} : grab'[k] = grab[k]
         /\ \E X \in Seq(FileEvent) : ReadsOne(l, p, X)
<1> DEFINE e == Ev("index", l, p, NoStream, 1)
           f == Ev("processing", 0, NoPid, NoStream, 0)
<1>1. /\ LumiTypeOK /\ main' = main /\ UNCHANGED <<lumi, ledger, seen, buEols>>
      /\ l \in Lumis /\ l \notin buEols /\ Cardinality(AllFiles) < Max["files"]
  BY DEF Course, Grab, scriptVars
<1>2. e \in FileEvent /\ f \in FileEvent /\ queue \in Seq(FileEvent)
  BY <1>1, EventsTyped DEF LumiTypeOK
<1>3. e \in IndexFiles(l, p) /\ f.kind = "processing"
  BY <1>2 DEF IndexFiles, Ev
<1>4. \/ queue' = queue \o <<e>> \o <<f>>
      \/ queue' = queue \o <<e>> \o <<>>
  BY DEF Grab
<1> HIDE DEF e, f
<1>5. OneOrBoth(queue, queue', e, f)
  BY <1>2, <1>4, OneOrTwo
<1>6. PICK X \in Seq(FileEvent) :
        /\ queue' = queue \o X /\ 1 \in DOMAIN X
        /\ \A i \in DOMAIN X : (X[i] = e /\ i = 1) \/ (X[i] = f /\ i = 2)
  BY <1>5 DEF OneOrBoth
<1>7. Shifted(Pend, Pend', 0, X)
  BY <1>1, <1>6, AddShifts
<1>8. /\ X[1] \in IndexFiles(l, p)
      /\ \A i \in DOMAIN X : i # 1 => X[i].kind = "processing"
      /\ \A i \in DOMAIN X : X[i].kind = "index" => i = 1
  BY <1>3, <1>6
<1>9. /\ grab' \in [Lumis -> [Pids -> Nat]] /\ grab \in [Lumis -> [Pids -> Nat]]
      /\ grab'[l][p] = grab[l][p] + 1
      /\ \A q \in Pids \ {p} : grab'[l][q] = grab[l][q]
      /\ \A k \in Lumis \ {l} : grab'[k] = grab[k]
  <2>1. grab \in [Lumis -> [Pids -> Nat]]
    BY <1>1 DEF LumiTypeOK
  <2>2. grab' = [grab EXCEPT ![l][p] = @ + 1]
    BY DEF Grab
  <2> DEFINE r == [grab[l] EXCEPT ![p] = grab[l][p] + 1]
  <2>3. r \in [Pids -> Nat] /\ r[p] = grab[l][p] + 1 /\ \A q \in Pids \ {p} : r[q] = grab[l][q]
    BY <1>1, <2>1
  <2>4. grab' = [grab EXCEPT ![l] = r]
    BY <2>2
  <2> HIDE DEF r
  <2> QED  BY <1>1, <2>1, <2>3, <2>4
<1>10. ReadsOne(l, p, X)
  BY <1>6, <1>7, <1>8 DEF ReadsOne
<1> QED  BY <1>1, <1>6, <1>9, <1>10

\* No process reads more events than all may.
LEMMA GrabBounded ==
  ASSUME Course, NEW l \in Lumis, NEW p \in Pids, Cardinality(AllFiles) < Max["files"],
         grab[l][p] <= Max["files"]
  PROVE  grab[l][p] + 1 <= Max["files"]
<1> DEFINE c == grab[l]
<1>1. c \in [Pids -> Nat]
  BY DEF Course, LumiTypeOK
<1>2. FilesRead(l) = FilesOf(c)
  BY DEF FilesRead, FilesOf
<1>3. IsFiniteSet(AllFiles)
  <2>1. AllFiles \in SUBSET (Lumis \X (Pids \X (1 .. Max["files"])))
    BY DEF AllFiles, FilesRead
  <2>2. IsFiniteSet(Lumis \X (Pids \X (1 .. Max["files"])))
    <3>1. IsFiniteSet(Pids) /\ IsFiniteSet(1 .. Max["files"]) /\ IsFiniteSet(Lumis)
      BY LumiAssumption, MaxTyped, FS_Interval, LumisFinite
    <3> QED  BY <3>1, FS_Product
  <2> QED  BY <2>1, <2>2, FS_Subset
<1>4. Cardinality({l} \X FilesOf(c)) = Cardinality(FilesOf(c))
  <2>1. IsFiniteSet({l}) /\ Cardinality({l}) = 1 /\ IsFiniteSet(FilesOf(c))
        /\ Cardinality(FilesOf(c)) \in Nat
    BY FS_Singleton, FilesFinite
  <2>2. Cardinality({l} \X FilesOf(c)) = Cardinality({l}) * Cardinality(FilesOf(c))
    BY <2>1, FS_Product
  <2> QED  BY <2>1, <2>2
<1>5. {l} \X FilesOf(c) \in SUBSET AllFiles
  BY <1>2 DEF AllFiles
<1>6. Cardinality({l} \X FilesOf(c)) <= Cardinality(AllFiles)
  BY <1>3, <1>5, FS_Subset
<1>7. c[p] <= Cardinality(FilesOf(c))
  BY <1>1, FilesBound
<1>8. /\ Cardinality(FilesOf(c)) \in Nat /\ Cardinality(AllFiles) \in Nat /\ c[p] \in Nat
  BY <1>1, <1>3, FilesFinite, FS_CardinalityType
<1>9. Cardinality(AllFiles) < Max["files"]
  OBVIOUS
<1> HIDE DEF c
<1>10. c[p] + 1 <= Max["files"]
  BY <1>4, <1>6, <1>7, <1>8, <1>9, MaxTyped
<1> QED  BY <1>10 DEF c

LEMMA LeftGrown ==
  ASSUME NEW P, NEW Q, NEW X, Shifted(P, Q, 0, X), NEW l, NEW p, 1 \in DOMAIN X,
         X[1] \in IndexFiles(l, p), \A i \in DOMAIN X : X[i].kind = "index" => i = 1
  PROVE  Left(Q, l, p) = Left(P, l, p) + 1
<1> DEFINE Z == IndexFiles(l, p)
<1>1. Hits(X, Z) = {1}
  <2>1. \A i \in DOMAIN X : X[i] \in Z => i = 1
    BY DEF IndexFiles
  <2> QED  BY <2>1 DEF Hits
<1>2. Cardinality(Hits(X, Z)) = 1
  BY <1>1, FS_Singleton
<1> HIDE DEF Z
<1>3. Cardinality(Hits(Q, Z)) =
        Cardinality(Hits(P, Z)) - (IF 0 = 1 /\ P[1] \in Z THEN 1 ELSE 0) + Cardinality(Hits(X, Z))
  BY HitsShift
<1>4. Cardinality(Hits(P, Z)) \in Nat
  BY HitsFinite DEF Shifted
<1>5. Cardinality(Hits(Q, Z)) = Cardinality(Hits(P, Z)) + 1
  BY <1>2, <1>3, <1>4
<1> QED  BY <1>5 DEF Left, Z

\* An event is read: nothing has been written for its lumisection.
LEMMA BookRead ==
  ASSUME NEW P, NEW Q, NEW X, Shifted(P, Q, 0, X), NEW l, NEW p \in Pids, 1 \in DOMAIN X,
         X[1] \in IndexFiles(l, p), \A i \in DOMAIN X : X[i].kind = "index" => i = 1,
         NEW h \in Handler, NEW ended, l \notin ended, NEW c \in [Pids -> Nat],
         NEW d \in [Pids -> Nat], d[p] = c[p] + 1, \A q \in Pids \ {p} : d[q] = c[q],
         d[p] <= Max["files"], NEW row, NEW sn, Book(l, h, P, ended, c, row, sn)
  PROVE  /\ Book(l, h, Q, ended, d, row, sn)
         /\ \A s \in Streams : row[s] = Unwritten
         /\ Cardinality(FilesOf(d)) = Cardinality(FilesOf(c)) + 1
<1>1. ~Over(P, ended, l)
  BY DEF Over
<1>2. Account(h, l, P, ended, c) /\ l \notin sn /\ \A s \in Streams : row[s] = Unwritten
  BY <1>1 DEF Book
<1>3. ~(h.st = "open" /\ h.empty)
  BY <1>1, <1>2 DEF Account
<1>4. \A q \in Pids : h.pid[q].n + Left(Q, l, q) = d[q]
  <2> SUFFICES ASSUME NEW q \in Pids PROVE h.pid[q].n + Left(Q, l, q) = d[q]
    OBVIOUS
  <2>1. h.pid[q].n + Left(P, l, q) = c[q] /\ h.pid[q].n \in Nat /\ Left(P, l, q) \in Nat
    BY <1>2, HandlerFields, LeftFinite DEF Account, Shifted
  <2>2. CASE q = p
    <3>1. Left(Q, l, p) = Left(P, l, p) + 1
      BY LeftGrown
    <3> QED  BY <2>1, <2>2, <3>1
  <2>3. CASE q # p
    <3>1. \A i \in DOMAIN X : X[i] \notin IndexFiles(l, q)
      BY <2>3 DEF IndexFiles
    <3>2. ~(0 = 1 /\ P[1] \in IndexFiles(l, q))
      OBVIOUS
    <3>3. Left(Q, l, q) = Left(P, l, q)
      BY <3>1, <3>2, LeftShift
    <3> QED  BY <2>1, <2>3, <3>3
  <2> QED  BY <2>2, <2>3
<1>5. Account(h, l, Q, ended, d)
  BY <1>2, <1>3, <1>4 DEF Account
<1>6. \A q \in Pids : d[q] <= Max["files"]
  <2> TAKE q \in Pids
  <2>1. c[q] <= Max["files"]
    BY DEF Book
  <2> QED  BY <2>1
<1>7. Book(l, h, Q, ended, d, row, sn)
  BY <1>1, <1>2, <1>5, <1>6 DEF Book
<1>8. Cardinality(FilesOf(d)) = Cardinality(FilesOf(c)) + 1
  BY FileAdded
<1> QED  BY <1>2, <1>7, <1>8

LEMMA GrabBooks ==
  ASSUME Course, Books, NEW p \in Pids, Grab(p), NEW l, l = Current(p)
  PROVE  /\ Books' /\ UNCHANGED ledger /\ l \in Lumis
         /\ \A s \in Streams : ledger[l][s] = Unwritten
         /\ Cardinality(FilesOf(grab'[l])) = Cardinality(FilesOf(grab[l])) + 1
         /\ \A k \in Lumis \ {l} : grab'[k] = grab[k]
<1> DEFINE c == grab[l]
           d == grab'[l]
           P == Pend
           Q == Pend'
<1>1. /\ l \in Lumis /\ l \notin buEols /\ UNCHANGED <<lumi, ledger, seen, buEols>>
      /\ Cardinality(AllFiles) < Max["files"]
      /\ \A k \in Lumis \ {l} : grab'[k] = grab[k]
      /\ grab' \in [Lumis -> [Pids -> Nat]] /\ grab \in [Lumis -> [Pids -> Nat]]
      /\ d[p] = c[p] + 1 /\ \A q \in Pids \ {p} : d[q] = c[q]
      /\ \E X \in Seq(FileEvent) : ReadsOne(l, p, X)
  BY GrabFacts
<1>2. PICK X \in Seq(FileEvent) :
        /\ Shifted(P, Q, 0, X)
        /\ 1 \in DOMAIN X /\ X[1] \in IndexFiles(l, p)
        /\ \A i \in DOMAIN X : X[i].kind = "index" => i = 1
  BY <1>1 DEF ReadsOne
<1>3. c \in [Pids -> Nat] /\ d \in [Pids -> Nat] /\ lumi[l] \in Handler
  BY <1>1 DEF Course, LumiTypeOK
<1>4. Book(l, lumi[l], P, buEols, c, ledger[l], seen)
  BY <1>1 DEF Books
<1>5. d[p] <= Max["files"]
  <2>1. c[p] <= Max["files"]
    BY <1>4 DEF Book
  <2> QED  BY <1>1, <2>1, GrabBounded
<1>6. \A k \in Lumis \ {l} : Book(k, lumi[k], Q, buEols, grab[k], ledger[k], seen)
  <2> SUFFICES ASSUME NEW k \in Lumis \ {l}
               PROVE  Book(k, lumi[k], Q, buEols, grab[k], ledger[k], seen)
    OBVIOUS
  <2>1. Book(k, lumi[k], P, buEols, grab[k], ledger[k], seen)
    BY DEF Books
  <2>2. \A i \in DOMAIN X : X[i].kind = "index" => X[i].ls # k
    BY <1>2 DEF IndexFiles
  <2>3. 0 = 1 => ~(P[1].kind = "index" /\ P[1].ls = k)
    OBVIOUS
  <2>4. k \in seen => k \in seen \/ Over(Q, buEols, k)
    OBVIOUS
  <2>5. buEols \subseteq buEols
    OBVIOUS
  <2> HIDE DEF P, Q
  <2> QED  BY <1>2, <2>1, <2>2, <2>3, <2>4, <2>5, BookShift
<1> DEFINE h == lumi[l]
           row == ledger[l]
<1>7. /\ Book(l, h, Q, buEols, d, row, seen)
      /\ \A s \in Streams : row[s] = Unwritten
      /\ Cardinality(FilesOf(d)) = Cardinality(FilesOf(c)) + 1
  <2>1. Shifted(P, Q, 0, X)
    BY <1>2
  <2>2. 1 \in DOMAIN X /\ X[1] \in IndexFiles(l, p)
    BY <1>2
  <2>3. \A i \in DOMAIN X : X[i].kind = "index" => i = 1
    BY <1>2
  <2>4. h \in Handler
    BY <1>3
  <2>5. l \notin buEols
    BY <1>1
  <2>6. c \in [Pids -> Nat] /\ d \in [Pids -> Nat]
    BY <1>3
  <2>7. d[p] = c[p] + 1 /\ \A q \in Pids \ {p} : d[q] = c[q]
    BY <1>1
  <2>8. Book(l, h, P, buEols, c, row, seen)
    BY <1>4
  <2> HIDE DEF c, d, P, Q, h, row
  <2> QED  BY ONLY p \in Pids, <1>5, <2>1, <2>2, <2>3, <2>4, <2>5, <2>6, <2>7, <2>8, BookRead
<1>8. Books'
  <2>1. \A k \in Lumis : Book(k, lumi'[k], Q, buEols', grab'[k], ledger'[k], seen')
    BY <1>1, <1>6, <1>7
  <2> QED  BY <2>1 DEF Books
<1> QED  BY <1>1, <1>7, <1>8

-----------------------------------------------------------------------------
(* The theorem *)

LEMMA BooksBegin == Init => Books
<1> SUFFICES ASSUME Init PROVE Books
  OBVIOUS
<1>1. Pend = <<>>
  BY ConcatEmptySeq, EmptySeq DEF Init, Pend
<1>2. \A p, l : Left(Pend, l, p) = 0
  <2>1. \A p, l : Hits(Pend, IndexFiles(l, p)) = {}
    BY <1>1 DEF Hits
  <2> QED  BY <2>1, FS_EmptySet DEF Left
<1>3. \A p \in Pids : ~NoHandler.pid[p].seen /\ NoHandler.pid[p].n = 0
  <2>1. \A p \in Pids : NoHandler.pid[p] = [seen |-> FALSE, n |-> 0, merged |-> {}]
    BY NoHandlerTyped
  <2> QED  BY <2>1
<1> SUFFICES ASSUME NEW l \in Lumis
             PROVE  Book(l, lumi[l], Pend, buEols, grab[l], ledger[l], seen)
  BY DEF Books
<1>4. /\ lumi[l] = NoHandler /\ seen = {} /\ \A p \in Pids : grab[l][p] = 0
      /\ \A s \in Streams : ledger[l][s] = Unwritten
  BY DEF Init
<1>5. NoHandler.st = "none"
  BY NoHandlerTyped
<1>6. Account(lumi[l], l, Pend, buEols, grab[l])
  BY <1>2, <1>3, <1>4, <1>5 DEF Account
<1>7. Entered(lumi[l], ledger[l])
  BY <1>4, <1>5 DEF Entered
<1> QED  BY <1>4, <1>5, <1>6, <1>7, MaxTyped DEF Book

\* What a step may do with the accounts: see LumiLedger.
LEMMA BooksGoOn ==
  ASSUME Course, Books, [Next]_lumiVars
  PROVE  /\ Books'
         /\ \/ AllPosted /\ grab' = grab
            \/ \E p \in Pids : Grab(p)
<1>1. CASE MainLoop
  <2>1. grab' = grab
    BY <1>1 DEF MainLoop, BufferIndex, FlushBuffer, DropEarly, TakeIndex, TakeEoLS, TakeJson,
       TakeBad, TakeCrash, TakeMerged, TakeProcessing, TakeComplete, Idle, Finish
  <2> QED  BY <1>1, <2>1, BeforeStartBooks, DropEarlyBooks, TakeIndexBooks, TakeEoLSBooks,
              TakeJsonBooks, TakeBadBooks, TakeCrashBooks, TakeMergedBooks, TakeOtherBooks,
              QuietBooks DEF MainLoop
<1>2. CASE DqmMerger
  <2>1. grab' = grab
    BY <1>2 DEF DqmMerger, DqmTake, DqmDone
  <2> QED  BY <1>2, <2>1, QuietBooks, DqmDoneBooks DEF DqmMerger
<1>3. CASE Outside
  <2>1. CASE \E l \in Lumis : BuEnds(l)
    <3>1. grab' = grab
      BY <2>1 DEF BuEnds
    <3> QED  BY <2>1, <3>1, QuietBooks
  <2>2. ASSUME NEW p \in Pids,
               \/ Begin(p) \/ Leave(p) \/ Die(p) \/ ReportCrash(p) \/ (\E s \in Streams : Output(p, s))
        PROVE  Books' /\ AllPosted /\ grab' = grab
    <3>1. grab' = grab
      BY <2>2 DEF Begin, Leave, Die, ReportCrash, Output
    <3> QED  BY <2>2, <3>1, ProcessBooks
  <2>3. ASSUME NEW p \in Pids, Grab(p) PROVE Books'
    BY <2>3, GrabBooks
  <2>4. CASE RunComplete \/ RunAborted
    <3>1. grab' = grab
      BY <2>4 DEF RunComplete, RunAborted
    <3> QED  BY <2>4, <3>1, RunOverBooks
  <2> QED  BY <1>3, <2>1, <2>2, <2>3, <2>4 DEF Outside
<1>4. CASE UNCHANGED lumiVars
  <2>1. main' = main /\ queue' = queue /\ grab' = grab /\ buEols \subseteq buEols'
        /\ UNCHANGED <<lumi, ledger, grab, seen>>
    BY <1>4 DEF lumiVars
  <2>2. Moved(0)
    BY <2>1, AddedMoves
  <2> QED  BY <2>1, <2>2, NothingTaken
<1> QED  BY <1>1, <1>2, <1>3, <1>4 DEF Next

Accounts == Course /\ Books

LEMMA AccountsHold == Spec => []Accounts
<1>1. Init => Accounts
  BY CourseBegins, BooksBegin DEF Accounts
<1>2. Accounts /\ [Next]_lumiVars => Accounts'
  BY CourseGoesOn, BooksGoOn DEF Accounts
<1> QED  BY <1>1, <1>2, PTL DEF Spec

LEMMA FilesReadOf == \A l : FilesRead(l) = FilesOf(grab[l])
BY DEF FilesRead, FilesOf

\* At the beginning nothing has been read.
LEMMA LedgerBegins == Init => Ledger!LedgerInit
<1> SUFFICES ASSUME Init PROVE Ledger!LedgerInit
  OBVIOUS
<1>1. \A l \in Lumis : EventsRead(l) = 0
  <2> SUFFICES ASSUME NEW l \in Lumis PROVE EventsRead(l) = 0
    OBVIOUS
  <2>1. \A p \in Pids : grab[l][p] = 0
    BY DEF Init
  <2>2. FilesOf(grab[l]) = {}
    BY <2>1, MaxTyped DEF FilesOf
  <2> QED  BY <2>2, FilesReadOf, FS_EmptySet DEF EventsRead
<1>2. ReadSoFar = [l \in Lumis |-> 0]
  BY <1>1 DEF ReadSoFar
<1> QED  BY <1>2 DEF Init, Ledger!LedgerInit

LEMMA LedgerGoesOn ==
  ASSUME Accounts, Accounts', [Next]_lumiVars
  PROVE  [Ledger!LedgerNext]_<<ReadSoFar, ledger>>
<1>1. Course /\ Books /\ Course'
  BY DEF Accounts
<1>2. CASE AllPosted /\ grab' = grab
  <2>1. ReadSoFar' = ReadSoFar
    BY <1>2 DEF ReadSoFar, EventsRead, FilesRead
  <2>2. ledger' \in [Lumis -> [Streams -> [proc : Nat, err : Nat] \union {Unwritten}]]
    BY <1>1 DEF Course, LumiTypeOK
  <2>3. \A l \in Lumis : ReadSoFar[l] = Cardinality(FilesOf(grab[l]))
    BY FilesReadOf DEF ReadSoFar, EventsRead
  <2>4. \A l \in Lumis, s \in Streams : ledger'[l][s] # ledger[l][s] =>
          /\ ledger[l][s] = Unwritten
          /\ ledger'[l][s].proc + ledger'[l][s].err = ReadSoFar[l]
    BY <1>2, <2>3 DEF AllPosted, Posted
  <2> HIDE DEF ReadSoFar
  <2> QED  BY <2>1, <2>2, <2>4 DEF Ledger!LedgerNext, Ledger!Settle
<1>3. ASSUME NEW p \in Pids, Grab(p)
      PROVE  \E l \in Lumis : Ledger!Read(l)
  <2> DEFINE l == Current(p)
  <2>1. /\ UNCHANGED ledger /\ l \in Lumis
        /\ \A s \in Streams : ledger[l][s] = Unwritten
        /\ Cardinality(FilesOf(grab'[l])) = Cardinality(FilesOf(grab[l])) + 1
        /\ \A k \in Lumis \ {l} : grab'[k] = grab[k]
    BY <1>1, <1>3, GrabBooks
  <2>2. \A k \in Lumis : ReadSoFar[k] = Cardinality(FilesOf(grab[k]))
    BY FilesReadOf DEF ReadSoFar, EventsRead
  <2>3. \A k \in Lumis : (ReadSoFar')[k] = Cardinality(FilesOf(grab'[k]))
    BY DEF ReadSoFar, EventsRead, FilesRead, FilesOf
  <2>4. DOMAIN ReadSoFar = Lumis /\ ReadSoFar = [k \in DOMAIN ReadSoFar |-> ReadSoFar[k]]
        /\ DOMAIN (ReadSoFar') = Lumis /\ ReadSoFar' = [k \in DOMAIN (ReadSoFar') |-> (ReadSoFar')[k]]
    BY DEF ReadSoFar
  <2> DEFINE r == ReadSoFar
             r1 == ReadSoFar'
  <2> HIDE DEF l, r, r1
  <2>5. r1 = [r EXCEPT ![l] = @ + 1]
    BY <2>1, <2>2, <2>3, <2>4 DEF r, r1
  <2>6. ReadSoFar' = [ReadSoFar EXCEPT ![l] = @ + 1]
    BY <2>5 DEF r, r1
  <2>7. Ledger!Read(l)
    BY <2>1, <2>6 DEF Ledger!Read
  <2> QED  BY <2>1, <2>7
<1>4. \/ AllPosted /\ grab' = grab
      \/ \E p \in Pids : Grab(p)
  BY <1>1, BooksGoOn
<1> QED  BY <1>2, <1>3, <1>4 DEF Ledger!LedgerNext

\* Whatever the files of a run are and whichever processes crash, the stream
\* files that anelastic.py moves to the output directory (checkClosure,
\* writeoutError) are written once for each lumisection and stream, when no event
\* of the lumisection is read any more, and processed and lost events together
\* are all those that were read.
THEOREM LedgerKept == Spec => ImplementsLedger
<1>1. Init => Ledger!LedgerInit
  BY LedgerBegins
<1>2. Accounts /\ Accounts' /\ [Next]_lumiVars => [Ledger!LedgerNext]_(Ledger!ledgerVars)
  BY LedgerGoesOn DEF Ledger!ledgerVars
<1> QED  BY <1>1, <1>2, AccountsHold, PTL DEF Spec, ImplementsLedger, Ledger!LedgerSpec
=============================================================================
