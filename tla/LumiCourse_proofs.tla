--------------------------- MODULE LumiCourse_proofs ---------------------------
(***************************************************************************)
(* The course of the events of the anelastic script, from the files that   *)
(* are written to the main loop that takes them: the theorems that the     *)
(* types hold, that queuedLumiList is the set of lumisections whose EoLS   *)
(* event is waiting, and that nothing of a lumisection is read any more    *)
(* when its end is taken, for all lumisections, processes, streams and     *)
(* bounds.                                                                 *)
(***************************************************************************)
EXTENDS LumiSections, FiniteSetTheorems, SequenceTheorems, TLAPS

-----------------------------------------------------------------------------
(* Sequences *)

\* Q is P without its first k elements, followed by X.
Shifted(P, Q, k, X) ==
  /\ P \in Seq(FileEvent) /\ Q \in Seq(FileEvent) /\ X \in Seq(FileEvent)
  /\ k \in {0, 1} /\ k <= Len(P)
  /\ Len(Q) = Len(P) - k + Len(X)
  /\ \A j \in 1 .. Len(P) - k : Q[j] = P[j + k]
  /\ \A j \in 1 .. Len(X) : Q[Len(P) - k + j] = X[j]

LEMMA NothingShifted ==
  ASSUME NEW P \in Seq(FileEvent)
  PROVE  Shifted(P, P, 0, <<>>)
BY DEF Shifted

LEMMA AppendShifts ==
  ASSUME NEW P \in Seq(FileEvent), NEW X \in Seq(FileEvent)
  PROVE  Shifted(P, P \o X, 0, X)
BY ConcatProperties DEF Shifted

LEMMA TailShifts ==
  ASSUME NEW P \in Seq(FileEvent), NEW X \in Seq(FileEvent), P # <<>>
  PROVE  Shifted(P, Tail(P) \o X, 1, X)
<1>1. /\ Tail(P) \in Seq(FileEvent) /\ Len(Tail(P)) = Len(P) - 1
      /\ \A j \in 1 .. Len(P) - 1 : Tail(P)[j] = P[j + 1]
  BY HeadTailProperties
<1>2. Len(P) \in Nat /\ Len(X) \in Nat /\ Len(P) > 0
  BY EmptySeq, LenProperties
<1>3. /\ Tail(P) \o X \in Seq(FileEvent) /\ Len(Tail(P) \o X) = Len(P) - 1 + Len(X)
      /\ \A i \in 1 .. Len(P) - 1 + Len(X) : (Tail(P) \o X)[i] =
           IF i <= Len(P) - 1 THEN Tail(P)[i] ELSE X[i - (Len(P) - 1)]
  BY <1>1, ConcatProperties
<1> QED  BY <1>1, <1>2, <1>3 DEF Shifted

\* Where an event comes from, and where it goes.
LEMMA ShiftedFrom ==
  ASSUME NEW P, NEW Q, NEW k, NEW X, Shifted(P, Q, k, X)
  PROVE  \A j \in DOMAIN Q :
           \/ j + k \in DOMAIN P /\ Q[j] = P[j + k] /\ j <= Len(P) - k
           \/ /\ j > Len(P) - k /\ j - (Len(P) - k) \in DOMAIN X
              /\ Q[j] = X[j - (Len(P) - k)]
<1>1. /\ DOMAIN P = 1 .. Len(P) /\ DOMAIN Q = 1 .. Len(Q) /\ DOMAIN X = 1 .. Len(X)
      /\ Len(P) \in Nat /\ Len(Q) \in Nat /\ Len(X) \in Nat
  BY LenProperties DEF Shifted
<1> SUFFICES ASSUME NEW j \in 1 .. Len(Q)
             PROVE  \/ j + k \in 1 .. Len(P) /\ Q[j] = P[j + k] /\ j <= Len(P) - k
                    \/ /\ j > Len(P) - k /\ j - (Len(P) - k) \in 1 .. Len(X)
                       /\ Q[j] = X[j - (Len(P) - k)]
  BY <1>1
<1>2. CASE j <= Len(P) - k
  BY <1>1, <1>2 DEF Shifted
<1>3. CASE j > Len(P) - k
  <2>1. j - (Len(P) - k) \in 1 .. Len(X)
    BY <1>1, <1>3 DEF Shifted
  <2>2. Q[Len(P) - k + (j - (Len(P) - k))] = X[j - (Len(P) - k)]
    BY <2>1 DEF Shifted
  <2>3. Len(P) - k + (j - (Len(P) - k)) = j
    BY <1>1 DEF Shifted
  <2> QED  BY <1>3, <2>1, <2>2, <2>3
<1> QED  BY <1>1, <1>2, <1>3 DEF Shifted

LEMMA ShiftedTo ==
  ASSUME NEW P, NEW Q, NEW k, NEW X, Shifted(P, Q, k, X)
  PROVE  /\ \A i \in DOMAIN P : i > k => i - k \in DOMAIN Q /\ Q[i - k] = P[i]
         /\ \A i \in DOMAIN X : Len(P) - k + i \in DOMAIN Q /\ Q[Len(P) - k + i] = X[i]
<1>1. /\ DOMAIN P = 1 .. Len(P) /\ DOMAIN Q = 1 .. Len(Q) /\ DOMAIN X = 1 .. Len(X)
      /\ Len(P) \in Nat /\ Len(Q) \in Nat /\ Len(X) \in Nat
  BY LenProperties DEF Shifted
<1>2. \A i \in 1 .. Len(P) : i > k => i - k \in 1 .. Len(Q) /\ Q[i - k] = P[i]
  <2> SUFFICES ASSUME NEW i \in 1 .. Len(P), i > k
               PROVE  i - k \in 1 .. Len(Q) /\ Q[i - k] = P[i]
    OBVIOUS
  <2>1. i - k \in 1 .. Len(P) - k /\ (i - k) + k = i
    BY <1>1 DEF Shifted
  <2> QED  BY <1>1, <2>1 DEF Shifted
<1>3. \A i \in 1 .. Len(X) : Len(P) - k + i \in 1 .. Len(Q) /\ Q[Len(P) - k + i] = X[i]
  <2>1. k \in {0, 1} /\ k <= Len(P) /\ Len(Q) = Len(P) - k + Len(X)
    BY DEF Shifted
  <2>2. \A i \in 1 .. Len(X) : Len(P) - k + i \in 1 .. Len(Q)
    BY ONLY <1>1, <2>1
  <2>3. \A i \in 1 .. Len(X) : Q[Len(P) - k + i] = X[i]
    BY DEF Shifted
  <2> QED  BY <2>2, <2>3
<1> QED  BY <1>1, <1>2, <1>3

LEMMA EventsAssociate ==
  ASSUME NEW r \in Seq(FileEvent), NEW t \in Seq(FileEvent), NEW u \in Seq(FileEvent)
  PROVE  (r \o t) \o u = r \o (t \o u)
<1>1. \A x, y, z \in Seq(FileEvent) : (x \o y) \o z = x \o (y \o z)
  BY ConcatAssociative, SMTT(60)
<1> QED  BY <1>1, Zenon

-----------------------------------------------------------------------------
(* Events *)

LEMMA EventsTyped ==
  /\ \A l \in Lumis : EoLS(l) \in FileEvent
  /\ \A l \in Lumis, p \in Pids : Ev("index", l, p, NoStream, 1) \in FileEvent
  /\ \A l \in Lumis, p \in Pids, s \in Streams, n \in Nat :
       Ev("json", l, p, s, n) \in FileEvent /\ Ev("bad", l, p, s, n) \in FileEvent
  /\ \A p \in Pids : Ev("crash", 0, p, NoStream, 0) \in FileEvent
  /\ \A l \in Lumis, s \in Streams : Ev("merged", l, NoPid, s, 0) \in FileEvent
  /\ Ev("processing", 0, NoPid, NoStream, 0) \in FileEvent
  /\ Ev("complete", 0, NoPid, NoStream, 0) \in FileEvent
  /\ Ev("abort", 0, NoPid, NoStream, 0) \in FileEvent
BY DEF EoLS, Ev, FileEvent, Kinds

LEMMA LumisFinite ==
  Lumis \subseteq Nat \ {0} /\ IsFiniteSet(Lumis) /\ \A S \in SUBSET Lumis : IsFiniteSet(S)
<1>1. NLumis \in Nat
  BY LumiAssumption
<1>2. IsFiniteSet(1 .. NLumis)
  BY <1>1, FS_Interval
<1>3. \A S \in SUBSET Lumis : IsFiniteSet(S)
  BY <1>2, FS_Subset DEF Lumis
<1> QED  BY <1>1, <1>2, <1>3 DEF Lumis

LEMMA OrderComplete ==
  ASSUME NEW T, IsFiniteSet(T), NEW f \in [1 .. Cardinality(T) -> T],
         \A i, j \in DOMAIN f : f[i] = f[j] => i = j
  PROVE  \A x \in T : \E i \in 1 .. Cardinality(T) : f[i] = x
<1>1. Cardinality(T) \in Nat
  BY FS_CardinalityType
<1>2. f \in Injection(1 .. Cardinality(T), T)
  BY DEF Injection, IsInjective
<1>3. Cardinality(1 .. Cardinality(T)) = Cardinality(T)
  BY <1>1, FS_Interval
<1>4. f \in Surjection(1 .. Cardinality(T), T)
  BY <1>2, <1>3, FS_Injection
<1> QED  BY <1>4 DEF Surjection

\* X are the EoLS events of S, once each.
EndsOf(X, S) ==
  /\ X \in Seq(FileEvent)
  /\ \A i \in DOMAIN X : \E l \in S : X[i] = EoLS(l)
  /\ \A l \in S : \E i \in DOMAIN X : X[i] = EoLS(l)
  /\ \A i, j \in DOMAIN X : X[i] = X[j] => i = j

LEMMA EoLSFields ==
  ASSUME NEW l
  PROVE  EoLS(l).kind = "eols" /\ EoLS(l).ls = l
BY DEF EoLS, Ev

LEMMA WritesEnds ==
  ASSUME NEW S \in SUBSET Lumis, NEW q, NEW ql, WriteEoLS(S, q, ql)
  PROVE  /\ \E X : EndsOf(X, S \ ql) /\ queue' = q \o X
         /\ queued' = ql \union S /\ eols' = eols \union S
<1> DEFINE new == S \ ql
           n == Cardinality(new)
<1>1. PICK f \in LumiOrders(new) : queue' = q \o [i \in 1 .. n |-> EoLS(f[i])]
  BY DEF WriteEoLS
<1> DEFINE X == [i \in 1 .. n |-> EoLS(f[i])]
<1>2. IsFiniteSet(new) /\ n \in Nat
  BY LumisFinite, FS_CardinalityType
<1>3. f \in [1 .. n -> new] /\ \A i, j \in 1 .. n : f[i] = f[j] => i = j
  BY DEF LumiOrders
<1>4. \A x \in new : \E i \in 1 .. n : f[i] = x
  <2> HIDE DEF new
  <2> QED  BY <1>2, <1>3, OrderComplete
<1>5. X \in Seq(FileEvent)
  <2>1. \A i \in 1 .. n : EoLS(f[i]) \in FileEvent
    BY <1>3, EventsTyped
  <2> HIDE DEF n
  <2> QED  BY <1>2, <2>1
<1>6. DOMAIN X = 1 .. n /\ \A i \in 1 .. n : X[i] = EoLS(f[i])
  OBVIOUS
<1> HIDE DEF X, n
<1>7. EndsOf(X, new)
  <2>1. \A i, j \in DOMAIN X : X[i] = X[j] => i = j
    <3> SUFFICES ASSUME NEW i \in 1 .. n, NEW j \in 1 .. n, X[i] = X[j] PROVE i = j
      BY <1>6
    <3>1. f[i] = f[j]
      BY <1>6, EoLSFields
    <3> QED  BY <3>1, <1>3
  <2>2. \A i \in DOMAIN X : \E l \in new : X[i] = EoLS(l)
    BY <1>3, <1>6
  <2>3. \A l \in new : \E i \in DOMAIN X : X[i] = EoLS(l)
    BY <1>4, <1>6
  <2> QED  BY <1>5, <2>1, <2>2, <2>3 DEF EndsOf
<1>8. queue' = q \o X
  BY <1>1 DEF X, n
<1>9. queued' = ql \union S /\ eols' = eols \union S
  BY DEF WriteEoLS
<1> QED  BY <1>7, <1>8, <1>9

-----------------------------------------------------------------------------
(* The operations on a handler *)

LEMMA HandlerFields ==
  ASSUME NEW h \in Handler
  PROVE  /\ h.total \in Nat /\ h.raw \in Nat /\ h.fwd \in SUBSET Streams
         /\ h.empty \in BOOLEAN /\ h.eols \in BOOLEAN
         /\ h.st \in {"none", "open", "closed"}
         /\ h.pid \in [Pids -> PidEntry] /\ h.out \in [Streams -> OutFile]
         /\ \A p \in Pids : /\ h.pid[p].seen \in BOOLEAN /\ h.pid[p].n \in Nat
                            /\ h.pid[p].merged \in SUBSET Streams
         /\ \A s \in Streams : /\ h.out[s].open \in BOOLEAN /\ h.out[s].proc \in Nat
                               /\ h.out[s].err \in Nat /\ h.out[s].pb \in BOOLEAN
                               /\ h.out[s].stage \in 0 .. 2
<1>1. h.pid \in [Pids -> PidEntry] /\ h.out \in [Streams -> OutFile]
  BY DEF Handler
<1>2. /\ h.total \in Nat /\ h.raw \in Nat /\ h.fwd \in SUBSET Streams
      /\ h.empty \in BOOLEAN /\ h.eols \in BOOLEAN
      /\ h.st \in {"none", "open", "closed"}
  BY DEF Handler
<1>3. \A p \in Pids : h.pid[p] \in PidEntry
  BY <1>1
<1>4. \A s \in Streams : h.out[s] \in OutFile
  BY <1>1
<1>5. \A e \in PidEntry : e.seen \in BOOLEAN /\ e.n \in Nat /\ e.merged \in SUBSET Streams
  BY DEF PidEntry
<1>6. \A o \in OutFile : /\ o.open \in BOOLEAN /\ o.proc \in Nat /\ o.err \in Nat
                         /\ o.pb \in BOOLEAN /\ o.stage \in 0 .. 2
  BY DEF OutFile
<1> QED  BY <1>1, <1>2, <1>3, <1>4, <1>5, <1>6

LEMMA NoHandlerTyped ==
  /\ NoHandler \in Handler /\ Closed \in Handler
  /\ NoHandler.st = "none" /\ ~NoHandler.eols /\ NoHandler.total = 0 /\ NoHandler.raw = 0
  /\ Closed.st = "closed" /\ ~Closed.eols /\ Closed.pid = NoHandler.pid /\ Closed.out = NoHandler.out
  /\ NoHandler.fwd = {}
  /\ NoHandler.pid = [p \in Pids |-> [seen |-> FALSE, n |-> 0, merged |-> {}]]
  /\ NoHandler.out = [s \in Streams |->
       [open |-> TRUE, proc |-> 0, err |-> 0, pb |-> FALSE, stage |-> 0]]
<1>1. [p \in Pids |-> [seen |-> FALSE, n |-> 0, merged |-> {}]] \in [Pids -> PidEntry]
  BY DEF PidEntry
<1>2. [s \in Streams |-> [open |-> TRUE, proc |-> 0, err |-> 0, pb |-> FALSE, stage |-> 0]]
        \in [Streams -> OutFile]
  BY DEF OutFile
<1> QED  BY <1>1, <1>2 DEF Handler, NoHandler, Closed

LEMMA NewFields ==
  ASSUME NEW kind, NEW h, h = NewHandler(kind)
  PROVE  /\ h \in Handler /\ h.st = "open" /\ h.empty = (kind # "index") /\ ~h.eols
         /\ h.total = 0 /\ h.raw = 0 /\ h.fwd = {}
         /\ h.pid = NoHandler.pid /\ h.out = NoHandler.out
<1>1. (kind # "index") \in BOOLEAN
  OBVIOUS
<1> QED  BY <1>1, NoHandlerTyped DEF Handler, NoHandler, NewHandler

\* What the files of processes leave alone.
Kept(g, h) == g.st = h.st /\ g.empty = h.empty /\ g.eols = h.eols /\ g.fwd = h.fwd

LEMMA IndexFields ==
  ASSUME NEW h \in Handler, NEW p \in Pids, NEW n \in Nat, NEW g, g = WithIndex(h, p, n)
  PROVE  /\ g \in Handler /\ g.total = h.total + n
         /\ g.pid[p].seen /\ g.pid[p].n = h.pid[p].n + n /\ g.pid[p].merged = h.pid[p].merged
         /\ \A q \in Pids \ {p} : g.pid[q] = h.pid[q]
         /\ g.st = h.st /\ g.empty = h.empty /\ g.eols = h.eols
         /\ g.raw = h.raw /\ g.fwd = h.fwd /\ g.out = h.out
<1>1. h.pid \in [Pids -> PidEntry] /\ h.total \in Nat /\ DOMAIN h.pid = Pids
  BY DEF Handler
<1> DEFINE e == h.pid[p]
           f == [e EXCEPT !.seen = TRUE, !.n = @ + n]
<1>2. e \in PidEntry
  BY <1>1
<1>3. f \in PidEntry /\ f.seen = TRUE /\ f.n = e.n + n /\ f.merged = e.merged
  <2>1. e.n + n \in Nat
    BY <1>2 DEF PidEntry
  <2>2. \A x \in PidEntry, m \in Nat : [x EXCEPT !.seen = TRUE, !.n = m] \in PidEntry
    BY DEF PidEntry
  <2>3. \A x \in PidEntry, m \in Nat : /\ [x EXCEPT !.seen = TRUE, !.n = m].seen = TRUE
                                       /\ [x EXCEPT !.seen = TRUE, !.n = m].n = m
                                       /\ [x EXCEPT !.seen = TRUE, !.n = m].merged = x.merged
    BY DEF PidEntry
  <2>4. f = [e EXCEPT !.seen = TRUE, !.n = e.n + n]
    OBVIOUS
  <2> HIDE DEF f, e
  <2> QED  BY <1>2, <2>1, <2>2, <2>3, <2>4
<1>4. g = [h EXCEPT !.total = @ + n, !.pid = [h.pid EXCEPT ![p] = f]]
  BY <1>1 DEF Handler, WithIndex
<1>5. [h.pid EXCEPT ![p] = f] \in [Pids -> PidEntry]
  BY <1>1, <1>3
<1> HIDE DEF f, e
<1>7. h.total + n \in Nat
  BY <1>1
<1>8. g \in Handler
  BY <1>4, <1>5, <1>7 DEF Handler
<1>9. /\ g.total = h.total + n /\ g.pid = [h.pid EXCEPT ![p] = f]
      /\ g.st = h.st /\ g.empty = h.empty /\ g.eols = h.eols
      /\ g.raw = h.raw /\ g.fwd = h.fwd /\ g.out = h.out
  BY <1>4 DEF Handler
<1> QED  BY <1>1, <1>3, <1>8, <1>9 DEF e

LEMMA JsonFields ==
  ASSUME NEW h \in Handler, NEW p \in Pids, NEW s \in Streams, NEW n \in Nat,
         NEW g, g = WithJson(h, p, s, n)
  PROVE  /\ g \in Handler /\ Kept(g, h) /\ g.total = h.total /\ g.raw = h.raw
         /\ g.pid[p].seen = h.pid[p].seen /\ g.pid[p].n = h.pid[p].n
         /\ g.pid[p].merged = h.pid[p].merged \union {s}
         /\ \A q \in Pids \ {p} : g.pid[q] = h.pid[q]
         /\ \A u \in Streams \ {s} : g.out[u] = h.out[u]
         /\ g.out[s].open = h.out[s].open /\ g.out[s].err = h.out[s].err
         /\ g.out[s].stage = h.out[s].stage
         /\ g.out[s].proc = IF h.out[s].open THEN h.out[s].proc + n ELSE h.out[s].proc
         /\ g.out[s].pb => h.out[s].pb \/ s \in DqmStreams
<1>1. /\ h.pid \in [Pids -> PidEntry] /\ h.out \in [Streams -> OutFile]
      /\ DOMAIN h.pid = Pids /\ DOMAIN h.out = Streams
      /\ h.total \in Nat /\ h.raw \in Nat
  BY DEF Handler
<1> DEFINE e == h.pid[p]
           f == [e EXCEPT !.merged = @ \union {s}]
           o == h.out[s]
           w == [o EXCEPT !.proc = @ + n, !.pb = @ \/ s \in DqmStreams]
           a == [h.pid EXCEPT ![p] = f]
           b == IF o.open THEN [h.out EXCEPT ![s] = w] ELSE h.out
<1>2. e \in PidEntry /\ o \in OutFile
  BY <1>1
<1>3. f \in PidEntry /\ f.seen = e.seen /\ f.n = e.n /\ f.merged = e.merged \union {s}
  <2> HIDE DEF e
  <2> QED  BY <1>2 DEF PidEntry
<1>4. /\ w \in OutFile /\ w.open = o.open /\ w.err = o.err /\ w.stage = o.stage
      /\ w.proc = o.proc + n
      /\ w.pb => o.pb \/ s \in DqmStreams
  <2>1. o.proc + n \in Nat
    BY <1>2 DEF OutFile
  <2> DEFINE m == o.proc + n
             c == o.pb \/ s \in DqmStreams
  <2>4. c \in BOOLEAN
    OBVIOUS
  <2>5. w = [o EXCEPT !.proc = m, !.pb = c]
    OBVIOUS
  <2>6. m = o.proc + n /\ (c => o.pb \/ s \in DqmStreams)
    OBVIOUS
  <2> HIDE DEF w, o, m, c
  <2>7. w \in OutFile
    BY <1>2, <2>1, <2>4, <2>5, <2>6 DEF OutFile
  <2>8. w.open = o.open /\ w.err = o.err /\ w.stage = o.stage /\ w.proc = m /\ w.pb = c
    BY <1>2, <2>5 DEF OutFile
  <2> QED  BY <2>6, <2>7, <2>8
<1>5. a \in [Pids -> PidEntry]
  BY <1>1, <1>3
<1>6. b \in [Streams -> OutFile]
  BY <1>1, <1>4
<1>7. g = [h EXCEPT !.pid = a, !.out = b, !.total = h.total, !.raw = h.raw]
  BY <1>1, ZenonT(60) DEF Handler, WithJson
<1>8. a[p] = f /\ \A q \in Pids \ {p} : a[q] = h.pid[q]
  BY <1>1
<1>9. /\ b[s] = IF o.open THEN w ELSE o
      /\ \A u \in Streams \ {s} : b[u] = h.out[u]
  BY <1>1
<1> HIDE DEF f, w, a, b
<1>10. /\ g \in Handler /\ Kept(g, h)
       /\ g.pid = a /\ g.out = b /\ g.total = h.total /\ g.raw = h.raw
  <2>1. g \in Handler
    BY <1>1, <1>5, <1>6, <1>7 DEF Handler
  <2>2. Kept(g, h)
    BY <1>1, <1>5, <1>6, <1>7 DEF Handler, Kept
  <2>3. g.pid = a /\ g.out = b /\ g.total = h.total /\ g.raw = h.raw
    BY <1>1, <1>5, <1>6, <1>7 DEF Handler
  <2> QED  BY <2>1, <2>2, <2>3
<1> QED  BY <1>3, <1>4, <1>8, <1>9, <1>10

LEMMA BadFields ==
  ASSUME NEW h \in Handler, NEW p \in Pids, NEW s \in Streams, NEW g, g = WithBad(h, p, s)
  PROVE  /\ g \in Handler /\ Kept(g, h) /\ g.total = h.total /\ g.raw = h.raw
         /\ g.pid = h.pid
         /\ \A u \in Streams \ {s} : g.out[u] = h.out[u]
         /\ g.out[s].open = h.out[s].open /\ g.out[s].proc = h.out[s].proc
         /\ g.out[s].stage = h.out[s].stage /\ g.out[s].pb = h.out[s].pb
         /\ g.out[s].err = h.out[s].err + h.pid[p].n
<1>1. /\ h.pid \in [Pids -> PidEntry] /\ h.out \in [Streams -> OutFile]
      /\ DOMAIN h.out = Streams /\ h.total \in Nat /\ h.raw \in Nat
  BY DEF Handler
<1> DEFINE n == h.pid[p].n
           o == h.out[s]
           w == [o EXCEPT !.err = @ + n]
           b == [h.out EXCEPT ![s] = w]
<1>2. n \in Nat /\ o \in OutFile
  BY <1>1, HandlerFields
<1>3. /\ w \in OutFile /\ w.open = o.open /\ w.proc = o.proc /\ w.stage = o.stage
      /\ w.err = o.err + n /\ w.pb = o.pb
  <2> HIDE DEF n, o
  <2> QED  BY <1>2 DEF OutFile
<1>4. b \in [Streams -> OutFile]
  BY <1>1, <1>3
<1>5. g = [h EXCEPT !.pid = h.pid, !.out = b, !.total = h.total, !.raw = h.raw]
  BY <1>1 DEF Handler, WithBad
<1>6. b[s] = w /\ \A u \in Streams \ {s} : b[u] = h.out[u]
  BY <1>1
<1> HIDE DEF w, b
<1>7. /\ g \in Handler /\ Kept(g, h)
      /\ g.pid = h.pid /\ g.out = b /\ g.total = h.total /\ g.raw = h.raw
  <2>1. g \in Handler
    BY <1>1, <1>4, <1>5 DEF Handler
  <2>2. Kept(g, h)
    BY <1>1, <1>4, <1>5 DEF Handler, Kept
  <2>3. g.pid = h.pid /\ g.out = b /\ g.total = h.total /\ g.raw = h.raw
    BY <1>1, <1>4, <1>5 DEF Handler
  <2> QED  BY <2>1, <2>2, <2>3
<1> QED  BY <1>3, <1>6, <1>7

LEMMA CrashFields ==
  ASSUME NEW h \in Handler, NEW p \in Pids, NEW raw \in Nat, NEW g, g = WithCrash(h, p, raw)
  PROVE  /\ g \in Handler /\ Kept(g, h) /\ g.total = h.total /\ g.pid = h.pid
         /\ g.raw = IF h.pid[p].merged = {} THEN h.raw + raw ELSE h.raw
         /\ \A s \in Streams :
              /\ g.out[s].open = h.out[s].open /\ g.out[s].proc = h.out[s].proc
              /\ g.out[s].stage = h.out[s].stage /\ g.out[s].pb = h.out[s].pb
              /\ g.out[s].err = IF s \notin h.pid[p].merged /\ h.out[s].open
                               THEN h.out[s].err + h.pid[p].n ELSE h.out[s].err
<1>1. /\ h.pid \in [Pids -> PidEntry] /\ h.out \in [Streams -> OutFile]
      /\ DOMAIN h.out = Streams /\ h.total \in Nat /\ h.raw \in Nat
  BY DEF Handler
<1> DEFINE n == h.pid[p].n
           gone == Unmerged(h, p)
           b == [s \in Streams |-> IF s \in gone /\ h.out[s].open
                                   THEN [h.out[s] EXCEPT !.err = @ + n] ELSE h.out[s]]
           r == IF NoneMerged(gone) THEN h.raw + raw ELSE h.raw
<1>2. n \in Nat /\ h.pid[p].merged \in SUBSET Streams
  BY <1>1, HandlerFields
<1>3. \A s \in Streams : s \in gone <=> s \notin h.pid[p].merged
  BY DEF Unmerged
<1>4. NoneMerged(gone) <=> h.pid[p].merged = {}
  BY <1>2 DEF Unmerged, NoneMerged
<1>5. \A o \in OutFile :
        /\ [o EXCEPT !.err = @ + n] \in OutFile /\ [o EXCEPT !.err = @ + n].open = o.open
        /\ [o EXCEPT !.err = @ + n].proc = o.proc /\ [o EXCEPT !.err = @ + n].stage = o.stage
        /\ [o EXCEPT !.err = @ + n].err = o.err + n /\ [o EXCEPT !.err = @ + n].pb = o.pb
  <2> HIDE DEF n
  <2> QED  BY <1>2 DEF OutFile
<1>6. b \in [Streams -> OutFile]
  BY <1>1, <1>5
<1>7. g = [h EXCEPT !.pid = h.pid, !.out = b, !.total = h.total, !.raw = r]
  BY <1>1 DEF Handler, WithCrash
<1>8. \A s \in Streams : b[s] = IF s \in gone /\ h.out[s].open
                                THEN [h.out[s] EXCEPT !.err = @ + n] ELSE h.out[s]
  OBVIOUS
<1>9. r \in Nat
  BY <1>1
<1> HIDE DEF b
<1>10. /\ g \in Handler /\ Kept(g, h)
       /\ g.pid = h.pid /\ g.out = b /\ g.total = h.total /\ g.raw = r
  <2>1. g \in Handler
    BY <1>1, <1>6, <1>7, <1>9 DEF Handler
  <2>2. Kept(g, h)
    BY <1>1, <1>6, <1>7, <1>9 DEF Handler, Kept
  <2>3. g.pid = h.pid /\ g.out = b /\ g.total = h.total /\ g.raw = r
    BY <1>1, <1>6, <1>7, <1>9 DEF Handler
  <2> QED  BY <2>1, <2>2, <2>3
<1>11. \A s \in Streams : h.out[s] \in OutFile
  BY <1>1
<1> HIDE DEF n, gone
<1> QED  BY <1>3, <1>4, <1>5, <1>8, <1>10, <1>11, ZenonT(120) DEF n, r

LEMMA EolsFields ==
  ASSUME NEW h \in Handler, NEW g, g = [h EXCEPT !.eols = TRUE]
  PROVE  /\ g \in Handler /\ g.eols /\ g.st = h.st /\ g.empty = h.empty /\ g.fwd = h.fwd
         /\ g.total = h.total /\ g.raw = h.raw /\ g.pid = h.pid /\ g.out = h.out
BY DEF Handler

LEMMA FwdFields ==
  ASSUME NEW h \in Handler, NEW s \in Streams, NEW g, g = [h EXCEPT !.fwd = @ \union {s}]
  PROVE  /\ g \in Handler /\ g.eols = h.eols /\ g.st = h.st /\ g.empty = h.empty
         /\ g.fwd = h.fwd \union {s}
         /\ g.total = h.total /\ g.raw = h.raw /\ g.pid = h.pid /\ g.out = h.out
BY DEF Handler

LEMMA OutFields ==
  ASSUME NEW h \in Handler, NEW b \in [Streams -> OutFile], NEW g, g = [h EXCEPT !.out = b]
  PROVE  /\ g \in Handler /\ Kept(g, h) /\ g.total = h.total /\ g.raw = h.raw
         /\ g.pid = h.pid /\ g.out = b
<1>1. g \in Handler
  BY DEF Handler
<1>2. Kept(g, h) /\ g.total = h.total /\ g.raw = h.raw /\ g.pid = h.pid /\ g.out = b
  BY DEF Handler, Kept
<1> QED  BY <1>1, <1>2

LEMMA MergedFields ==
  ASSUME NEW h \in Handler, NEW s \in Streams, NEW g, g = WithMerged(h, s)
  PROVE  /\ g \in Handler /\ Kept(g, h) /\ g.total = h.total /\ g.raw = h.raw
         /\ g.pid = h.pid
         /\ \A u \in Streams \ {s} : g.out[u] = h.out[u]
         /\ g.out[s].open = h.out[s].open /\ g.out[s].proc = h.out[s].proc
         /\ g.out[s].err = h.out[s].err /\ g.out[s].pb = h.out[s].pb
         /\ \/ g.out[s].stage = h.out[s].stage
            \/ g.out[s].stage = 2 /\ h.out[s].stage = 1
         /\ h.out[s].open => g.out[s].stage # 1
<1>1. CASE h.out[s].open /\ h.out[s].stage = 1
  <2> DEFINE o == h.out[s]
             w == [o EXCEPT !.stage = 2]
  <2>1. o \in OutFile
    BY DEF Handler
  <2>2. /\ w \in OutFile /\ w.open = o.open /\ w.proc = o.proc /\ w.err = o.err
        /\ w.stage = 2 /\ w.pb = o.pb
    <3> HIDE DEF o
    <3> QED  BY <2>1 DEF OutFile
  <2> DEFINE b == [h.out EXCEPT ![s] = w]
  <2>3. g = [h EXCEPT !.out = b]
    BY <1>1 DEF WithMerged
  <2>4. h.out \in [Streams -> OutFile] /\ DOMAIN h.out = Streams
    BY DEF Handler
  <2> HIDE DEF w
  <2>5. b \in [Streams -> OutFile] /\ b[s] = w /\ \A u \in Streams \ {s} : b[u] = h.out[u]
    BY <2>2, <2>4
  <2> HIDE DEF b
  <2>6. /\ g \in Handler /\ Kept(g, h) /\ g.total = h.total /\ g.raw = h.raw
        /\ g.pid = h.pid /\ g.out = b
    BY <2>3, <2>5, OutFields
  <2>7. g.out[s] = w /\ \A u \in Streams \ {s} : g.out[u] = h.out[u]
    BY <2>5, <2>6
  <2>8. g.out[s].stage = 2 /\ h.out[s].stage = 1
    BY <1>1, <2>2, <2>7
  <2>9. /\ g.out[s].open = h.out[s].open /\ g.out[s].proc = h.out[s].proc
        /\ g.out[s].err = h.out[s].err /\ g.out[s].pb = h.out[s].pb
    BY <2>2, <2>7
  <2> HIDE DEF b, o
  <2> QED  BY <2>6, <2>7, <2>8, <2>9
<1>2. CASE ~(h.out[s].open /\ h.out[s].stage = 1)
  <2>1. g = h
    BY <1>2 DEF WithMerged
  <2> QED  BY <1>2, <2>1 DEF Kept
<1> QED  BY <1>1, <1>2

LEMMA CountsFields ==
  ASSUME NEW o \in OutFile, NEW c \in [proc : Nat, err : Nat], NEW w, w = Merged(o, c)
  PROVE  /\ w \in OutFile /\ w.open = o.open /\ w.stage = o.stage /\ w.pb = o.pb
         /\ w.proc = c.proc /\ w.err = c.err
<1> DEFINE k == c.proc
           m == c.err
<1>1. w = [o EXCEPT !.proc = k, !.err = m]
  BY DEF Merged
<1>2. k \in Nat /\ m \in Nat
  OBVIOUS
<1> HIDE DEF k, m
<1>3. w \in OutFile
  BY <1>1, <1>2 DEF OutFile
<1>4. w.open = o.open /\ w.stage = o.stage /\ w.pb = o.pb /\ w.proc = k /\ w.err = m
  BY <1>1 DEF OutFile
<1> QED  BY <1>3, <1>4 DEF k, m

LEMMA SettledFields ==
  ASSUME NEW h \in Handler, ~Complete(h), NEW g, g = Settled(h)
  PROVE  /\ g \in Handler /\ Kept(g, h) /\ g.total = h.total /\ g.raw = h.raw
         /\ g.pid = h.pid
         /\ \A s \in Streams :
              /\ g.out[s].open = (h.out[s].open /\ s \notin ToWrite(h))
              /\ g.out[s].stage = IF s \in ToMerge(h) THEN 1 ELSE h.out[s].stage
              /\ g.out[s].proc = h.out[s].proc /\ g.out[s].err = h.out[s].err
              /\ g.out[s].pb = h.out[s].pb
<1>1. \A s \in Streams : h.out[s] \in OutFile
  BY DEF Handler
<1> DEFINE open(s) == h.out[s].open /\ s \notin ToWrite(h)
           stage(s) == IF s \in ToMerge(h) THEN 1 ELSE h.out[s].stage
           b == [s \in Streams |-> [h.out[s] EXCEPT !.open = open(s), !.stage = stage(s)]]
<1>2. \A o \in OutFile, m \in BOOLEAN, n \in 0 .. 2 :
        [o EXCEPT !.open = m, !.stage = n] \in OutFile
  BY DEF OutFile
<1>3. \A o \in OutFile, m \in BOOLEAN, n \in 0 .. 2 :
        /\ [o EXCEPT !.open = m, !.stage = n].open = m
        /\ [o EXCEPT !.open = m, !.stage = n].stage = n
        /\ [o EXCEPT !.open = m, !.stage = n].proc = o.proc
        /\ [o EXCEPT !.open = m, !.stage = n].err = o.err
        /\ [o EXCEPT !.open = m, !.stage = n].pb = o.pb
  BY DEF OutFile
<1>4. \A s \in Streams : open(s) \in BOOLEAN /\ stage(s) \in 0 .. 2
  BY <1>1, HandlerFields
<1>5. g = [h EXCEPT !.out = b]
  BY DEF Settled
<1>6. \A s \in Streams : b[s] = [h.out[s] EXCEPT !.open = open(s), !.stage = stage(s)]
  OBVIOUS
<1> HIDE DEF open, stage
<1>7. \A s \in Streams : [h.out[s] EXCEPT !.open = open(s), !.stage = stage(s)] \in OutFile
  BY <1>1, <1>2, <1>4
<1>8. b \in [Streams -> OutFile]
  BY <1>7
<1> HIDE DEF b
<1>9. g \in Handler
  BY <1>5, <1>8 DEF Handler
<1>10. Kept(g, h) /\ g.total = h.total /\ g.raw = h.raw /\ g.pid = h.pid /\ g.out = b
  BY <1>5 DEF Handler, Kept
<1>11. \A s \in Streams :
         /\ b[s].open = open(s) /\ b[s].stage = stage(s)
         /\ b[s].proc = h.out[s].proc /\ b[s].err = h.out[s].err /\ b[s].pb = h.out[s].pb
  <2> SUFFICES ASSUME NEW s \in Streams
               PROVE  /\ b[s].open = open(s) /\ b[s].stage = stage(s)
                      /\ b[s].proc = h.out[s].proc /\ b[s].err = h.out[s].err
                      /\ b[s].pb = h.out[s].pb
    OBVIOUS
  <2> DEFINE o == h.out[s]
             m == open(s)
             n == stage(s)
  <2>1. o \in OutFile /\ m \in BOOLEAN /\ n \in 0 .. 2
    BY <1>1, <1>4
  <2>2. b[s] = [o EXCEPT !.open = m, !.stage = n]
    BY <1>6
  <2> HIDE DEF o, m, n
  <2>3. b[s].open = m /\ b[s].stage = n /\ b[s].proc = o.proc /\ b[s].err = o.err /\ b[s].pb = o.pb
    BY <1>3, <2>1, <2>2
  <2> QED  BY <2>3 DEF o, m, n
<1> QED  BY <1>9, <1>10, <1>11 DEF open, stage

LEMMA SettledTyped ==
  ASSUME NEW h \in Handler
  PROVE  /\ Settled(h) \in Handler
         /\ Complete(h) => Settled(h) = Closed
         /\ Settled(h).eols => h.eols
<1>1. CASE Complete(h)
  BY <1>1, NoHandlerTyped DEF Settled
<1>2. CASE ~Complete(h)
  BY <1>2, SettledFields DEF Kept
<1> QED  BY <1>1, <1>2

-----------------------------------------------------------------------------
(* checkClosure *)

LEMMA FaultSpent ==
  ASSUME NEW f \in Faults, spent \in [Faults -> Nat], Spend(f)
  PROVE  spent' \in [Faults -> Nat]
<1>1. spent' = [spent EXCEPT ![f] = spent[f] + 1]
  BY Zenon DEF Spend
<1> QED  BY <1>1

LEMMA FaultSpentIf ==
  ASSUME NEW f \in Faults, spent \in [Faults -> Nat], NEW c \in BOOLEAN, SpendIf(c, f)
  PROVE  spent' \in [Faults -> Nat]
BY FaultSpent DEF SpendIf

LEMMA MergesFinite ==
  IsFiniteSet(Merge) /\ \A M \in SUBSET Merge : IsFiniteSet(M) /\ Cardinality(M) \in Nat
<1> DEFINE f == [t \in Lumis \X Streams |-> [ls |-> t[1], stream |-> t[2]]]
<1>1. IsFiniteSet(Lumis \X Streams)
  BY LumisFinite, LumiAssumption, FS_Product
<1>2. f \in Surjection(Lumis \X Streams, Merge)
  <2>1. f \in [Lumis \X Streams -> Merge]
    BY DEF Merge
  <2>2. \A m \in Merge : \E t \in Lumis \X Streams : f[t] = m
    <3> SUFFICES ASSUME NEW m \in Merge PROVE \E t \in Lumis \X Streams : f[t] = m
      OBVIOUS
    <3>1. <<m.ls, m.stream>> \in Lumis \X Streams /\ m = [ls |-> m.ls, stream |-> m.stream]
      BY DEF Merge
    <3>2. f[<<m.ls, m.stream>>] = m
      BY <3>1
    <3> QED  BY <3>1, <3>2
  <2> HIDE DEF f
  <2> QED  BY <2>1, <2>2 DEF Surjection
<1> HIDE DEF f
<1>3. IsFiniteSet(Merge)
  BY <1>1, <1>2, FS_Surjection
<1>4. \A M \in SUBSET Merge : IsFiniteSet(M)
  BY <1>3, FS_Subset
<1> QED  BY <1>3, <1>4, FS_CardinalityType

LEMMA EntryTyped ==
  ASSUME NEW o \in OutFile, NEW b \in BOOLEAN
  PROVE  /\ Entry(o, b) \in [proc : Nat, err : Nat]
         /\ Entry(o, b).proc = IF b THEN 0 ELSE o.proc
         /\ Entry(o, b).proc + Entry(o, b).err = o.proc + o.err
<1>1. o.proc \in Nat /\ o.err \in Nat /\ o.proc + o.err \in Nat
  BY DEF OutFile
<1> QED  BY <1>1 DEF Entry

\* The entries of the streams that are full are written.
WrittenFor(h, row, row1) ==
  \A s \in Streams : IF s \in ToWrite(h) THEN \E b \in BOOLEAN : row1[s] = Entry(h.out[s], b)
                     ELSE row1[s] = row[s]

\* What the merging thread has been given, and what it has not.
Merges == dqm.cur \union {dqm.q[i] : i \in DOMAIN dqm.q}
Given(l, h) == \A s \in ToMerge(h) : [ls |-> l, stream |-> s] \in Merges' \union dqm'.refused

\* What checkClosure does to the handlers in S, which have got the states hs.
LEMMA ClosureFacts ==
  ASSUME LumiTypeOK, NEW S \in SUBSET Lumis, NEW hs \in [Lumis -> Handler], CheckClosure(S, hs)
  PROVE  /\ lumi' \in [Lumis -> Handler]
         /\ ledger' \in [Lumis -> [Streams -> [proc : Nat, err : Nat] \union {Unwritten}]]
         /\ errors' \in [Lumis -> Nat]
         /\ dqm' \in DqmState
         /\ spent' \in [Faults -> Nat]
         /\ \A l \in Lumis :
              /\ lumi'[l] = IF l \in S THEN Settled(hs[l]) ELSE lumi[l]
              /\ errors'[l] = IF l \in S /\ Complete(hs[l]) THEN hs[l].raw ELSE errors[l]
         /\ \A l \in S : WrittenFor(hs[l], ledger[l], ledger'[l])
         /\ \A l \in Lumis \ S : ledger'[l] = ledger[l]
         /\ dqm'.cur = dqm.cur /\ dqm'.counts = dqm.counts
         /\ \A i \in DOMAIN dqm'.q :
              \/ \E j \in DOMAIN dqm.q : dqm'.q[i] = dqm.q[j]
              \/ /\ dqm'.q[i].ls \in S
                 /\ dqm'.q[i].stream \in ToMerge(hs[dqm'.q[i].ls])
         /\ Merges \subseteq Merges' /\ dqm.refused \subseteq dqm'.refused
         /\ \A l \in S : Given(l, hs[l])
<1> DEFINE toWrite == UNION {{l} \X ToWrite(hs[l]) : l \in S}
           toMerge == UNION {{[ls |-> l, stream |-> s] : s \in ToMerge(hs[l])} : l \in S}
<1>1. PICK fail \in SUBSET toWrite, no \in SUBSET toMerge :
        /\ IF fail # {} THEN Spend("lost") ELSE SpendIf(no # {}, "refused")
        /\ lumi' = [l \in Lumis |-> IF l \in S THEN Settled(hs[l]) ELSE lumi[l]]
        /\ ledger' = [l \in Lumis |-> [s \in Streams |->
             IF <<l, s>> \in toWrite THEN Entry(hs[l].out[s], <<l, s>> \in fail)
             ELSE ledger[l][s]]]
        /\ errors' = [l \in Lumis |-> IF l \in S /\ Complete(hs[l]) THEN hs[l].raw
                                      ELSE errors[l]]
        /\ GiveToMerger(toMerge, no)
  BY DEF CheckClosure
<1>2. \A l \in Lumis, s \in Streams : <<l, s>> \in toWrite <=> l \in S /\ s \in ToWrite(hs[l])
  OBVIOUS
<1>3. \A m \in toMerge : m \in Merge /\ m.ls \in S /\ m.stream \in ToMerge(hs[m.ls])
  <2> SUFFICES ASSUME NEW l \in S, NEW s \in ToMerge(hs[l]), NEW m,
                      m = [ls |-> l, stream |-> s]
               PROVE  m \in Merge /\ m.ls \in S /\ m.stream \in ToMerge(hs[m.ls])
    OBVIOUS
  <2>1. s \in Streams
    BY DEF ToMerge, Full
  <2> QED  BY <2>1 DEF Merge
<1>4. spent' \in [Faults -> Nat]
  <2>1. spent \in [Faults -> Nat] /\ "lost" \in Faults /\ "refused" \in Faults
    BY DEF LumiTypeOK, Faults
  <2>2. IF fail # {} THEN Spend("lost") ELSE SpendIf(no # {}, "refused")
    BY <1>1
  <2>3. (no # {}) \in BOOLEAN
    OBVIOUS
  <2> HIDE DEF toWrite, toMerge
  <2> QED  BY <2>1, <2>2, <2>3, FaultSpent, FaultSpentIf
<1>5. /\ lumi' \in [Lumis -> Handler]
      /\ \A l \in Lumis : lumi'[l] = IF l \in S THEN Settled(hs[l]) ELSE lumi[l]
  <2>1. lumi' = [l \in Lumis |-> IF l \in S THEN Settled(hs[l]) ELSE lumi[l]]
    BY <1>1
  <2>2. \A l \in Lumis : lumi[l] \in Handler /\ Settled(hs[l]) \in Handler
    BY SettledTyped DEF LumiTypeOK
  <2> QED  BY <2>1, <2>2
<1>6. /\ errors' \in [Lumis -> Nat]
      /\ \A l \in Lumis :
           errors'[l] = IF l \in S /\ Complete(hs[l]) THEN hs[l].raw ELSE errors[l]
  <2>1. errors' = [l \in Lumis |-> IF l \in S /\ Complete(hs[l]) THEN hs[l].raw ELSE errors[l]]
    BY <1>1
  <2>2. \A l \in Lumis : errors[l] \in Nat /\ hs[l].raw \in Nat
    BY HandlerFields DEF LumiTypeOK
  <2> QED  BY <2>1, <2>2
<1> HIDE DEF toWrite
<1>7. \A l \in Lumis, s \in Streams :
        ledger'[l][s] = IF <<l, s>> \in toWrite THEN Entry(hs[l].out[s], <<l, s>> \in fail)
                        ELSE ledger[l][s]
  BY <1>1
<1>8. \A l \in Lumis, s \in Streams : hs[l].out[s] \in OutFile
  BY DEF Handler
<1>9. ledger' \in [Lumis -> [Streams -> [proc : Nat, err : Nat] \union {Unwritten}]]
  <2>1. \A l \in Lumis, s \in Streams :
          ledger[l][s] \in [proc : Nat, err : Nat] \union {Unwritten}
    BY DEF LumiTypeOK
  <2>2. \A l \in Lumis, s \in Streams :
          Entry(hs[l].out[s], <<l, s>> \in fail) \in [proc : Nat, err : Nat]
    <3>1. \A l \in Lumis, s \in Streams : (<<l, s>> \in fail) \in BOOLEAN
      OBVIOUS
    <3> QED  BY <3>1, <1>8, EntryTyped, Zenon
  <2>3. \A l \in Lumis, s \in Streams :
          (IF <<l, s>> \in toWrite THEN Entry(hs[l].out[s], <<l, s>> \in fail)
           ELSE ledger[l][s]) \in [proc : Nat, err : Nat] \union {Unwritten}
    BY <2>1, <2>2
  <2>4. ledger' = [l \in Lumis |-> [s \in Streams |->
          IF <<l, s>> \in toWrite THEN Entry(hs[l].out[s], <<l, s>> \in fail)
          ELSE ledger[l][s]]]
    BY <1>1
  <2> QED  BY <2>3, <2>4
<1>10. \A l \in Lumis, s \in Streams :
         IF l \in S /\ s \in ToWrite(hs[l])
         THEN \E b \in BOOLEAN : ledger'[l][s] = Entry(hs[l].out[s], b)
         ELSE ledger'[l][s] = ledger[l][s]
  <2> SUFFICES ASSUME NEW l \in Lumis, NEW s \in Streams
               PROVE  IF l \in S /\ s \in ToWrite(hs[l])
                      THEN \E b \in BOOLEAN : ledger'[l][s] = Entry(hs[l].out[s], b)
                      ELSE ledger'[l][s] = ledger[l][s]
    OBVIOUS
  <2>1. CASE <<l, s>> \in toWrite
    <3>1. ledger'[l][s] = Entry(hs[l].out[s], <<l, s>> \in fail)
      BY <1>7, <2>1
    <3>2. (<<l, s>> \in fail) \in BOOLEAN
      OBVIOUS
    <3>3. \E b \in BOOLEAN : ledger'[l][s] = Entry(hs[l].out[s], b)
      BY <3>1, <3>2, Zenon
    <3> QED  BY <1>2, <2>1, <3>3
  <2>2. CASE <<l, s>> \notin toWrite
    BY <1>2, <1>7, <2>2
  <2> QED  BY <2>1, <2>2
<1>11. /\ dqm' \in DqmState /\ dqm'.cur = dqm.cur /\ dqm'.counts = dqm.counts
       /\ \A i \in DOMAIN dqm'.q : \/ \E j \in DOMAIN dqm.q : dqm'.q[i] = dqm.q[j]
                                  \/ dqm'.q[i] \in toMerge
       /\ Merges \subseteq Merges' /\ dqm.refused \subseteq dqm'.refused
       /\ toMerge \subseteq Merges' \union dqm'.refused
  <2> DEFINE M == toMerge \ no
  <2>1. toMerge \in SUBSET Merge /\ M \in SUBSET Merge /\ no \in SUBSET Merge
    BY <1>3
  <2>2. PICK f \in MergeOrders(M) :
          dqm' = [dqm EXCEPT !.q = @ \o f, !.up = @ \/ toMerge # no, !.refused = @ \union no]
    BY <1>1 DEF GiveToMerger
  <2>3. Cardinality(M) \in Nat
    BY <2>1, MergesFinite
  <2>4. f \in [1 .. Cardinality(M) -> M]
    BY DEF MergeOrders
  <2>a. \A m \in M : \E i \in 1 .. Cardinality(M) : f[i] = m
    <3>1. IsFiniteSet(M) /\ \A i, j \in DOMAIN f : f[i] = f[j] => i = j
      BY <2>1, MergesFinite DEF MergeOrders
    <3> HIDE DEF M
    <3> QED  BY <2>4, <3>1, OrderComplete
  <2>b. toMerge \subseteq M \union no
    OBVIOUS
  <2> DEFINE n == Cardinality(M)
  <2> HIDE DEF n, M, toMerge
  <2>5. f \in Seq(Merge) /\ DOMAIN f = 1 .. n /\ \A i \in 1 .. n : f[i] \in M
    BY <2>1, <2>3, <2>4 DEF n
  <2>6. Len(f) = n
    BY <2>3, <2>5 DEF n
  <2>7. dqm \in DqmState /\ dqm.q \in Seq(Merge)
    BY DEF LumiTypeOK, DqmState
  <2> DEFINE Q == dqm.q \o f
             u == (dqm.up \/ toMerge # no)
             r == dqm.refused \union no
  <2>8. Q \in Seq(Merge) /\ u \in BOOLEAN /\ r \in SUBSET Merge
    BY <2>1, <2>5, <2>7, ConcatProperties DEF DqmState
  <2>9. dqm' = [dqm EXCEPT !.q = Q, !.up = u, !.refused = r]
    BY <2>2
  <2>10. /\ Len(Q) = Len(dqm.q) + Len(f)
         /\ \A i \in 1 .. Len(dqm.q) + Len(f) :
              Q[i] = IF i <= Len(dqm.q) THEN dqm.q[i] ELSE f[i - Len(dqm.q)]
    BY <2>5, <2>7, ConcatProperties
  <2>11. DOMAIN Q = 1 .. Len(Q) /\ DOMAIN dqm.q = 1 .. Len(dqm.q) /\ Len(dqm.q) \in Nat
    BY <2>7, <2>8, LenProperties
  <2> HIDE DEF Q, u, r
  <2>12. dqm' \in DqmState
    BY <2>7, <2>8, <2>9 DEF DqmState
  <2>13. dqm'.cur = dqm.cur /\ dqm'.counts = dqm.counts /\ dqm'.q = Q
    BY <2>7, <2>9 DEF DqmState
  <2>14. \A i \in 1 .. Len(Q) : \/ \E j \in 1 .. Len(dqm.q) : Q[i] = dqm.q[j]
                                \/ Q[i] \in toMerge
    <3> SUFFICES ASSUME NEW i \in 1 .. Len(Q)
                 PROVE  \/ \E j \in 1 .. Len(dqm.q) : Q[i] = dqm.q[j]
                        \/ Q[i] \in toMerge
      OBVIOUS
    <3>1. CASE i <= Len(dqm.q)
      BY <2>3, <2>6, <2>10, <2>11, <3>1 DEF n
    <3>2. CASE i > Len(dqm.q)
      <4>1. i - Len(dqm.q) \in 1 .. n /\ Q[i] = f[i - Len(dqm.q)]
        BY <2>3, <2>6, <2>10, <2>11, <3>2 DEF n
      <4> QED  BY <4>1, <2>5 DEF M
    <3> QED  BY <2>11, <3>1, <3>2
  <2>15. dqm'.refused = dqm.refused \union no
    BY <2>7, <2>9 DEF DqmState, r
  <2>16. \A j \in DOMAIN dqm.q : j \in DOMAIN Q /\ Q[j] = dqm.q[j]
    BY <2>3, <2>6, <2>10, <2>11 DEF n
  <2>17. ASSUME NEW m \in M PROVE \E j \in DOMAIN Q : Q[j] = m
    <3>1. PICK i \in 1 .. n : f[i] = m
      BY <2>a DEF n
    <3>2. Len(dqm.q) + i \in DOMAIN Q /\ ~(Len(dqm.q) + i <= Len(dqm.q)) /\ Len(dqm.q) + i - Len(dqm.q) = i
      BY <2>3, <2>6, <2>10, <2>11 DEF n
    <3> QED  BY <2>10, <2>11, <3>1, <3>2
  <2>18. Merges \subseteq Merges' /\ M \subseteq Merges'
    BY <2>13, <2>16, <2>17 DEF Merges
  <2> QED  BY <2>b, <2>11, <2>12, <2>13, <2>14, <2>15, <2>18
<1>12. \A i \in DOMAIN dqm'.q :
         \/ \E j \in DOMAIN dqm.q : dqm'.q[i] = dqm.q[j]
         \/ /\ dqm'.q[i].ls \in S
            /\ dqm'.q[i].stream \in ToMerge(hs[dqm'.q[i].ls])
  BY <1>3, <1>11
<1>a. \A l \in S : Given(l, hs[l])
  BY <1>11 DEF Given
<1>13. \A l \in S : WrittenFor(hs[l], ledger[l], ledger'[l])
  <2> SUFFICES ASSUME NEW l \in S PROVE WrittenFor(hs[l], ledger[l], ledger'[l])
    OBVIOUS
  <2>1. \A s \in Streams : IF s \in ToWrite(hs[l])
                           THEN \E b \in BOOLEAN : ledger'[l][s] = Entry(hs[l].out[s], b)
                           ELSE ledger'[l][s] = ledger[l][s]
    BY <1>10
  <2> QED  BY <2>1, Zenon DEF WrittenFor
<1>14. \A l \in Lumis \ S : ledger'[l] = ledger[l]
  <2> SUFFICES ASSUME NEW l \in Lumis \ S PROVE ledger'[l] = ledger[l]
    OBVIOUS
  <2> DEFINE R == [proc : Nat, err : Nat] \union {Unwritten}
  <2>1. ledger \in [Lumis -> [Streams -> R]] /\ ledger' \in [Lumis -> [Streams -> R]]
    BY <1>9 DEF LumiTypeOK
  <2> HIDE DEF R
  <2> QED  BY <1>10, <2>1
<1> QED  BY <1>a, <1>4, <1>5, <1>6, <1>9, <1>11, <1>12, <1>13, <1>14

-----------------------------------------------------------------------------
(* The events that have not been taken, and their invariants *)

Pend == main.buffer \o queue

WellFormed(e) ==
  /\ e \in FileEvent
  /\ e.kind \in {"index", "json", "bad", "eols", "merged"} => e.ls \in Lumis
  /\ e.kind \in {"index", "json", "bad", "crash"} => e.pid \in Pids
  /\ e.kind \in {"json", "bad", "merged"} => e.stream \in Streams
  /\ e.kind = "index" => e.n = 1
  /\ e.kind = "eols" => e = EoLS(e.ls)

\* The BU has ended the lumisection of every event but an index file, and all
\* earlier ones of an index file.
AfterEnd(e, ended) ==
  /\ e.kind \in {"json", "bad", "eols", "merged"} => e.ls \in ended
  /\ e.kind = "index" => 1 .. (e.ls - 1) \subseteq ended

\* What may come before an index file.
MayPrecede(e, f) ==
  f.kind = "index" =>
    /\ e.kind \in {"json", "bad", "eols", "merged"} => e.ls < f.ls
    /\ e.kind = "index" => e.ls <= f.ls

Ends(P) == {i \in DOMAIN P : P[i].kind = "eols"}
\* ql is the set of lumisections whose end is waiting, none waits twice.
Counted(P, ql) ==
  /\ ql = {P[i].ls : i \in Ends(P)}
  /\ \A i, j \in Ends(P) : P[i].ls = P[j].ls => i = j

Events ==
  /\ Pend \in Seq(FileEvent)
  /\ \A i \in DOMAIN Pend : WellFormed(Pend[i]) /\ AfterEnd(Pend[i], buEols)
  /\ \A i, j \in DOMAIN Pend : i < j => MayPrecede(Pend[i], Pend[j])
  /\ Counted(Pend, queued)

Buffered ==
  /\ \A i \in DOMAIN main.buffer : main.buffer[i].kind = "index"
  /\ main.started \/ ~main.index => main.buffer = <<>>

\* The BU ends one lumisection after the other.
BuFirst == buEols = 1 .. Cardinality(buEols)

LumisEnded ==
  /\ queued \subseteq eols /\ eols \subseteq buEols /\ seen \subseteq buEols
  /\ \A p \in Pids : proc[p].ls <= Cardinality(buEols) + 1
  /\ \A p \in Pids : proc[p].st = "output" => proc[p].ls \in eols

HandlersEnded ==
  /\ \A l \in Lumis : lumi[l].eols => l \in seen
  /\ \A i \in DOMAIN dqm.q : dqm.q[i].ls \in buEols
  /\ \A m \in dqm.cur : m.ls \in buEols

NotStarted ==
  ~main.started =>
    /\ lumi = [l \in Lumis |-> NoHandler] /\ seen = {}
    /\ dqm.q = <<>> /\ dqm.cur = {}
    /\ eols # {} => \E i \in DOMAIN Pend : Pend[i].kind = "eols"
    /\ \A i \in DOMAIN Pend :
         /\ Pend[i].kind # "merged"
         /\ Pend[i].kind \in {"json", "bad"} => \E j \in DOMAIN Pend : j < i /\ Pend[j].kind = "eols"

Course == /\ LumiTypeOK /\ Events /\ Buffered /\ BuFirst
          /\ LumisEnded /\ HandlersEnded /\ NotStarted

\* Events that are neither an index file nor an end of a lumisection.
Plain(X) == \A i \in DOMAIN X :
  /\ WellFormed(X[i]) /\ X[i].kind # "index" /\ X[i].kind # "eols"
  /\ X[i].kind \in {"json", "bad", "merged"} => X[i].ls \in buEols'

LEMMA CountedShift ==
  ASSUME NEW P, NEW Q, NEW k, NEW X, Shifted(P, Q, k, X), NEW ql, Counted(P, ql),
         \A i, j \in Ends(X) : X[i].ls = X[j].ls => i = j,
         NEW q1, \A x : x \in q1 <=> x \in ql /\ ~(k = 1 /\ P[1].kind = "eols" /\ x = P[1].ls),
         \A i \in Ends(X) : X[i].ls \notin q1
  PROVE  Counted(Q, q1 \union {X[i].ls : i \in Ends(X)})
<1> DEFINE m == Len(P) - k
<1>1. /\ DOMAIN P = 1 .. Len(P) /\ DOMAIN Q = 1 .. Len(Q) /\ DOMAIN X = 1 .. Len(X)
      /\ Len(P) \in Nat /\ Len(Q) \in Nat /\ Len(X) \in Nat /\ k \in {0, 1}
      /\ k <= Len(P) /\ m \in Nat
  BY LenProperties DEF Shifted
<1>2. \A j \in DOMAIN Q :
        \/ j + k \in DOMAIN P /\ Q[j] = P[j + k] /\ j <= m
        \/ j > m /\ j - m \in DOMAIN X /\ Q[j] = X[j - m]
  BY ShiftedFrom
<1>3. /\ \A i \in DOMAIN P : i > k => i - k \in DOMAIN Q /\ Q[i - k] = P[i]
      /\ \A i \in DOMAIN X : m + i \in DOMAIN Q /\ Q[m + i] = X[i]
  BY ShiftedTo
<1>4. /\ ql = {P[i].ls : i \in Ends(P)}
      /\ \A i, j \in Ends(P) : P[i].ls = P[j].ls => i = j
  BY DEF Counted
<1> HIDE DEF m
<1>5. \A j \in Ends(Q) : \/ j + k \in Ends(P) /\ Q[j] = P[j + k] /\ P[j + k].ls \in q1
                         \/ j - m \in Ends(X) /\ Q[j] = X[j - m]
  <2> SUFFICES ASSUME NEW j \in Ends(Q)
               PROVE  \/ j + k \in Ends(P) /\ Q[j] = P[j + k] /\ P[j + k].ls \in q1
                      \/ j - m \in Ends(X) /\ Q[j] = X[j - m]
    OBVIOUS
  <2>1. j \in DOMAIN Q /\ Q[j].kind = "eols"
    BY DEF Ends
  <2>2. CASE j + k \in DOMAIN P /\ Q[j] = P[j + k]
    <3>1. j + k \in Ends(P)
      BY <2>1, <2>2 DEF Ends
    <3>2. P[j + k].ls \in ql
      BY <1>4, <3>1
    <3>3. ASSUME k = 1, P[1].kind = "eols" PROVE P[j + k].ls # P[1].ls
      <4>1. 1 \in Ends(P) /\ j + k # 1
        BY <1>1, <2>1, <3>3 DEF Ends
      <4> QED  BY <1>4, <3>1, <4>1
    <3> QED  BY <2>2, <3>1, <3>2, <3>3
  <2>3. CASE j - m \in DOMAIN X /\ Q[j] = X[j - m]
    BY <2>1, <2>3 DEF Ends
  <2> QED  BY <1>2, <2>1, <2>2, <2>3
<1>6. \A x \in q1 : \E j \in Ends(Q) : Q[j].ls = x
  <2> SUFFICES ASSUME NEW x \in q1 PROVE \E j \in Ends(Q) : Q[j].ls = x
    OBVIOUS
  <2>1. PICK i \in Ends(P) : P[i].ls = x
    BY <1>4
  <2>2. i \in DOMAIN P /\ P[i].kind = "eols"
    BY DEF Ends
  <2>3. i > k
    <3>1. ASSUME i <= k PROVE FALSE
      <4>1. k = 1 /\ i = 1
        BY <1>1, <2>2, <3>1
      <4> QED  BY <2>1, <2>2, <4>1
    <3> QED  BY <1>1, <2>2, <3>1
  <2>4. i - k \in DOMAIN Q /\ Q[i - k] = P[i]
    BY <1>3, <2>2, <2>3
  <2>5. i - k \in Ends(Q)
    BY <2>2, <2>4 DEF Ends
  <2> QED  BY <2>1, <2>4, <2>5
<1>7. \A i \in Ends(X) : m + i \in Ends(Q) /\ Q[m + i] = X[i]
  BY <1>3 DEF Ends
<1>8. q1 \union {X[i].ls : i \in Ends(X)} = {Q[j].ls : j \in Ends(Q)}
  <2>1. \A x \in q1 \union {X[i].ls : i \in Ends(X)} : x \in {Q[j].ls : j \in Ends(Q)}
    BY <1>6, <1>7
  <2>2. \A j \in Ends(Q) : Q[j].ls \in q1 \union {X[i].ls : i \in Ends(X)}
    BY <1>5
  <2> QED  BY <2>1, <2>2
<1>9. ASSUME NEW i \in Ends(Q), NEW j \in Ends(Q), Q[i].ls = Q[j].ls PROVE i = j
  <2>1. i \in Nat /\ j \in Nat
    BY <1>1 DEF Ends
  <2>2. CASE i + k \in Ends(P) /\ Q[i] = P[i + k] /\ P[i + k].ls \in q1
    <3>1. CASE j + k \in Ends(P) /\ Q[j] = P[j + k]
      <4>1. i + k = j + k
        BY <1>4, <1>9, <2>2, <3>1
      <4> QED  BY <1>1, <2>1, <4>1
    <3>2. CASE j - m \in Ends(X) /\ Q[j] = X[j - m]
      BY <1>9, <2>2, <3>2
    <3> QED  BY <1>5, <3>1, <3>2
  <2>3. CASE i - m \in Ends(X) /\ Q[i] = X[i - m]
    <3>1. CASE j + k \in Ends(P) /\ Q[j] = P[j + k] /\ P[j + k].ls \in q1
      BY <1>9, <2>3, <3>1
    <3>2. CASE j - m \in Ends(X) /\ Q[j] = X[j - m]
      <4>1. i - m = j - m
        BY <1>9, <2>3, <3>2
      <4> QED  BY <1>1, <2>1, <4>1 DEF m
    <3> QED  BY <1>5, <3>1, <3>2
  <2> QED  BY <1>5, <2>2, <2>3
<1> QED  BY <1>8, <1>9 DEF Counted

\* The events after a step in which none but the first was taken and X is new.
LEMMA ShiftedEvents ==
  ASSUME Events, NEW k, NEW X, Shifted(Pend, Pend', k, X), buEols \subseteq buEols',
         \A i \in DOMAIN X : WellFormed(X[i]) /\ AfterEnd(X[i], buEols'),
         \A i, j \in DOMAIN X : i < j => MayPrecede(X[i], X[j]),
         \A i \in DOMAIN Pend, j \in DOMAIN X : MayPrecede(Pend[i], X[j]),
         Counted(Pend', queued')
  PROVE  Events'
<1> DEFINE m == Len(Pend) - k
<1>1. /\ DOMAIN Pend = 1 .. Len(Pend) /\ DOMAIN Pend' = 1 .. Len(Pend') /\ DOMAIN X = 1 .. Len(X)
      /\ Len(Pend) \in Nat /\ Len(Pend') \in Nat /\ Len(X) \in Nat /\ k \in {0, 1}
      /\ k <= Len(Pend) /\ m \in Nat /\ Pend' \in Seq(FileEvent)
  BY LenProperties DEF Shifted
<1>2. \A j \in DOMAIN Pend' :
        \/ j + k \in DOMAIN Pend /\ Pend'[j] = Pend[j + k] /\ j <= m
        \/ j > m /\ j - m \in DOMAIN X /\ Pend'[j] = X[j - m]
  BY ShiftedFrom
<1> HIDE DEF m
<1>3. \A i \in DOMAIN Pend' : WellFormed(Pend'[i]) /\ AfterEnd(Pend'[i], buEols')
  <2>1. \A e : AfterEnd(e, buEols) => AfterEnd(e, buEols')
    BY DEF AfterEnd
  <2>2. \A i \in DOMAIN Pend : WellFormed(Pend[i]) /\ AfterEnd(Pend[i], buEols)
    BY DEF Events
  <2> QED  BY <1>2, <2>1, <2>2
<1>4. \A i, j \in DOMAIN Pend' : i < j => MayPrecede(Pend'[i], Pend'[j])
  <2> SUFFICES ASSUME NEW i \in DOMAIN Pend', NEW j \in DOMAIN Pend', i < j
               PROVE  MayPrecede(Pend'[i], Pend'[j])
    OBVIOUS
  <2>1. \A x, y \in DOMAIN Pend : x < y => MayPrecede(Pend[x], Pend[y])
    BY DEF Events
  <2>2. CASE j + k \in DOMAIN Pend /\ Pend'[j] = Pend[j + k] /\ j <= m
    <3>1. i + k \in DOMAIN Pend /\ Pend'[i] = Pend[i + k]
      BY <1>1, <1>2, <2>2
    <3>2. i + k < j + k
      BY <1>1
    <3> QED  BY <2>1, <2>2, <3>1, <3>2
  <2>3. CASE j > m /\ j - m \in DOMAIN X /\ Pend'[j] = X[j - m]
    <3>1. CASE i + k \in DOMAIN Pend /\ Pend'[i] = Pend[i + k]
      BY <2>3, <3>1
    <3>2. CASE i - m \in DOMAIN X /\ Pend'[i] = X[i - m]
      <4>1. i - m < j - m
        BY <1>1
      <4> QED  BY <2>3, <3>2, <4>1
    <3> QED  BY <1>2, <3>1, <3>2
  <2> QED  BY <1>2, <2>2, <2>3
<1> QED  BY <1>1, <1>3, <1>4 DEF Events

LEMMA PlainEvents ==
  ASSUME Events, NEW k, NEW X, Shifted(Pend, Pend', k, X), Plain(X), buEols \subseteq buEols',
         k = 1 => Pend[1].kind # "eols", queued' = queued
  PROVE  Events'
<1>1. Ends(X) = {}
  BY DEF Ends, Plain
<1>2. Counted(Pend', queued \union {X[i].ls : i \in Ends(X)})
  <2> SUFFICES ASSUME NEW ql, ql = queued
               PROVE  Counted(Pend', ql \union {X[i].ls : i \in Ends(X)})
    OBVIOUS
  <2>1. \A i, j \in Ends(X) : X[i].ls = X[j].ls => i = j
    BY <1>1
  <2>2. \A i \in Ends(X) : X[i].ls \notin ql
    BY <1>1
  <2>3. \A x : x \in ql <=> x \in queued /\ ~(k = 1 /\ Pend[1].kind = "eols" /\ x = Pend[1].ls)
    OBVIOUS
  <2>4. Counted(Pend, queued)
    BY DEF Events
  <2> QED  BY ONLY <2>1, <2>2, <2>3, <2>4, Shifted(Pend, Pend', k, X), CountedShift
<1>3. Counted(Pend', queued')
  BY <1>1, <1>2
<1>4. \A i \in DOMAIN X : WellFormed(X[i]) /\ AfterEnd(X[i], buEols')
  BY DEF Plain, AfterEnd
<1>5. \A e, i : i \in DOMAIN X => MayPrecede(e, X[i])
  BY DEF Plain, MayPrecede
<1> QED  BY <1>3, <1>4, <1>5, ShiftedEvents

LEMMA EndsEvents ==
  ASSUME Events, NEW k, NEW X, Shifted(Pend, Pend', k, X), buEols' = buEols,
         NEW S \in SUBSET Lumis, S \subseteq buEols,
         NEW ql, k = 1 /\ Pend[1].kind = "eols" => ql = queued \ {Pend[1].ls},
         ~(k = 1 /\ Pend[1].kind = "eols") => ql = queued,
         EndsOf(X, S \ ql), queued' = ql \union S
  PROVE  Events'
<1>1. \A i \in DOMAIN X : \E l \in S \ ql : X[i] = EoLS(l)
  BY DEF EndsOf
<1>2. \A i \in DOMAIN X : X[i].kind = "eols" /\ X[i].ls \in S \ ql /\ X[i] = EoLS(X[i].ls)
  BY <1>1, EoLSFields
<1>3. Ends(X) = DOMAIN X
  BY <1>2 DEF Ends
<1>4. \A i, j \in Ends(X) : X[i].ls = X[j].ls => i = j
  BY <1>2, <1>3 DEF EndsOf
<1>5. {X[i].ls : i \in Ends(X)} = S \ ql
  <2>1. \A l \in S \ ql : \E i \in Ends(X) : X[i].ls = l
    BY <1>3, EoLSFields DEF EndsOf
  <2> QED  BY <1>2, <1>3, <2>1
<1>6. Counted(Pend', ql \union {X[i].ls : i \in Ends(X)})
  <2>1. \A i \in Ends(X) : X[i].ls \notin ql
    BY <1>2, <1>3
  <2>2. Counted(Pend, queued)
    BY DEF Events
  <2>3. \A x : x \in ql <=> x \in queued /\ ~(k = 1 /\ Pend[1].kind = "eols" /\ x = Pend[1].ls)
    OBVIOUS
  <2> QED  BY ONLY <1>4, <2>1, <2>2, <2>3, Shifted(Pend, Pend', k, X), CountedShift
<1>7. Counted(Pend', queued')
  <2>1. ql \union (S \ ql) = ql \union S
    OBVIOUS
  <2> QED  BY <1>5, <1>6, <2>1
<1>8. \A i \in DOMAIN X : WellFormed(X[i]) /\ AfterEnd(X[i], buEols')
  BY <1>2, EventsTyped DEF WellFormed, AfterEnd
<1>9. \A e, i : i \in DOMAIN X => MayPrecede(e, X[i])
  BY <1>2 DEF MayPrecede
<1> QED  BY <1>7, <1>8, <1>9, ShiftedEvents

-----------------------------------------------------------------------------
(* How the operations change the events that have not been taken *)

LEMMA StartedPend ==
  ASSUME LumiTypeOK, Events, Buffered, Started
  PROVE  /\ Pend = queue /\ queue # <<>> /\ Pend \in Seq(FileEvent)
         /\ 1 \in DOMAIN Pend /\ Pend[1] = Event /\ WellFormed(Event) /\ AfterEnd(Event, buEols)
<1>1. main.buffer = <<>> /\ queue # <<>> /\ queue \in Seq(FileEvent)
  BY DEF Started, Looping, Buffered, LumiTypeOK
<1>2. Pend = queue
  BY <1>1, ConcatEmptySeq DEF Pend
<1>3. Len(queue) \in Nat \ {0} /\ DOMAIN queue = 1 .. Len(queue)
  BY <1>1, EmptySeq, LenProperties
<1>4. Pend[1] = Event
  BY <1>2 DEF Event
<1> QED  BY <1>1, <1>2, <1>3, <1>4 DEF Events

LEMMA TakeShifts ==
  ASSUME LumiTypeOK, Events, Buffered, Started, main'.buffer = main.buffer,
         NEW X \in Seq(FileEvent), queue' = Tail(queue) \o X
  PROVE  Shifted(Pend, Pend', 1, X)
<1>1. Pend = queue /\ queue # <<>> /\ queue \in Seq(FileEvent)
  BY StartedPend
<1>2. main'.buffer = <<>>
  BY DEF Started, Buffered
<1>3. Tail(queue) \o X \in Seq(FileEvent)
  BY <1>1, HeadTailProperties, ConcatProperties
<1>4. Pend' = Tail(queue) \o X
  BY <1>2, <1>3, ConcatEmptySeq DEF Pend
<1> QED  BY <1>1, <1>4, TailShifts

LEMMA TakeOnlyShifts ==
  ASSUME LumiTypeOK, Events, Buffered, Started, main'.buffer = main.buffer,
         queue' = Tail(queue)
  PROVE  Shifted(Pend, Pend', 1, <<>>) /\ queue' \in Seq(FileEvent)
<1>1. queue # <<>> /\ queue \in Seq(FileEvent)
  BY StartedPend
<1>2. Tail(queue) \in Seq(FileEvent)
  BY <1>1, HeadTailProperties
<1>3. queue' = Tail(queue) \o <<>>
  BY <1>2, ConcatEmptySeq
<1>4. <<>> \in Seq(FileEvent)
  BY EmptySeq
<1> HIDE DEF Started
<1> QED  BY <1>2, <1>3, <1>4, TakeShifts

LEMMA AddShifts ==
  ASSUME LumiTypeOK, main'.buffer = main.buffer,
         NEW X \in Seq(FileEvent), queue' = queue \o X
  PROVE  Shifted(Pend, Pend', 0, X) /\ queue' \in Seq(FileEvent)
<1>1. main.buffer \in Seq(FileEvent) /\ queue \in Seq(FileEvent)
  BY DEF LumiTypeOK, MainState
<1>2. Pend \in Seq(FileEvent) /\ queue' \in Seq(FileEvent)
  BY <1>1, ConcatProperties DEF Pend
<1>3. Pend' = Pend \o X
  <2>1. (main.buffer \o queue) \o X = main.buffer \o (queue \o X)
    BY <1>1, EventsAssociate
  <2> QED  BY <2>1 DEF Pend
<1> QED  BY <1>2, <1>3, AppendShifts

LEMMA ReportShifts ==
  ASSUME LumiTypeOK, main'.buffer = main.buffer, NEW e \in FileEvent, queue' = Append(queue, e)
  PROVE  Shifted(Pend, Pend', 0, <<e>>) /\ queue' \in Seq(FileEvent)
<1>1. queue \in Seq(FileEvent) /\ <<e>> \in Seq(FileEvent)
  BY DEF LumiTypeOK
<1>2. queue' = queue \o <<e>>
  BY <1>1, AppendIsConcat
<1> QED  BY <1>1, <1>2, AddShifts

-----------------------------------------------------------------------------
(* The main loop *)

Results == <<lumi, ledger, errors, dqm, spent>>
\* The types of what a step does to the handlers and to their results.
ResultsTyped ==
  /\ lumi \in [Lumis -> Handler]
  /\ ledger \in [Lumis -> [Streams -> [proc : Nat, err : Nat] \union {Unwritten}]]
  /\ errors \in [Lumis -> Nat]
  /\ dqm \in DqmState
  /\ spent \in [Faults -> Nat]

LEMMA ResultsKept ==
  ASSUME Course, UNCHANGED Results, seen \subseteq seen', buEols \subseteq buEols'
  PROVE  ResultsTyped' /\ HandlersEnded'
<1>1. ResultsTyped'
  BY DEF Course, LumiTypeOK, ResultsTyped, Results
<1>2. HandlersEnded'
  BY DEF Course, HandlersEnded, Results
<1> QED  BY <1>1, <1>2

LEMMA ClosureEnded ==
  ASSUME Course, NEW S \in SUBSET Lumis, NEW hs \in [Lumis -> Handler], CheckClosure(S, hs),
         seen \subseteq seen', seen' \subseteq buEols, buEols' = buEols,
         \A l \in S : hs[l].eols => l \in seen'
  PROVE  ResultsTyped' /\ HandlersEnded'
<1>1. LumiTypeOK
  BY DEF Course
<1>2. /\ \A l \in Lumis : lumi'[l] = IF l \in S THEN Settled(hs[l]) ELSE lumi[l]
      /\ dqm'.cur = dqm.cur
      /\ \A i \in DOMAIN dqm'.q :
           \/ \E j \in DOMAIN dqm.q : dqm'.q[i] = dqm.q[j]
           \/ /\ dqm'.q[i].ls \in S
              /\ dqm'.q[i].stream \in ToMerge(hs[dqm'.q[i].ls])
  BY <1>1, ClosureFacts, ZenonT(60)
<1>3. ResultsTyped'
  BY <1>1, ClosureFacts DEF ResultsTyped
<1>4. HandlersEnded
  BY DEF Course
<1>5. \A l \in Lumis : lumi'[l].eols => l \in seen'
  BY <1>2, <1>4, SettledTyped DEF HandlersEnded
<1>6. \A m \in dqm'.cur : m.ls \in buEols'
  BY <1>2, <1>4 DEF HandlersEnded
<1>7. \A l \in S : \A s \in ToMerge(hs[l]) : l \in buEols
  BY DEF ToMerge, Full
<1>8. \A i \in DOMAIN dqm'.q : dqm'.q[i].ls \in buEols'
  BY <1>2, <1>4, <1>7 DEF HandlersEnded
<1> QED  BY <1>3, <1>5, <1>6, <1>8 DEF HandlersEnded

LEMMA TakenCourse ==
  ASSUME Course, Started, Events', main' \in MainState, main'.buffer = main.buffer,
         main'.started = main.started, queue' \in Seq(FileEvent),
         queued' \subseteq eols', eols \subseteq eols', eols' \subseteq buEols, seen' \subseteq buEols,
         UNCHANGED <<proc, grab, valid, torn, buEols>>, ResultsTyped', HandlersEnded'
  PROVE  Course'
<1>1. buEols \in SUBSET Lumis
  BY DEF Course, LumiTypeOK
<1>2. LumiTypeOK'
  BY <1>1 DEF Course, LumiTypeOK, ResultsTyped
<1>3. Buffered'
  <2>1. main'.started /\ main'.buffer = <<>>
    BY DEF Course, Started, Buffered
  <2> QED  BY <2>1 DEF Buffered
<1>4. BuFirst'
  BY DEF Course, BuFirst
<1>5. LumisEnded'
  BY DEF Course, LumisEnded
<1>6. NotStarted'
  BY DEF Started, NotStarted
<1> QED  BY <1>2, <1>3, <1>4, <1>5, <1>6 DEF Course

LEMMA MainFields ==
  ASSUME main \in MainState
  PROVE  /\ main.buffer \in Seq(FileEvent) /\ main.left \in -1 .. 2 * UseTimeout
         /\ \A b \in Seq(FileEvent) : LET m == [main EXCEPT !.buffer = b, !.index = TRUE]
              IN m \in MainState /\ m.buffer = b /\ m.index /\ m.started = main.started
         /\ \A a \in BOOLEAN :
              LET m == [main EXCEPT !.started = TRUE, !.buffer = <<>>, !.allowEmpty = a]
              IN m \in MainState /\ m.started /\ m.buffer = <<>>
         /\ LET m == [main EXCEPT !.allowEmpty = TRUE]
            IN m \in MainState /\ m.buffer = main.buffer /\ m.started = main.started
         /\ \A a \in {"complete", "abort"} : LET m == [main EXCEPT !.stop = a]
              IN m \in MainState /\ m.buffer = main.buffer /\ m.started = main.started
         /\ \A a \in {"finish", "exited"} : LET m == [main EXCEPT !.pc = a]
              IN /\ m \in MainState /\ m.buffer = main.buffer /\ m.started = main.started
                 /\ m.index = main.index
         /\ \A n \in -1 .. 2 * UseTimeout, a \in BOOLEAN :
              LET m == [main EXCEPT !.left = n, !.skip = a]
              IN /\ m \in MainState /\ m.buffer = main.buffer /\ m.started = main.started
                 /\ m.index = main.index
<1>1. <<>> \in Seq(FileEvent)
  BY EmptySeq
<1> QED  BY <1>1 DEF MainState

\* The main loop takes an event other than an end and writes no file.
LEMMA TakenQuietly ==
  ASSUME Course, Started, Event.kind # "eols", queue' = Tail(queue), queued' = queued, eols' = eols,
         main' \in MainState, main'.buffer = main.buffer, main'.started = main.started,
         UNCHANGED <<seen, proc, grab, valid, torn, buEols>>, ResultsTyped', HandlersEnded'
  PROVE  Course'
<1>1. LumiTypeOK /\ Events /\ Buffered
  BY DEF Course
<1>2. Shifted(Pend, Pend', 1, <<>>) /\ queue' \in Seq(FileEvent)
  BY <1>1, TakeOnlyShifts
<1>3. Pend[1].kind # "eols"
  BY <1>1, StartedPend
<1>4. Plain(<<>>)
  BY DEF Plain
<1>5. Events'
  BY <1>1, <1>2, <1>3, <1>4, PlainEvents
<1>6. queued' \subseteq eols' /\ eols \subseteq eols' /\ eols' \subseteq buEols /\ seen' \subseteq buEols
  BY DEF Course, LumisEnded
<1> QED  BY <1>2, <1>5, <1>6, TakenCourse

\* It takes an event and writes EoLS files of the lumisections in S.
LEMMA TakenWithEnds ==
  ASSUME Course, Started, NEW S \in SUBSET Lumis, S \subseteq buEols, NEW ql,
         ql = IF Event.kind = "eols" THEN queued \ {Event.ls} ELSE queued,
         WriteEoLS(S, Tail(queue), ql), seen' \subseteq buEols,
         main' \in MainState, main'.buffer = main.buffer, main'.started = main.started,
         UNCHANGED <<proc, grab, valid, torn, buEols>>, ResultsTyped', HandlersEnded'
  PROVE  Course'
<1>1. LumiTypeOK /\ Events /\ Buffered
  BY DEF Course
<1>2. Pend[1] = Event /\ queue # <<>> /\ queue \in Seq(FileEvent)
  BY <1>1, StartedPend DEF LumiTypeOK
<1>3. PICK X : EndsOf(X, S \ ql) /\ queue' = Tail(queue) \o X
  BY WritesEnds
<1>4. queued' = ql \union S /\ eols' = eols \union S
  BY DEF WriteEoLS
<1>5. X \in Seq(FileEvent)
  BY <1>3 DEF EndsOf
<1>6. Shifted(Pend, Pend', 1, X)
  BY <1>1, <1>3, <1>5, TakeShifts
<1>7. queue' \in Seq(FileEvent)
  <2>1. Tail(queue) \in Seq(FileEvent)
    BY <1>2, HeadTailProperties
  <2> QED  BY <1>3, <1>5, <2>1, ConcatProperties
<1>8. /\ 1 = 1 /\ Pend[1].kind = "eols" => ql = queued \ {Pend[1].ls}
      /\ ~(1 = 1 /\ Pend[1].kind = "eols") => ql = queued
  BY <1>2
<1>9. Events'
  BY <1>1, <1>3, <1>4, <1>6, <1>8, EndsEvents
<1>10. queued' \subseteq eols' /\ eols \subseteq eols' /\ eols' \subseteq buEols
  <2>1. queued \subseteq eols /\ eols \subseteq buEols /\ ql \subseteq queued
    BY DEF Course, LumisEnded
  <2> QED  BY <1>4, <2>1
<1> QED  BY <1>7, <1>9, <1>10, TakenCourse

LEMMA ConcludeTyped ==
  ASSUME Course, NEW l \in Lumis, NEW h \in Handler
  PROVE  /\ [lumi EXCEPT ![l] = h] \in [Lumis -> Handler]
         /\ [lumi EXCEPT ![l] = h][l] = h
BY DEF Course, LumiTypeOK

LEMMA ConcludeEnded ==
  ASSUME Course, NEW l \in Lumis, NEW h \in Handler, Conclude(l, h),
         seen \subseteq seen', seen' \subseteq buEols, buEols' = buEols, h.eols => l \in seen'
  PROVE  ResultsTyped' /\ HandlersEnded'
<1> DEFINE hs == [lumi EXCEPT ![l] = h]
<1>1. hs \in [Lumis -> Handler] /\ hs[l] = h
  BY ConcludeTyped
<1>2. CheckClosure({l}, hs)
  BY DEF Conclude
<1>3. \A k \in {l} : hs[k].eols => k \in seen'
  BY <1>1
<1> HIDE DEF hs
<1> QED  BY <1>1, <1>2, <1>3, ClosureEnded

LEMMA HandlerOf ==
  ASSUME Course, NEW l \in Lumis, NEW kind
  PROVE  /\ lumi[l] \in Handler /\ NewHandler(kind) \in Handler
         /\ lumi[l].eols => l \in seen
         /\ ~NewHandler(kind).eols
<1>1. lumi[l] \in Handler
  BY DEF Course, LumiTypeOK
<1>2. NewHandler(kind) \in Handler /\ ~NewHandler(kind).eols
  BY NewFields
<1> QED  BY <1>1, <1>2 DEF Course, HandlersEnded

LEMMA TakeIndexCourse ==
  ASSUME Course, TakeIndex
  PROVE  Course'
<1> DEFINE l == Event.ls
           p == Event.pid
           h == IF Open(l) THEN lumi[l] ELSE NewHandler("index")
<1>1. LumiTypeOK /\ Events /\ Buffered /\ Started /\ Event.kind = "index"
  BY DEF Course, TakeIndex
<1>2. WellFormed(Event) /\ AfterEnd(Event, buEols)
  BY <1>1, StartedPend
<1>3. l \in Lumis /\ p \in Pids /\ Event.n = 1 /\ Event.n \in Nat /\ 1 .. (l - 1) \subseteq buEols
  BY <1>1, <1>2 DEF WellFormed, AfterEnd
<1>4. h \in Handler /\ (h.eols => l \in seen)
  <2>1. /\ lumi[l] \in Handler /\ NewHandler("index") \in Handler
        /\ lumi[l].eols => l \in seen
        /\ ~NewHandler("index").eols
    BY <1>3, HandlerOf
  <2> QED  BY <2>1
<1>5. WithIndex(h, p, Event.n) \in Handler /\ WithIndex(h, p, Event.n).eols = h.eols
  BY <1>3, <1>4, IndexFields
<1>6. Conclude(l, WithIndex(h, p, Event.n)) /\ UNCHANGED <<seen, main, proc, grab, valid, torn, buEols>>
  BY DEF TakeIndex
<1>7. seen \subseteq buEols
  BY DEF Course, LumisEnded
<1> HIDE DEF h
<1>8. ResultsTyped' /\ HandlersEnded'
  BY <1>3, <1>4, <1>5, <1>6, <1>7, ConcludeEnded
<1>9. CASE Open(l)
  <2>1. queue' = Tail(queue) /\ queued' = queued /\ eols' = eols
    BY <1>9 DEF TakeIndex
  <2> QED  BY <1>1, <1>6, <1>8, <2>1, TakenQuietly DEF LumiTypeOK
<1>10. CASE ~Open(l)
  <2>1. WriteEoLS(Unended(l), Tail(queue), queued)
    BY <1>10 DEF TakeIndex
  <2>2. Unended(l) \in SUBSET Lumis /\ Unended(l) \subseteq buEols
    <3>1. \A k \in Lumis : k < l => k \in 1 .. (l - 1)
      <4>1. \A k \in Lumis : k \in Nat /\ k >= 1
        BY LumisFinite
      <4> HIDE DEF l
      <4> QED  BY <1>3, <4>1
    <3> QED  BY <1>3, <3>1 DEF Unended
  <2> QED  BY <1>1, <1>6, <1>7, <1>8, <2>1, <2>2, TakenWithEnds DEF LumiTypeOK
<1> QED  BY <1>9, <1>10

LEMMA EarlierEnded ==
  ASSUME Course, NEW l \in buEols, NEW k \in Lumis, k < l
  PROVE  k \in buEols
<1>1. buEols = 1 .. Cardinality(buEols) /\ buEols \in SUBSET Lumis
  BY DEF Course, BuFirst, LumiTypeOK
<1>2. Cardinality(buEols) \in Nat
  BY <1>1, LumisFinite, FS_CardinalityType
<1>3. k \in Nat /\ k >= 1
  BY LumisFinite
<1> DEFINE n == Cardinality(buEols)
<1>4. l \in 1 .. n /\ n \in Nat
  BY <1>1, <1>2
<1> HIDE DEF n
<1>5. k \in 1 .. n
  BY <1>3, <1>4
<1> QED  BY <1>1, <1>5 DEF n

LEMMA TakeEoLSCourse ==
  ASSUME Course, TakeEoLS
  PROVE  Course'
<1> DEFINE l == Event.ls
           h == IF Open(l) THEN lumi[l] ELSE NewHandler("eols")
           g == [h EXCEPT !.eols = TRUE]
<1>1. /\ LumiTypeOK /\ Events /\ Buffered /\ Started /\ Event.kind = "eols"
      /\ UNCHANGED <<main, proc, grab, valid, torn, buEols>>
  BY DEF Course, TakeEoLS
<1>2. /\ WellFormed(Event) /\ AfterEnd(Event, buEols) /\ Pend[1] = Event
      /\ main' \in MainState /\ main'.buffer = main.buffer /\ main'.started = main.started
  BY <1>1, StartedPend DEF LumiTypeOK
<1>3. l \in Lumis /\ l \in buEols
  BY <1>1, <1>2 DEF WellFormed, AfterEnd
<1>4. h \in Handler
  <2>1. lumi[l] \in Handler /\ NewHandler("eols") \in Handler
    BY <1>3, HandlerOf
  <2> QED  BY <2>1
<1>5. g \in Handler
  <2> HIDE DEF h
  <2> QED  BY <1>4, EolsFields
<1>6. queued \subseteq eols /\ eols \subseteq buEols /\ seen \subseteq buEols
  BY DEF Course, LumisEnded
<1> HIDE DEF h, g
<1>7. CASE l \in seen
  <2>1. /\ queue' = Tail(queue) /\ queued' = queued \ {l}
        /\ UNCHANGED Results /\ eols' = eols /\ seen' = seen
    BY <1>7 DEF TakeEoLS, Notify, Results
  <2>2. Shifted(Pend, Pend', 1, <<>>) /\ queue' \in Seq(FileEvent)
    BY <1>1, <1>2, <2>1, TakeOnlyShifts
  <2>3. ResultsTyped' /\ HandlersEnded'
    BY <1>1, <2>1, ResultsKept
  <2>4. EndsOf(<<>>, {} \ (queued \ {l}))
    BY EmptySeq DEF EndsOf
  <2>5. /\ 1 = 1 /\ Pend[1].kind = "eols" => queued \ {l} = queued \ {Pend[1].ls}
        /\ ~(1 = 1 /\ Pend[1].kind = "eols") => queued \ {l} = queued
    BY <1>1, <1>2
  <2>6. Events'
    <3>1. queued' = (queued \ {l}) \union {} /\ {} \in SUBSET Lumis /\ {} \subseteq buEols
      BY <2>1
    <3> HIDE DEF l
    <3> QED  BY <1>1, <2>2, <2>4, <2>5, <3>1, EndsEvents
  <2>7. queued' \subseteq eols' /\ eols \subseteq eols' /\ eols' \subseteq buEols /\ seen' \subseteq buEols
    BY <1>6, <2>1
  <2> QED  BY <1>1, <1>2, <2>2, <2>3, <2>6, <2>7, TakenCourse
<1>8. CASE l \notin seen
  <2>1. /\ seen' = seen \union {l}
        /\ WriteEoLS(Unended(l), Tail(queue), queued \ {l})
        /\ Conclude(l, g) \/ UNCHANGED Results
    BY <1>8 DEF TakeEoLS, Notify, Results, g, h
  <2>2. seen \subseteq seen' /\ seen' \subseteq buEols /\ l \in seen'
    BY <1>3, <1>6, <2>1
  <2>3. ResultsTyped' /\ HandlersEnded'
    <3>1. CASE Conclude(l, g)
      BY <1>1, <1>3, <1>5, <2>2, <3>1, ConcludeEnded
    <3>2. CASE UNCHANGED Results
      BY <1>1, <2>2, <3>2, ResultsKept
    <3> QED  BY <2>1, <3>1, <3>2
  <2>4. Unended(l) \in SUBSET Lumis /\ Unended(l) \subseteq buEols
    BY <1>3, EarlierEnded DEF Unended
  <2>5. queued \ {l} = IF Event.kind = "eols" THEN queued \ {Event.ls} ELSE queued
    BY <1>1
  <2> HIDE DEF l
  <2> QED  BY <1>1, <1>2, <2>1, <2>2, <2>3, <2>4, <2>5, TakenWithEnds
<1> QED  BY <1>7, <1>8

LEMMA TakeJsonCourse ==
  ASSUME Course, TakeJson
  PROVE  Course'
<1> DEFINE l == Event.ls
           p == Event.pid
           s == Event.stream
           h == IF Open(l) THEN lumi[l] ELSE NewHandler("json")
<1>1. /\ LumiTypeOK /\ Events /\ Buffered /\ Started /\ Event.kind = "json"
      /\ queue' = Tail(queue)
      /\ UNCHANGED <<queued, seen, main, proc, grab, valid, torn, eols, buEols>>
  BY DEF Course, TakeJson
<1>2. /\ WellFormed(Event) /\ main' \in MainState /\ main'.buffer = main.buffer
      /\ main'.started = main.started
  BY <1>1, StartedPend DEF LumiTypeOK
<1>3. l \in Lumis /\ p \in Pids /\ s \in Streams /\ Event.n \in Nat
  BY <1>1, <1>2 DEF WellFormed, FileEvent
<1>4. h \in Handler /\ (h.eols => l \in seen)
  <2>1. /\ lumi[l] \in Handler /\ NewHandler("json") \in Handler
        /\ lumi[l].eols => l \in seen
        /\ ~NewHandler("json").eols
    BY <1>3, HandlerOf
  <2> QED  BY <2>1
<1>5. seen \subseteq buEols
  BY DEF Course, LumisEnded
<1>6. \/ UNCHANGED Results
      \/ Conclude(l, WithJson(h, p, s, Event.n))
      \/ Forward(l, h, s) /\ UNCHANGED spent
      \/ lumi' = [lumi EXCEPT ![l] = h] /\ UNCHANGED <<ledger, errors, dqm, spent>>
  BY DEF TakeJson, Results
<1> HIDE DEF h
<1>7. ResultsTyped' /\ HandlersEnded'
  <2>1. CASE UNCHANGED Results
    BY <1>1, <2>1, ResultsKept
  <2>2. CASE Conclude(l, WithJson(h, p, s, Event.n))
    <3>1. WithJson(h, p, s, Event.n) \in Handler /\ WithJson(h, p, s, Event.n).eols = h.eols
      BY <1>3, <1>4, JsonFields DEF Kept
    <3> QED  BY <1>1, <1>3, <1>4, <1>5, <2>2, <3>1, ConcludeEnded
  <2>3. ASSUME NEW g \in Handler, g.eols => l \in seen, lumi' = [lumi EXCEPT ![l] = g],
               UNCHANGED <<errors, dqm, spent>>,
               ledger' \in [Lumis -> [Streams -> [proc : Nat, err : Nat] \union {Unwritten}]]
        PROVE  ResultsTyped' /\ HandlersEnded'
    <3>1. lumi \in [Lumis -> Handler] /\ lumi' \in [Lumis -> Handler]
      BY <1>3, <2>3 DEF Course, LumiTypeOK
    <3>2. \A k \in Lumis : lumi'[k] = IF k = l THEN g ELSE lumi[k]
      BY <1>3, <2>3, <3>1
    <3>3. ResultsTyped'
      BY <1>1, <2>3, <3>1 DEF LumiTypeOK, ResultsTyped
    <3>4. HandlersEnded'
      BY <1>1, <2>3, <3>2 DEF Course, HandlersEnded
    <3> QED  BY <3>3, <3>4
  <2>4. ledger \in [Lumis -> [Streams -> [proc : Nat, err : Nat] \union {Unwritten}]]
    BY <1>1 DEF LumiTypeOK
  <2>5. CASE lumi' = [lumi EXCEPT ![l] = h] /\ UNCHANGED <<ledger, errors, dqm, spent>>
    BY <1>4, <2>3, <2>4, <2>5
  <2>6. CASE Forward(l, h, s) /\ UNCHANGED spent
    <3> DEFINE g == IF h.fwd \union {s} = Streams THEN Closed ELSE [h EXCEPT !.fwd = @ \union {s}]
    <3>1. g \in Handler /\ (g.eols => l \in seen)
      BY <1>3, <1>4, FwdFields, NoHandlerTyped
    <3>2. lumi' = [lumi EXCEPT ![l] = g] /\ UNCHANGED <<errors, dqm, spent>>
      BY <2>6 DEF Forward
    <3>3. ledger' \in [Lumis -> [Streams -> [proc : Nat, err : Nat] \union {Unwritten}]]
      <4> DEFINE R == [proc : Nat, err : Nat] \union {Unwritten}
                 r == [proc |-> 0, err |-> 0]
      <4>1. ledger' = ledger \/ ledger' = [ledger EXCEPT ![l][s] = r]
        BY <2>6 DEF Forward
      <4>2. r \in R
        OBVIOUS
      <4>3. ledger \in [Lumis -> [Streams -> R]]
        BY <2>4
      <4> HIDE DEF R, r
      <4>4. ledger' \in [Lumis -> [Streams -> R]]
        BY <1>3, <4>1, <4>2, <4>3
      <4> QED  BY <4>4 DEF R
    <3> HIDE DEF g
    <3> QED  BY <2>3, <3>1, <3>2, <3>3
  <2> QED  BY <1>6, <2>1, <2>2, <2>5, <2>6
<1> QED  BY <1>1, <1>2, <1>7, TakenQuietly

LEMMA TakeBadCourse ==
  ASSUME Course, TakeBad
  PROVE  Course'
<1> DEFINE l == Event.ls
           p == Event.pid
           s == Event.stream
           h == lumi[l]
<1>1. /\ LumiTypeOK /\ Events /\ Buffered /\ Started /\ Event.kind = "bad"
      /\ queue' = Tail(queue)
      /\ UNCHANGED <<queued, seen, main, proc, grab, valid, torn, eols, buEols>>
  BY DEF Course, TakeBad
<1>2. /\ WellFormed(Event) /\ main' \in MainState /\ main'.buffer = main.buffer
      /\ main'.started = main.started
  BY <1>1, StartedPend DEF LumiTypeOK
<1>3. l \in Lumis /\ p \in Pids /\ s \in Streams
  BY <1>1, <1>2 DEF WellFormed, FileEvent
<1>4. /\ h \in Handler /\ NewHandler("bad") \in Handler
      /\ h.eols => l \in seen
      /\ ~NewHandler("bad").eols
  BY <1>3, HandlerOf
<1>5. seen \subseteq buEols
  BY DEF Course, LumisEnded
<1>6. \/ UNCHANGED Results
      \/ Conclude(l, WithBad(h, p, s))
      \/ lumi' = [lumi EXCEPT ![l] = NewHandler("bad")] /\ UNCHANGED <<ledger, errors, dqm, spent>>
  BY DEF TakeBad, Results
<1> HIDE DEF h
<1>7. ResultsTyped' /\ HandlersEnded'
  <2>1. CASE UNCHANGED Results
    BY <1>1, <2>1, ResultsKept
  <2>2. CASE Conclude(l, WithBad(h, p, s))
    <3>1. WithBad(h, p, s) \in Handler /\ WithBad(h, p, s).eols = h.eols
      BY <1>3, <1>4, BadFields DEF Kept
    <3> QED  BY <1>1, <1>3, <1>4, <1>5, <2>2, <3>1, ConcludeEnded
  <2>3. CASE lumi' = [lumi EXCEPT ![l] = NewHandler("bad")] /\ UNCHANGED <<ledger, errors, dqm, spent>>
    <3>1. lumi \in [Lumis -> Handler] /\ lumi' \in [Lumis -> Handler]
      BY <1>3, <1>4, <2>3 DEF Course, LumiTypeOK
    <3>2. \A k \in Lumis : lumi'[k] = IF k = l THEN NewHandler("bad") ELSE lumi[k]
      BY <1>3, <2>3, <3>1
    <3>3. ResultsTyped'
      BY <1>1, <2>3, <3>1 DEF LumiTypeOK, ResultsTyped
    <3>4. HandlersEnded'
      BY <1>1, <1>4, <2>3, <3>2 DEF Course, HandlersEnded
    <3> QED  BY <3>3, <3>4
  <2> QED  BY <1>6, <2>1, <2>2, <2>3
<1> QED  BY <1>1, <1>2, <1>7, TakenQuietly

\* The handlers that a crash changes.
LEMMA CrashHandlers ==
  ASSUME Course, NEW p \in Pids, NEW hit \in SUBSET Lumis, NEW raw \in [hit -> Nat],
         NEW hs, hs = [l \in Lumis |-> IF l \in hit THEN WithCrash(lumi[l], p, raw[l]) ELSE lumi[l]]
  PROVE  /\ hs \in [Lumis -> Handler]
         /\ \A l \in Lumis : Kept(hs[l], lumi[l])
<1>1. \A l \in hit : /\ WithCrash(lumi[l], p, raw[l]) \in Handler
                     /\ Kept(WithCrash(lumi[l], p, raw[l]), lumi[l])
  <2> TAKE l \in hit
  <2>1. lumi[l] \in Handler /\ raw[l] \in Nat
    BY HandlerOf
  <2> QED  BY <2>1, CrashFields
<1>2. \A l \in Lumis : lumi[l] \in Handler /\ Kept(lumi[l], lumi[l])
  BY DEF Course, LumiTypeOK, Kept
<1> QED  BY <1>1, <1>2

LEMMA TakeCrashCourse ==
  ASSUME Course, TakeCrash
  PROVE  Course'
<1> DEFINE p == Event.pid
           hit == {l \in Lumis : Open(l) /\ lumi[l].pid[p].seen}
<1>1. /\ LumiTypeOK /\ Events /\ Buffered /\ Started /\ Event.kind = "crash"
      /\ queue' = Tail(queue)
      /\ UNCHANGED <<queued, seen, main, proc, grab, valid, torn, eols, buEols>>
  BY DEF Course, TakeCrash
<1>2. /\ WellFormed(Event) /\ main' \in MainState /\ main'.buffer = main.buffer
      /\ main'.started = main.started
  BY <1>1, StartedPend DEF LumiTypeOK
<1>3. p \in Pids /\ seen \subseteq buEols
  BY <1>1, <1>2 DEF WellFormed, Course, LumisEnded
<1>4. PICK raw \in [hit -> 0 .. Max["files"]] :
        CheckClosure(hit, [l \in Lumis |-> IF l \in hit THEN WithCrash(lumi[l], p, raw[l])
                                          ELSE lumi[l]])
  BY DEF TakeCrash
<1> DEFINE hs == [l \in Lumis |-> IF l \in hit THEN WithCrash(lumi[l], p, raw[l]) ELSE lumi[l]]
<1>5. raw \in [hit -> Nat] /\ hit \in SUBSET Lumis
  OBVIOUS
<1>6. hs \in [Lumis -> Handler] /\ \A l \in Lumis : Kept(hs[l], lumi[l])
  <2>1. hs = [l \in Lumis |-> IF l \in hit THEN WithCrash(lumi[l], p, raw[l]) ELSE lumi[l]]
    OBVIOUS
  <2> HIDE DEF hs, hit, p
  <2> QED  BY <1>3, <1>5, <2>1, CrashHandlers
<1>7. CheckClosure(hit, hs)
  BY <1>4
<1> HIDE DEF hs, hit
<1>8. \A l \in hit : hs[l].eols => l \in seen'
  BY <1>1, <1>5, <1>6 DEF Kept, Course, HandlersEnded
<1>9. ResultsTyped' /\ HandlersEnded'
  BY <1>1, <1>3, <1>5, <1>6, <1>7, <1>8, ClosureEnded
<1> QED  BY <1>1, <1>2, <1>9, TakenQuietly

LEMMA TakeMergedCourse ==
  ASSUME Course, TakeMerged
  PROVE  Course'
<1> DEFINE l == Event.ls
           s == Event.stream
<1>1. /\ LumiTypeOK /\ Events /\ Buffered /\ Started /\ Event.kind = "merged"
      /\ queue' = Tail(queue)
      /\ UNCHANGED <<queued, seen, main, proc, grab, valid, torn, eols, buEols>>
  BY DEF Course, TakeMerged
<1>2. /\ WellFormed(Event) /\ main' \in MainState /\ main'.buffer = main.buffer
      /\ main'.started = main.started
  BY <1>1, StartedPend DEF LumiTypeOK
<1>3. l \in Lumis /\ s \in Streams /\ seen \subseteq buEols
  BY <1>1, <1>2 DEF WellFormed, Course, LumisEnded
<1>4. lumi[l] \in Handler /\ (lumi[l].eols => l \in seen)
  BY <1>3, HandlerOf
<1>5. WithMerged(lumi[l], s) \in Handler /\ WithMerged(lumi[l], s).eols = lumi[l].eols
  BY <1>3, <1>4, MergedFields DEF Kept
<1>6. UNCHANGED Results \/ Conclude(l, WithMerged(lumi[l], s))
  BY DEF TakeMerged, Results
<1>7. ResultsTyped' /\ HandlersEnded'
  <2>1. CASE UNCHANGED Results
    BY <1>1, <2>1, ResultsKept
  <2>2. CASE Conclude(l, WithMerged(lumi[l], s))
    BY <1>1, <1>3, <1>4, <1>5, <2>2, ConcludeEnded
  <2> QED  BY <1>6, <2>1, <2>2
<1> QED  BY <1>1, <1>2, <1>7, TakenQuietly

LEMMA TakeProcessingCourse ==
  ASSUME Course, TakeProcessing
  PROVE  Course'
<1>1. /\ LumiTypeOK /\ Started /\ Event.kind = "processing" /\ queue' = Tail(queue)
      /\ UNCHANGED <<queued, seen, proc, grab, valid, torn, eols, buEols>>
      /\ UNCHANGED Results
  BY DEF Course, TakeProcessing, Results
<1>2. main' \in MainState /\ main'.buffer = main.buffer /\ main'.started = main.started
  <2>1. main' = [main EXCEPT !.allowEmpty = TRUE]
    BY DEF TakeProcessing
  <2> QED  BY <1>1, <2>1, MainFields DEF LumiTypeOK
<1>3. ResultsTyped' /\ HandlersEnded'
  BY <1>1, ResultsKept
<1> QED  BY <1>1, <1>2, <1>3, TakenQuietly

LEMMA TakeCompleteCourse ==
  ASSUME Course, TakeComplete
  PROVE  Course'
<1>1. /\ LumiTypeOK /\ Started /\ Event.kind \in {"complete", "abort"}
      /\ UNCHANGED <<seen, proc, grab, valid, torn, buEols>> /\ UNCHANGED Results
  BY DEF Course, TakeComplete, Results
<1>2. main' \in MainState /\ main'.buffer = main.buffer /\ main'.started = main.started
  <2>1. main' = [main EXCEPT !.stop = Event.kind]
    BY DEF TakeComplete
  <2> QED  BY <1>1, <2>1, MainFields DEF LumiTypeOK
<1>3. ResultsTyped' /\ HandlersEnded'
  BY <1>1, ResultsKept
<1>4. CASE Event.kind = "complete"
  <2>1. WriteEoLS(MissingEoLS, Tail(queue), queued)
    BY <1>4 DEF TakeComplete
  <2>2. MissingEoLS \in SUBSET Lumis /\ MissingEoLS \subseteq buEols /\ seen' \subseteq buEols
    BY <1>1 DEF MissingEoLS, Course, LumisEnded
  <2>3. queued = IF Event.kind = "eols" THEN queued \ {Event.ls} ELSE queued
    BY <1>4
  <2> QED  BY <1>1, <1>2, <1>3, <2>1, <2>2, <2>3, TakenWithEnds
<1>5. CASE Event.kind = "abort"
  <2>1. queue' = Tail(queue) /\ queued' = queued /\ eols' = eols
    BY <1>5 DEF TakeComplete
  <2> QED  BY <1>1, <1>2, <1>3, <1>5, <2>1, TakenQuietly
<1> QED  BY <1>1, <1>4, <1>5

-----------------------------------------------------------------------------
(* Before the first lumisection files, and without an event *)

LEMMA HeadFirst ==
  ASSUME NEW q \in Seq(FileEvent), q # <<>>
  PROVE  <<Head(q)>> \o Tail(q) = q
<1>1. /\ Head(q) \in FileEvent /\ Tail(q) \in Seq(FileEvent) /\ Len(Tail(q)) = Len(q) - 1
      /\ \A i \in 1 .. Len(Tail(q)) : Tail(q)[i] = q[i + 1]
  BY HeadTailProperties
<1> DEFINE h == <<Head(q)>>
<1>2. h \in Seq(FileEvent) /\ Len(h) = 1 /\ h[1] = q[1] /\ Len(q) \in Nat \ {0}
  BY <1>1, EmptySeq
<1> HIDE DEF h
<1>3. /\ h \o Tail(q) \in Seq(FileEvent) /\ Len(h \o Tail(q)) = 1 + Len(Tail(q))
      /\ \A i \in 1 .. 1 + Len(Tail(q)) :
           (h \o Tail(q))[i] = IF i <= 1 THEN h[i] ELSE Tail(q)[i - 1]
  <2>1. /\ h \o Tail(q) \in Seq(FileEvent) /\ Len(h \o Tail(q)) = Len(h) + Len(Tail(q))
        /\ \A i \in 1 .. Len(h) + Len(Tail(q)) :
             (h \o Tail(q))[i] = IF i <= Len(h) THEN h[i] ELSE Tail(q)[i - Len(h)]
    BY <1>1, <1>2, ConcatProperties
  <2>2. Len(h) = 1
    BY <1>2
  <2> QED  BY ONLY <2>1, <2>2
<1>4. \A i \in 1 .. Len(q) : (h \o Tail(q))[i] = q[i]
  <2> SUFFICES ASSUME NEW i \in 1 .. Len(q) PROVE (h \o Tail(q))[i] = q[i]
    OBVIOUS
  <2>1. CASE i = 1
    BY <1>1, <1>2, <1>3, <2>1
  <2>2. CASE i # 1
    <3>1. i - 1 \in 1 .. Len(Tail(q)) /\ (i - 1) + 1 = i /\ i \in 1 .. 1 + Len(Tail(q))
      BY <1>1, <1>2, <2>2
    <3>2. ~(i <= 1)
      BY <2>2
    <3> QED  BY <1>1, <1>3, <3>1, <3>2
  <2> QED  BY <2>1, <2>2
<1>5. h \o Tail(q) = q
  BY <1>1, <1>2, <1>3, <1>4, SeqEqual
<1> QED  BY <1>5 DEF h

LEMMA HeadMoves ==
  ASSUME NEW b \in Seq(FileEvent), NEW q \in Seq(FileEvent), q # <<>>
  PROVE  /\ Append(b, Head(q)) \in Seq(FileEvent)
         /\ Append(b, Head(q)) \o Tail(q) = b \o q
         /\ Append(b, Head(q)) \o Tail(q) \in Seq(FileEvent)
<1>1. Head(q) \in FileEvent /\ Tail(q) \in Seq(FileEvent)
  BY HeadTailProperties
<1> DEFINE h == <<Head(q)>>
<1>2. h \in Seq(FileEvent)
  BY <1>1
<1>3. Append(b, Head(q)) = b \o h
  BY <1>1, AppendIsConcat
<1>4. h \o Tail(q) = q
  BY HeadFirst
<1> HIDE DEF h
<1>5. (b \o h) \o Tail(q) = b \o (h \o Tail(q))
  BY <1>1, <1>2, EventsAssociate
<1>6. b \o h \in Seq(FileEvent) /\ b \o q \in Seq(FileEvent)
  BY <1>2, ConcatProperties
<1> QED  BY <1>3, <1>4, <1>5, <1>6

\* Nothing but the place of the events that have not been taken, or the main
\* loop's own state.
LEMMA SameEvents ==
  ASSUME Course, Pend' = Pend, UNCHANGED <<queued, seen, lumi, ledger, errors, dqm, proc, grab,
                                           valid, torn, eols, buEols, spent>>,
         main' \in MainState, queue' \in Seq(FileEvent), Buffered',
         main'.started \/ main'.started = main.started
  PROVE  Course'
<1>1. LumiTypeOK'
  BY DEF Course, LumiTypeOK
<1>2. Events'
  <2>1. Events /\ Pend \in Seq(FileEvent)
    BY DEF Course, Events
  <2>2. Shifted(Pend, Pend', 0, <<>>)
    BY <2>1, NothingShifted
  <2>3. Plain(<<>>)
    BY DEF Plain
  <2> QED  BY <2>1, <2>2, <2>3, PlainEvents
<1>3. BuFirst' /\ LumisEnded' /\ HandlersEnded'
  BY DEF Course, BuFirst, LumisEnded, HandlersEnded
<1>4. NotStarted'
  BY DEF Course, NotStarted
<1> QED  BY <1>1, <1>2, <1>3, <1>4 DEF Course

LEMMA BufferIndexCourse ==
  ASSUME Course, BufferIndex
  PROVE  Course'
<1>1. /\ main \in MainState /\ main.buffer \in Seq(FileEvent) /\ queue \in Seq(FileEvent)
      /\ queue # <<>>
  BY MainFields DEF Course, LumiTypeOK, BufferIndex, Looping
<1> DEFINE b == Append(main.buffer, Event)
<1>2. /\ b \in Seq(FileEvent) /\ b \o Tail(queue) = Pend /\ Tail(queue) \in Seq(FileEvent)
  BY <1>1, HeadMoves, HeadTailProperties DEF Event, Pend
<1>3. main' = [main EXCEPT !.buffer = b, !.index = TRUE] /\ queue' = Tail(queue)
  BY DEF BufferIndex
<1>4. \A i \in DOMAIN b : b[i].kind = "index"
  <2>1. \A i \in DOMAIN main.buffer : main.buffer[i].kind = "index"
    BY DEF Course, Buffered
  <2>2. Event \in FileEvent /\ Event.kind = "index"
    BY <1>1, HeadTailProperties DEF Event, BufferIndex
  <2>3. /\ DOMAIN main.buffer = 1 .. Len(main.buffer) /\ Len(main.buffer) \in Nat
        /\ DOMAIN b = 1 .. Len(b) /\ Len(b) = Len(main.buffer) + 1
        /\ \A i \in 1 .. Len(main.buffer) : b[i] = main.buffer[i]
        /\ b[Len(main.buffer) + 1] = Event
    BY <1>1, <1>2, <2>2, LenProperties, AppendProperties
  <2> HIDE DEF b
  <2> QED  BY <2>1, <2>2, <2>3
<1> HIDE DEF b
<1>5. /\ main' \in MainState /\ main'.buffer = b /\ main'.index = TRUE
      /\ main'.started = main.started
  BY <1>1, <1>2, <1>3, MainFields
<1>6. Pend' = Pend
  BY <1>2, <1>3, <1>5 DEF Pend
<1>7. Buffered'
  BY <1>4, <1>5 DEF Buffered, BufferIndex
<1> QED  BY <1>2, <1>3, <1>5, <1>6, <1>7, SameEvents DEF BufferIndex

LEMMA FlushBufferCourse ==
  ASSUME Course, FlushBuffer
  PROVE  Course'
<1>1. /\ main \in MainState /\ main.buffer \in Seq(FileEvent) /\ queue \in Seq(FileEvent)
      /\ queue # <<>>
  BY MainFields DEF Course, LumiTypeOK, FlushBuffer, Looping
<1>2. /\ Flushed \o Tail(queue) = Pend /\ Flushed \o Tail(queue) \in Seq(FileEvent)
  BY <1>1, HeadMoves DEF Event, Pend, Flushed
<1> DEFINE a == main.allowEmpty \/ Event.kind = "processing"
<1>3. main' = [main EXCEPT !.started = TRUE, !.buffer = <<>>, !.allowEmpty = a]
  BY DEF FlushBuffer
<1>4. a \in BOOLEAN
  BY <1>1 DEF MainState
<1> HIDE DEF a
<1>5. main' \in MainState /\ main'.started /\ main'.buffer = <<>>
  BY <1>1, <1>3, <1>4, MainFields
<1>6. queue' = Flushed \o Tail(queue)
  BY DEF FlushBuffer
<1>7. Pend' = Pend
  BY <1>2, <1>5, <1>6, ConcatEmptySeq DEF Pend
<1>8. Buffered'
  BY <1>5 DEF Buffered
<1> QED  BY <1>2, <1>5, <1>6, <1>7, <1>8, SameEvents DEF FlushBuffer

LEMMA IdleCourse ==
  ASSUME Course, Idle \/ Finish
  PROVE  Course'
<1>1. main \in MainState /\ UseTimeout \in Nat \ {0}
  BY LumiAssumption DEF Course, LumiTypeOK
<1>2. /\ main' \in MainState /\ main'.buffer = main.buffer /\ main'.started = main.started
      /\ main'.index = main.index
  <2>1. CASE main' = [main EXCEPT !.pc = "finish"] \/ main' = [main EXCEPT !.pc = "exited"]
    BY <1>1, <2>1, MainFields
  <2>2. CASE ~(main.left = 0) /\ main' = [main EXCEPT !.left = Countdown,
               !.skip = @ \/ (main.left # -1 /\ main.left <= UseTimeout /\ dqm.up)]
    <3> DEFINE n == Countdown
               a == main.skip \/ (main.left # -1 /\ main.left <= UseTimeout /\ dqm.up)
    <3>1. n \in -1 .. 2 * UseTimeout
      <4>1. main.left \in -1 .. 2 * UseTimeout
        BY <1>1, MainFields
      <4> QED  BY <1>1, <2>2, <4>1 DEF Countdown
    <3>2. a \in BOOLEAN
      BY <1>1 DEF MainState
    <3>3. main' = [main EXCEPT !.left = n, !.skip = a]
      BY <2>2
    <3> HIDE DEF n, a
    <3> QED  BY <1>1, <3>1, <3>2, <3>3, MainFields
  <2> QED  BY <2>1, <2>2 DEF Idle, Finish
<1>3. /\ queue' = queue
      /\ UNCHANGED <<queued, seen, lumi, ledger, errors, dqm, proc, grab, valid, torn,
                     eols, buEols, spent>>
  BY DEF Idle, Finish
<1>4. Pend' = Pend /\ queue' \in Seq(FileEvent)
  BY <1>2, <1>3 DEF Pend, Course, LumiTypeOK
<1>5. Buffered'
  BY <1>2 DEF Course, Buffered
<1> QED  BY <1>2, <1>3, <1>4, <1>5, SameEvents

LEMMA DropEarlyShifts ==
  ASSUME Course, DropEarly
  PROVE  /\ Shifted(Pend, Pend', 1, <<>>) /\ Pend[1].kind = "crash"
         /\ queue' \in Seq(FileEvent)
<1>1. /\ LumiTypeOK /\ Events /\ Buffered /\ NotStarted /\ ~main.started
      /\ queue \in Seq(FileEvent) /\ main.buffer \in Seq(FileEvent) /\ queue # <<>>
      /\ queue' = Tail(queue)
      /\ UNCHANGED <<queued, seen, main, lumi, ledger, errors, dqm, proc, grab, valid, torn,
                     eols, buEols, spent>>
  BY MainFields DEF Course, LumiTypeOK, DropEarly, Looping
<1> DEFINE n == Len(main.buffer)
<1>2. /\ n \in Nat /\ DOMAIN main.buffer = 1 .. n
      /\ Len(queue) \in Nat \ {0} /\ Len(Pend) = n + Len(queue) /\ DOMAIN Pend = 1 .. n + Len(queue)
      /\ \A i \in 1 .. n + Len(queue) : Pend[i] = IF i <= n THEN main.buffer[i] ELSE queue[i - n]
  BY <1>1, ConcatProperties, LenProperties, EmptySeq DEF Pend
<1> HIDE DEF n
<1>3. n + 1 \in DOMAIN Pend /\ Pend[n + 1] = Event
  BY <1>2 DEF Event
<1>4. Event.kind = "crash" /\ ~main.index
  <2>1. SUFFICES ASSUME Event.kind \in {"json", "bad"} PROVE FALSE
    BY <2>1 DEF DropEarly
  <2>2. PICK j \in DOMAIN Pend : j < n + 1 /\ Pend[j].kind = "eols"
    BY <1>1, <1>3, <2>1 DEF NotStarted
  <2>3. j \in 1 .. n /\ Pend[j] = main.buffer[j]
    BY <1>2, <2>2
  <2>4. main.buffer[j].kind = "index"
    BY <1>1, <1>2, <2>3 DEF Buffered
  <2> QED  BY <2>2, <2>3, <2>4
<1>5. main.buffer = <<>>
  BY <1>1, <1>4 DEF Buffered
<1>6. Pend = queue /\ Pend' = Tail(queue) /\ queue' \in Seq(FileEvent)
  <2>1. Tail(queue) \in Seq(FileEvent)
    BY <1>1, HeadTailProperties
  <2> QED  BY <1>1, <1>5, <2>1, ConcatEmptySeq DEF Pend
<1>7. Shifted(Pend, Pend', 1, <<>>)
  <2>1. Tail(queue) \o <<>> = Tail(queue) /\ <<>> \in Seq(FileEvent)
    BY <1>1, <1>6, ConcatEmptySeq, EmptySeq
  <2>2. Shifted(queue, Tail(queue) \o <<>>, 1, <<>>)
    BY <1>1, <2>1, TailShifts
  <2> QED  BY <1>6, <2>1, <2>2
<1>8. Pend[1].kind = "crash"
  BY <1>1, <1>4, <1>6 DEF Event
<1> QED  BY <1>6, <1>7, <1>8

LEMMA DropEarlyCourse ==
  ASSUME Course, DropEarly
  PROVE  Course'
<1>1. /\ LumiTypeOK /\ Events /\ Buffered /\ NotStarted /\ ~main.started
      /\ queue \in Seq(FileEvent) /\ main.buffer \in Seq(FileEvent) /\ queue # <<>>
      /\ queue' = Tail(queue)
      /\ UNCHANGED <<queued, seen, main, lumi, ledger, errors, dqm, proc, grab, valid, torn,
                     eols, buEols, spent>>
  BY MainFields DEF Course, LumiTypeOK, DropEarly, Looping
<1>7. Shifted(Pend, Pend', 1, <<>>) /\ queue' \in Seq(FileEvent)
  BY DropEarlyShifts
<1>8. Pend[1].kind = "crash"
  BY DropEarlyShifts
<1>9. Events'
  <2>1. Plain(<<>>)
    BY DEF Plain
  <2> QED  BY <1>1, <1>7, <1>8, <2>1, PlainEvents
<1>10. NotStarted'
  <2>1. \A i \in DOMAIN Pend : i > 1 => i - 1 \in DOMAIN Pend' /\ Pend'[i - 1] = Pend[i]
    BY <1>7, ShiftedTo
  <2>2. \A i \in DOMAIN Pend' : i + 1 \in DOMAIN Pend /\ Pend'[i] = Pend[i + 1]
    <3>1. DOMAIN <<>> = {}
      OBVIOUS
    <3> QED  BY <1>7, <3>1, ShiftedFrom
  <2>3. \A i \in DOMAIN Pend : i \in Nat /\ i >= 1 /\ (Pend[i].kind # "crash" => i > 1)
    <3>1. \A i \in DOMAIN Pend : i \in Nat /\ i >= 1
      BY <1>7, LenProperties DEF Shifted
    <3> QED  BY <1>8, <3>1
  <2>4. \A i \in DOMAIN Pend' : i \in Nat
    BY <1>7, LenProperties DEF Shifted
  <2>5. \A i \in DOMAIN Pend' : Pend'[i].kind \in {"json", "bad"} =>
          \E j \in DOMAIN Pend' : j < i /\ Pend'[j].kind = "eols"
    <3> SUFFICES ASSUME NEW i \in DOMAIN Pend', Pend'[i].kind \in {"json", "bad"}
                 PROVE  \E j \in DOMAIN Pend' : j < i /\ Pend'[j].kind = "eols"
      OBVIOUS
    <3>1. PICK j \in DOMAIN Pend : j < i + 1 /\ Pend[j].kind = "eols"
      BY <1>1, <2>2 DEF NotStarted
    <3>2. j > 1 /\ j - 1 < i /\ j - 1 \in DOMAIN Pend' /\ Pend'[j - 1] = Pend[j]
      BY <2>1, <2>3, <2>4, <3>1
    <3> QED  BY <3>1, <3>2
  <2>6. eols # {} => \E i \in DOMAIN Pend' : Pend'[i].kind = "eols"
    BY <1>1, <2>1, <2>3 DEF NotStarted
  <2>7. \A i \in DOMAIN Pend' : Pend'[i].kind # "merged"
    BY <1>1, <2>2 DEF NotStarted
  <2> QED  BY <1>1, <2>5, <2>6, <2>7 DEF NotStarted
<1>11. LumiTypeOK' /\ Buffered' /\ BuFirst' /\ LumisEnded' /\ HandlersEnded'
  BY <1>1, <1>7 DEF Course, LumiTypeOK, Buffered, BuFirst, LumisEnded, HandlersEnded
<1> QED  BY <1>9, <1>10, <1>11 DEF Course

-----------------------------------------------------------------------------
(* The merging thread *)

LEMMA MaxTyped == Max["files"] \in Nat /\ Max["queue"] \in Nat
BY LumiAssumption

\* The events of the processes in Q are some of those that the handler has counted.
LEMMA ReadByTyped ==
  ASSUME NEW h, NEW Q \in SUBSET Pids
  PROVE  ReadBy(h, Q) \in Nat
<1> DEFINE S == {f \in Q \X (1 .. Max["files"]) : f[2] <= h.pid[f[1]].n}
<1>1. IsFiniteSet(Q) /\ IsFiniteSet(1 .. Max["files"])
  BY LumiAssumption, FS_Subset, FS_Interval, MaxTyped
<1>2. IsFiniteSet(Q \X (1 .. Max["files"]))
  BY <1>1, FS_Product
<1>3. S \in SUBSET (Q \X (1 .. Max["files"]))
  OBVIOUS
<1> HIDE DEF S
<1>4. Cardinality(S) \in Nat
  BY <1>2, <1>3, FS_Subset, FS_CardinalityType
<1> QED  BY <1>4 DEF ReadBy, S

LEMMA MergedTyped ==
  ASSUME NEW h \in Handler, NEW s \in Streams, NEW kept \in SUBSET Pids
  PROVE  MergedCounts(h, s, kept) \in [proc : Nat, err : Nat]
<1> DEFINE rest == {p \in Pids : s \in h.pid[p].merged} \ kept
           a == ReadBy(h, kept)
           b == ReadBy(h, rest)
           n == h.out[s].proc + h.out[s].err
<1>1. a \in Nat /\ b \in Nat /\ n \in Nat
  <2>1. rest \in SUBSET Pids
    OBVIOUS
  <2> HIDE DEF rest
  <2> QED  BY <2>1, ReadByTyped, HandlerFields
<1>2. MergedCounts(h, s, kept) = [proc |-> a, err |-> IF n > a + b THEN n - a ELSE b]
  BY DEF MergedCounts
<1> HIDE DEF a, b, n
<1>3. (IF n > a + b THEN n - a ELSE b) \in Nat
  BY <1>1
<1> QED  BY <1>1, <1>2, <1>3

\* The processes in kept are those whose files are merged.
TakesMerge(m, kept) ==
  /\ kept \subseteq {p \in Pids : m.stream \in lumi[m.ls].pid[p].merged}
  /\ main.skip => kept = {}
  /\ \E b \in BOOLEAN : SpendIf(b, "lost")
  /\ dqm' = [dqm EXCEPT !.cur = {m}, !.q = Tail(@),
                        !.counts = MergedCounts(lumi[m.ls], m.stream, kept)]

LEMMA MergeTaken ==
  ASSUME DqmTake
  PROVE  \E kept \in SUBSET Pids : TakesMerge(Head(dqm.q), kept)
<1> DEFINE m == Head(dqm.q)
           inputs == {p \in Pids : m.stream \in lumi[m.ls].pid[p].merged}
<1>1. PICK kept \in SUBSET inputs :
        /\ main.skip => kept = {}
        /\ SpendIf(kept # inputs /\ ~main.skip, "lost")
        /\ dqm' = [dqm EXCEPT !.cur = {m}, !.q = Tail(@),
                              !.counts = MergedCounts(lumi[m.ls], m.stream, kept)]
  BY DEF DqmTake
<1>2. \E b \in BOOLEAN : SpendIf(b, "lost")
  <2>1. Spend("lost") \/ UNCHANGED spent
    BY <1>1 DEF SpendIf
  <2>2. SpendIf(TRUE, "lost") \/ SpendIf(FALSE, "lost")
    BY <2>1 DEF SpendIf
  <2> QED  BY <2>2
<1>3. kept \in SUBSET Pids
  OBVIOUS
<1> HIDE DEF m
<1> QED  BY <1>1, <1>2, <1>3 DEF TakesMerge, m

LEMMA DqmTakeCourse ==
  ASSUME Course, DqmTake
  PROVE  Course'
<1>1. /\ LumiTypeOK /\ dqm \in DqmState /\ dqm.q \in Seq(Merge) /\ dqm.q # <<>> /\ main \in MainState
      /\ UNCHANGED <<queue, queued, seen, main, lumi, ledger, errors, proc, grab, valid, torn,
                     eols, buEols>>
  BY DEF Course, LumiTypeOK, DqmState, DqmTake
<1>a. PICK kept \in SUBSET Pids : TakesMerge(Head(dqm.q), kept)
  BY MergeTaken
<1> DEFINE c == {Head(dqm.q)}
           t == Tail(dqm.q)
           e == MergedCounts(lumi[Head(dqm.q).ls], Head(dqm.q).stream, kept)
<1>2. c \in SUBSET Merge /\ t \in Seq(Merge) /\ e \in [proc : Nat, err : Nat] /\ spent' \in [Faults -> Nat]
  <2>1. Head(dqm.q) \in Merge /\ t \in Seq(Merge)
    BY <1>1, HeadTailProperties
  <2>2. lumi[Head(dqm.q).ls] \in Handler /\ Head(dqm.q).stream \in Streams
    BY <1>1, <2>1 DEF Merge, LumiTypeOK
  <2>3. e \in [proc : Nat, err : Nat]
    BY <2>2, MergedTyped
  <2>4. spent' \in [Faults -> Nat]
    BY <1>1, <1>a, FaultSpentIf DEF LumiTypeOK, Faults, TakesMerge
  <2> QED  BY <2>1, <2>3, <2>4
<1>3. dqm' = [dqm EXCEPT !.cur = c, !.q = t, !.counts = e]
  BY <1>a DEF TakesMerge
<1>4. /\ 1 \in DOMAIN dqm.q /\ Head(dqm.q) = dqm.q[1]
      /\ \A i \in DOMAIN t : i + 1 \in DOMAIN dqm.q /\ t[i] = dqm.q[i + 1]
  <2>1. Len(dqm.q) \in Nat \ {0} /\ DOMAIN dqm.q = 1 .. Len(dqm.q)
    BY <1>1, EmptySeq, LenProperties
  <2>2. Len(t) = Len(dqm.q) - 1 /\ \A i \in 1 .. Len(t) : t[i] = dqm.q[i + 1]
    BY <1>1, HeadTailProperties
  <2>3. DOMAIN t = 1 .. Len(t)
    BY <1>2, LenProperties
  <2> HIDE DEF t
  <2> QED  BY <2>1, <2>2, <2>3
<1>5. \A m \in c : m = dqm.q[1]
  BY <1>4
<1> HIDE DEF c, t, e
<1>6. dqm' \in DqmState /\ dqm'.cur = c /\ dqm'.q = t
  BY <1>1, <1>2, <1>3 DEF DqmState
<1>7. LumiTypeOK'
  BY <1>1, <1>2, <1>6 DEF LumiTypeOK
<1>8. Pend' = Pend /\ Events'
  BY <1>1, SMTT(60) DEF Pend, Course, Events, Counted, Ends
<1>9. HandlersEnded'
  BY <1>1, <1>4, <1>5, <1>6 DEF Course, HandlersEnded
<1>10. NotStarted'
  BY <1>1, <1>8 DEF Course, NotStarted
<1>11. Buffered' /\ BuFirst' /\ LumisEnded'
  BY <1>1 DEF Course, Buffered, BuFirst, LumisEnded
<1> QED  BY <1>7, <1>8, <1>9, <1>10, <1>11 DEF Course

LEMMA DqmDoneCourse ==
  ASSUME Course, DqmDone
  PROVE  Course'
<1>1. /\ LumiTypeOK /\ dqm \in DqmState /\ main \in MainState /\ lumi \in [Lumis -> Handler]
      /\ dqm' = [dqm EXCEPT !.cur = {}, !.counts = NoCounts]
      /\ UNCHANGED <<queued, seen, main, ledger, errors, proc, grab, valid, torn, eols, buEols, spent>>
  BY DEF Course, LumiTypeOK, DqmDone
<1>2. PICK m \in dqm.cur :
        /\ lumi' = [lumi EXCEPT ![m.ls].out[m.stream] = Merged(@, dqm.counts)]
        /\ queue' = Append(queue, Ev("merged", m.ls, NoPid, m.stream, 0))
  BY DEF DqmDone
<1> DEFINE l == m.ls
           s == m.stream
           e == Ev("merged", l, NoPid, s, 0)
           c == dqm.counts
           o == Merged(lumi[l].out[s], c)
           b == [lumi[l].out EXCEPT ![s] = o]
           g == [lumi[l] EXCEPT !.out = b]
<1>3. l \in Lumis /\ s \in Streams /\ l \in buEols
  BY <1>1 DEF DqmState, Merge, Course, HandlersEnded
<1>4. main.started
  BY <1>2 DEF Course, NotStarted
<1>5. lumi[l] \in Handler /\ lumi[l].out \in [Streams -> OutFile] /\ lumi[l].out[s] \in OutFile
  BY <1>1, <1>3, HandlerFields
<1>6. o \in OutFile
  <2> DEFINE w == lumi[l].out[s]
  <2>1. w \in OutFile /\ c \in [proc : Nat, err : Nat]
    BY <1>1, <1>5 DEF DqmState
  <2>2. o = Merged(w, c)
    OBVIOUS
  <2> HIDE DEF o, w, c
  <2> QED  BY <2>1, <2>2, CountsFields
<1>7. lumi' = [lumi EXCEPT ![l] = g]
  BY <1>1, <1>2, <1>3, <1>5 DEF Handler
<1> HIDE DEF o
<1>8. b \in [Streams -> OutFile]
  BY <1>3, <1>5, <1>6
<1> HIDE DEF b
<1>9. g \in Handler /\ g.eols = lumi[l].eols
  <2> DEFINE h == lumi[l]
  <2>1. h \in Handler
    BY <1>5
  <2>2. g = [h EXCEPT !.out = b]
    OBVIOUS
  <2> HIDE DEF g, h
  <2>3. g \in Handler /\ g.eols = h.eols
    BY <1>8, <2>1, <2>2 DEF Handler
  <2> QED  BY <2>3 DEF h
<1> HIDE DEF g
<1>10. lumi' \in [Lumis -> Handler] /\ \A k \in Lumis : lumi'[k] = IF k = l THEN g ELSE lumi[k]
  BY <1>1, <1>3, <1>7, <1>9
<1>11. e \in FileEvent /\ WellFormed(e) /\ e.kind = "merged" /\ e.ls = l
  <2>1. e \in FileEvent
    BY <1>3, EventsTyped
  <2> QED  BY <1>3, <2>1 DEF Ev, WellFormed
<1>12. Shifted(Pend, Pend', 0, <<e>>) /\ queue' \in Seq(FileEvent)
  BY <1>1, <1>2, <1>11, ReportShifts
<1>13. dqm' \in DqmState /\ dqm'.cur = {} /\ dqm'.q = dqm.q
  <2>1. NoCounts \in [proc : Nat, err : Nat]
    BY DEF NoCounts
  <2> QED  BY <1>1, <2>1 DEF DqmState
<1>14. spent' \in [Faults -> Nat]
  BY <1>1 DEF LumiTypeOK
<1> HIDE DEF l, s, e
<1>15. Plain(<<e>>)
  <2>1. DOMAIN <<e>> = {1} /\ <<e>>[1] = e
    OBVIOUS
  <2> QED  BY <1>1, <1>3, <1>11, <2>1 DEF Plain
<1>16. Events'
  BY <1>1, <1>12, <1>15, PlainEvents DEF Course
<1>17. LumiTypeOK'
  BY <1>1, <1>10, <1>12, <1>13, <1>14 DEF LumiTypeOK
<1>18. HandlersEnded'
  BY <1>1, <1>9, <1>10, <1>13 DEF Course, HandlersEnded
<1>19. Buffered' /\ BuFirst' /\ LumisEnded' /\ NotStarted'
  BY <1>1, <1>4 DEF Course, Buffered, BuFirst, LumisEnded, NotStarted
<1> QED  BY <1>16, <1>17, <1>18, <1>19 DEF Course

-----------------------------------------------------------------------------
(* The BU, the processes and hltd *)

\* The types of what is outside the script.
OutsideTyped ==
  /\ queued \in SUBSET Lumis
  /\ proc \in [Pids -> ProcState]
  /\ grab \in [Lumis -> [Pids -> Nat]]
  /\ valid \in [Lumis -> [Pids -> SUBSET Streams]]
  /\ torn \in [Lumis -> [Pids -> SUBSET Streams]]
  /\ eols \in SUBSET Lumis
  /\ buEols \in SUBSET Lumis
  /\ spent \in [Faults -> Nat]

\* The files X appear.
LEMMA AddedCourse ==
  ASSUME Course, UNCHANGED scriptVars, NEW X \in Seq(FileEvent), queue' = queue \o X,
         Events', OutsideTyped', BuFirst', LumisEnded', buEols \subseteq buEols',
         eols' = eols \/ \E i \in DOMAIN X : X[i].kind = "eols",
         \A i \in DOMAIN X : X[i].kind # "merged" /\ (X[i].kind \in {"json", "bad"} => eols # {})
  PROVE  Course'
<1>1. /\ LumiTypeOK /\ UNCHANGED <<seen, main, lumi, ledger, errors, dqm>>
  BY DEF Course, scriptVars
<1>2. Shifted(Pend, Pend', 0, X) /\ queue' \in Seq(FileEvent)
  BY <1>1, AddShifts
<1>3. LumiTypeOK'
  BY <1>1, <1>2 DEF LumiTypeOK, OutsideTyped
<1>4. Buffered' /\ HandlersEnded'
  BY <1>1 DEF Course, Buffered, HandlersEnded
<1>5. NotStarted'
  <2> SUFFICES ASSUME ~main.started PROVE NotStarted'
    BY <1>1 DEF NotStarted
  <2>1. /\ lumi = [l \in Lumis |-> NoHandler] /\ seen = {} /\ dqm.q = <<>> /\ dqm.cur = {}
        /\ eols # {} => \E i \in DOMAIN Pend : Pend[i].kind = "eols"
        /\ \A i \in DOMAIN Pend :
             /\ Pend[i].kind # "merged"
             /\ Pend[i].kind \in {"json", "bad"} =>
                  \E j \in DOMAIN Pend : j < i /\ Pend[j].kind = "eols"
    BY DEF Course, NotStarted
  <2>2. /\ DOMAIN Pend = 1 .. Len(Pend) /\ Len(Pend) \in Nat
        /\ DOMAIN Pend' = 1 .. Len(Pend') /\ Len(Pend') \in Nat
    BY <1>2, LenProperties DEF Shifted
  <2>3. /\ \A i \in DOMAIN Pend : i \in DOMAIN Pend' /\ Pend'[i] = Pend[i]
        /\ \A i \in DOMAIN X : Len(Pend) + i \in DOMAIN Pend' /\ Pend'[Len(Pend) + i] = X[i]
    <3>1. /\ \A i \in DOMAIN Pend : i > 0 => i - 0 \in DOMAIN Pend' /\ Pend'[i - 0] = Pend[i]
          /\ \A i \in DOMAIN X : Len(Pend) - 0 + i \in DOMAIN Pend' /\ Pend'[Len(Pend) - 0 + i] = X[i]
      BY <1>2, ShiftedTo
    <3>2. \A i \in DOMAIN Pend : i > 0 /\ i - 0 = i
      BY <2>2
    <3>3. Len(Pend) - 0 = Len(Pend)
      BY <2>2
    <3> QED  BY <3>1, <3>2, <3>3
  <2>4. \A i \in DOMAIN Pend' : \/ i \in DOMAIN Pend /\ Pend'[i] = Pend[i]
                                \/ /\ i > Len(Pend) /\ i - Len(Pend) \in DOMAIN X
                                   /\ Pend'[i] = X[i - Len(Pend)]
    <3>1. \A i \in DOMAIN Pend' :
            \/ i + 0 \in DOMAIN Pend /\ Pend'[i] = Pend[i + 0] /\ i <= Len(Pend) - 0
            \/ /\ i > Len(Pend) - 0 /\ i - (Len(Pend) - 0) \in DOMAIN X
               /\ Pend'[i] = X[i - (Len(Pend) - 0)]
      BY <1>2, ShiftedFrom
    <3>2. Len(Pend) - 0 = Len(Pend) /\ \A i \in DOMAIN Pend' : i + 0 = i
      BY <2>2
    <3> QED  BY <3>1, <3>2
  <2>5. eols' # {} => \E i \in DOMAIN Pend' : Pend'[i].kind = "eols"
    BY <2>1, <2>3
  <2>6. \A i \in DOMAIN Pend' : Pend'[i].kind # "merged"
    BY <2>1, <2>4
  <2>7. \A i \in DOMAIN Pend' : Pend'[i].kind \in {"json", "bad"} =>
          \E j \in DOMAIN Pend' : j < i /\ Pend'[j].kind = "eols"
    <3> SUFFICES ASSUME NEW i \in DOMAIN Pend', Pend'[i].kind \in {"json", "bad"}
                 PROVE  \E j \in DOMAIN Pend : j < i /\ Pend[j].kind = "eols"
      BY <2>3
    <3>1. CASE i \in DOMAIN Pend /\ Pend'[i] = Pend[i]
      BY <2>1, <3>1
    <3>2. CASE i > Len(Pend) /\ i - Len(Pend) \in DOMAIN X /\ Pend'[i] = X[i - Len(Pend)]
      <4>1. PICK j \in DOMAIN Pend : Pend[j].kind = "eols"
        BY <2>1, <3>2
      <4> QED  BY <2>2, <3>2, <4>1
    <3> QED  BY <2>4, <3>1, <3>2
  <2> QED  BY <1>1, <2>1, <2>5, <2>6, <2>7 DEF NotStarted
<1> QED  BY <1>3, <1>4, <1>5 DEF Course

\* One file appears, or none, that is neither an index file nor an EoLS file.
LEMMA NoFileCourse ==
  ASSUME Course, UNCHANGED scriptVars, UNCHANGED <<queue, queued, eols>>,
         OutsideTyped', BuFirst', LumisEnded', buEols \subseteq buEols'
  PROVE  Course'
<1>1. LumiTypeOK /\ Events /\ UNCHANGED main
  BY DEF Course, scriptVars
<1>2. queue' = queue \o <<>> /\ <<>> \in Seq(FileEvent)
  BY <1>1, ConcatEmptySeq, EmptySeq DEF LumiTypeOK
<1>3. Shifted(Pend, Pend', 0, <<>>)
  BY <1>1, <1>2, AddShifts
<1>4. Plain(<<>>)
  BY DEF Plain
<1>5. Events'
  BY <1>1, <1>3, <1>4, PlainEvents
<1>6. /\ eols' = eols
      /\ \A i \in DOMAIN <<>> :
           <<>>[i].kind # "merged" /\ (<<>>[i].kind \in {"json", "bad"} => eols # {})
  OBVIOUS
<1> QED  BY <1>2, <1>5, <1>6, AddedCourse

LEMMA ReportCourse ==
  ASSUME Course, UNCHANGED scriptVars, NEW e, Report(e), UNCHANGED <<eols, buEols>>,
         WellFormed(e), e.kind \notin {"index", "eols", "merged"},
         e.kind \in {"json", "bad"} => e.ls \in eols,
         OutsideTyped', LumisEnded'
  PROVE  Course'
<1>1. LumiTypeOK /\ Events /\ UNCHANGED main /\ eols \subseteq buEols /\ buEols' = buEols
  BY DEF Course, scriptVars, LumisEnded
<1>2. e \in FileEvent /\ <<e>> \in Seq(FileEvent) /\ DOMAIN <<e>> = {1} /\ <<e>>[1] = e
  BY DEF WellFormed
<1>3. queue' = queue \o <<e>> /\ queued' = queued
  BY <1>1, <1>2, AppendIsConcat DEF Report, LumiTypeOK
<1>4. Shifted(Pend, Pend', 0, <<e>>)
  BY <1>1, <1>2, <1>3, AddShifts
<1>5. Plain(<<e>>)
  BY <1>1, <1>2 DEF Plain
<1>6. Events'
  BY <1>1, <1>3, <1>4, <1>5, PlainEvents
<1>7. BuFirst'
  BY <1>1 DEF Course, BuFirst
<1>8. \A i \in DOMAIN <<e>> :
        <<e>>[i].kind # "merged" /\ (<<e>>[i].kind \in {"json", "bad"} => eols # {})
  BY <1>2
<1>9. eols' = eols
  OBVIOUS
<1> QED  BY <1>1, <1>2, <1>3, <1>6, <1>7, <1>8, <1>9, AddedCourse

LEMMA EndsCounted ==
  ASSUME Course
  PROVE  /\ Cardinality(buEols) \in Nat /\ IsFiniteSet(buEols)
         /\ \A l \in Lumis : l \in buEols <=> l <= Cardinality(buEols)
<1>1. buEols = 1 .. Cardinality(buEols) /\ buEols \in SUBSET Lumis
  BY DEF Course, BuFirst, LumiTypeOK
<1>2. Cardinality(buEols) \in Nat /\ IsFiniteSet(buEols)
  BY <1>1, LumisFinite, FS_CardinalityType
<1> DEFINE n == Cardinality(buEols)
<1>3. buEols = 1 .. n /\ n \in Nat
  BY <1>1, <1>2
<1> HIDE DEF n
<1>4. \A l \in Lumis : l \in buEols <=> l <= n
  BY <1>3, LumisFinite
<1> QED  BY <1>2, <1>4 DEF n

\* What a step of a process may do with the process.
LEMMA ProcTyped ==
  ASSUME Course, NEW p \in Pids
  PROVE  /\ proc \in [Pids -> ProcState] /\ proc[p] \in ProcState
         /\ \A x \in ProcState : [proc EXCEPT ![p] = x] \in [Pids -> ProcState]
         /\ \A x, q : q \in Pids => [proc EXCEPT ![p] = x][q] = IF q = p THEN x ELSE proc[q]
BY DEF Course, LumiTypeOK

LEMMA BuEndsCourse ==
  ASSUME Course, NEW l \in Lumis, BuEnds(l)
  PROVE  Course'
<1>1. /\ LumiTypeOK /\ UNCHANGED scriptVars
      /\ UNCHANGED <<queue, queued, proc, grab, valid, torn, eols, spent>>
  BY DEF Course, BuEnds
<1> DEFINE n == Cardinality(buEols)
<1>2. l = n + 1 /\ buEols' = buEols \union {l} /\ n \in Nat /\ IsFiniteSet(buEols)
  BY EndsCounted DEF BuEnds
<1>3. buEols = 1 .. n
  BY DEF Course, BuFirst
<1>4. l \notin buEols
  <2> HIDE DEF n
  <2> QED  BY <1>2, <1>3
<1>5. Cardinality(buEols') = n + 1
  BY <1>2, <1>4, FS_AddElement
<1>6. BuFirst'
  <2> HIDE DEF n
  <2>1. buEols' = 1 .. n + 1
    BY <1>2, <1>3
  <2> QED  BY <1>5, <2>1 DEF BuFirst
<1>7. LumisEnded'
  <2>1. \A p \in Pids : proc[p].ls <= n + 1 /\ proc[p].ls \in Nat
    <3>1. \A p \in Pids : proc[p].ls <= n + 1
      BY DEF Course, LumisEnded, scriptVars
    <3>2. \A p \in Pids : proc[p] \in ProcState
      BY <1>1 DEF LumiTypeOK
    <3>3. \A x \in ProcState : x.ls \in Nat
      BY LumiAssumption DEF ProcState
    <3> QED  BY <3>1, <3>2, <3>3
  <2> HIDE DEF n
  <2>2. \A p \in Pids : proc'[p].ls <= Cardinality(buEols') + 1
    BY <1>1, <1>2, <1>5, <2>1
  <2> QED  BY <1>1, <1>2, <2>2 DEF Course, LumisEnded, scriptVars
<1>8. OutsideTyped'
  BY <1>1, <1>2 DEF LumiTypeOK, OutsideTyped
<1>9. UNCHANGED <<queue, queued, eols>> /\ buEols \subseteq buEols'
  BY <1>1, <1>2
<1> QED  BY <1>1, <1>6, <1>7, <1>8, <1>9, NoFileCourse

LEMMA BeginCourse ==
  ASSUME Course, NEW p \in Pids, Begin(p)
  PROVE  Course'
<1>1. /\ LumiTypeOK /\ UNCHANGED scriptVars
      /\ UNCHANGED <<queue, queued, grab, valid, torn, eols, buEols, spent>>
  BY DEF Course, Begin
<1> DEFINE n == Cardinality(buEols)
           w == proc[p]
           a == "work"
           k == n + 1
           x == [w EXCEPT !.st = a, !.ls = k]
<1>2. w \in ProcState
  BY ProcTyped
<1>3. proc' = [proc EXCEPT ![p] = x]
  BY DEF Begin, Course, LumiTypeOK
<1>4. k \in 1 .. NLumis + 1
  <2>1. buEols \in SUBSET Lumis /\ buEols = 1 .. n /\ n \in Nat
    BY <1>1, EndsCounted DEF LumiTypeOK, Course, BuFirst
  <2> HIDE DEF n
  <2>2. n \in 0 .. NLumis
    <3>1. CASE n = 0
      BY <3>1, LumiAssumption
    <3>2. CASE n # 0
      <4>1. n \in Lumis
        BY <2>1, <3>2
      <4> QED  BY <4>1, LumiAssumption DEF Lumis
    <3> QED  BY <3>1, <3>2
  <2> QED  BY <2>2, LumiAssumption
<1> HIDE DEF w, k
<1>5. x \in ProcState /\ x.ls = k /\ x.st = "work"
  BY <1>2, <1>4 DEF ProcState
<1> HIDE DEF x
<1>6. proc' \in [Pids -> ProcState] /\ \A q \in Pids : proc'[q] = IF q = p THEN x ELSE proc[q]
  BY <1>3, <1>5, ProcTyped
<1>7. OutsideTyped'
  BY <1>1, <1>6 DEF LumiTypeOK, OutsideTyped
<1>8. LumisEnded'
  <2>1. k <= n + 1
    BY EndsCounted DEF k
  <2> QED  BY <1>1, <1>5, <1>6, <2>1 DEF Course, LumisEnded, scriptVars
<1>9. BuFirst' /\ buEols \subseteq buEols' /\ UNCHANGED <<queue, queued, eols>>
  BY <1>1 DEF Course, BuFirst
<1> QED  BY <1>1, <1>7, <1>8, <1>9, NoFileCourse

LEMMA DieCourse ==
  ASSUME Course, NEW p \in Pids, Die(p) \/ ReportCrash(p)
  PROVE  Course'
<1>1. /\ LumiTypeOK /\ UNCHANGED scriptVars
      /\ UNCHANGED <<queued, grab, valid, torn, eols, buEols>>
  BY DEF Course, Die, ReportCrash, Report
<1> DEFINE w == proc[p]
<1>2. w \in ProcState
  BY ProcTyped
<1>3. PICK a \in {"died", "crashed"} : proc' = [proc EXCEPT ![p].st = a]
  BY DEF Die, ReportCrash
<1> DEFINE x == [w EXCEPT !.st = a]
<1>4. proc' = [proc EXCEPT ![p] = x]
  BY <1>3 DEF Course, LumiTypeOK
<1> HIDE DEF w
<1>5. x \in ProcState /\ x.ls = w.ls /\ x.st = a
  BY <1>2 DEF ProcState
<1> HIDE DEF x
<1>6. proc' \in [Pids -> ProcState] /\ \A q \in Pids : proc'[q] = IF q = p THEN x ELSE proc[q]
  BY <1>4, <1>5, ProcTyped
<1>7. LumisEnded'
  BY <1>1, <1>5, <1>6 DEF Course, LumisEnded, scriptVars, w
<1>8. CASE Die(p)
  <2>1. spent' \in [Faults -> Nat]
    <3>1. "crash" \in Faults /\ spent \in [Faults -> Nat]
      BY <1>1 DEF Faults, LumiTypeOK
    <3> QED  BY <1>8, <3>1, FaultSpent DEF Die
  <2>2. OutsideTyped'
    BY <1>1, <1>6, <2>1 DEF LumiTypeOK, OutsideTyped
  <2>3. BuFirst' /\ buEols \subseteq buEols' /\ UNCHANGED <<queue, queued, eols>>
    BY <1>1, <1>8 DEF Course, BuFirst, Die
  <2> QED  BY <1>1, <1>7, <2>2, <2>3, NoFileCourse
<1>9. CASE ReportCrash(p)
  <2> DEFINE e == Ev("crash", 0, p, NoStream, 0)
  <2>1. OutsideTyped'
    BY <1>1, <1>6, <1>9 DEF LumiTypeOK, OutsideTyped, ReportCrash
  <2>2. WellFormed(e) /\ e.kind = "crash"
    <3>1. e \in FileEvent
      BY EventsTyped
    <3> QED  BY <3>1 DEF Ev, WellFormed
  <2>3. Report(e)
    BY <1>9 DEF ReportCrash
  <2> HIDE DEF e
  <2> QED  BY <1>1, <1>7, <2>1, <2>2, <2>3, ReportCourse
<1> QED  BY <1>8, <1>9

LEMMA RunOverCourse ==
  ASSUME Course, RunComplete \/ RunAborted
  PROVE  Course'
<1>1. /\ LumiTypeOK /\ UNCHANGED scriptVars
      /\ UNCHANGED <<queued, grab, valid, torn, eols, buEols>>
  BY DEF Course, RunComplete, RunAborted, Report
<1>2. /\ proc' \in [Pids -> ProcState]
      /\ \A p \in Pids : /\ proc'[p].ls = proc[p].ls
                         /\ proc'[p].st = "output" => proc[p].st = "output"
  <2>1. \A x \in ProcState, a \in {"new", "work", "output", "ended", "died", "crashed"} :
          /\ [x EXCEPT !.st = a] \in ProcState
          /\ [x EXCEPT !.st = a].ls = x.ls
          /\ [x EXCEPT !.st = a].st = a
    BY DEF ProcState
  <2>2. \A p \in Pids : proc[p] \in ProcState
    BY <1>1 DEF LumiTypeOK
  <2>3. \A x \in ProcState : x.st \in {"new", "work", "output", "ended", "died", "crashed"}
    BY DEF ProcState
  <2>4. CASE RunComplete
    <3> DEFINE a(x) == IF x.st = "new" THEN "ended" ELSE x.st
    <3>1. proc' = [p \in Pids |-> [proc[p] EXCEPT !.st = a(proc[p])]]
      BY <2>4 DEF RunComplete
    <3>2. \A p \in Pids :
            /\ a(proc[p]) \in {"new", "work", "output", "ended", "died", "crashed"}
            /\ a(proc[p]) = "output" => proc[p].st = "output"
      BY <2>2, <2>3
    <3> HIDE DEF a
    <3> QED  BY <2>1, <2>2, <3>1, <3>2, ZenonT(60)
  <2>5. CASE RunAborted
    <3> DEFINE a(x) == IF x.st = "crashed" THEN x.st ELSE "ended"
    <3>1. proc' = [p \in Pids |-> [proc[p] EXCEPT !.st = a(proc[p])]]
      BY <2>5 DEF RunAborted
    <3>2. \A p \in Pids :
            /\ a(proc[p]) \in {"new", "work", "output", "ended", "died", "crashed"}
            /\ a(proc[p]) = "output" => proc[p].st = "output"
      BY <2>2, <2>3
    <3> HIDE DEF a
    <3> QED  BY <2>1, <2>2, <3>1, <3>2, ZenonT(60)
  <2> QED  BY <2>4, <2>5
<1>3. LumisEnded'
  BY <1>1, <1>2 DEF Course, LumisEnded, scriptVars
<1>4. spent' \in [Faults -> Nat]
  <2>1. "abort" \in Faults /\ spent \in [Faults -> Nat]
    BY <1>1 DEF Faults, LumiTypeOK
  <2> QED  BY <2>1, FaultSpent DEF RunComplete, RunAborted
<1>5. OutsideTyped'
  BY <1>1, <1>2, <1>4 DEF LumiTypeOK, OutsideTyped
<1>6. PICK e \in {Ev("complete", 0, NoPid, NoStream, 0), Ev("abort", 0, NoPid, NoStream, 0)} : Report(e)
  BY DEF RunComplete, RunAborted
<1>7. WellFormed(e) /\ e.kind \in {"complete", "abort"}
  <2>1. e \in FileEvent
    BY EventsTyped
  <2> QED  BY <2>1 DEF Ev, WellFormed
<1> QED  BY <1>1, <1>3, <1>5, <1>6, <1>7, ReportCourse

LEMMA OutputCourse ==
  ASSUME Course, NEW p \in Pids, NEW s \in Streams, Output(p, s)
  PROVE  Course'
<1> DEFINE l == Current(p)
           w == proc[p]
           done == w.out \union {s}
           x == IF done # Streams THEN [w EXCEPT !.out = done]
                ELSE [st |-> IF l = NLumis THEN "ended" ELSE "work", ls |-> l + 1, out |-> {}]
<1>1. /\ LumiTypeOK /\ UNCHANGED scriptVars /\ UNCHANGED <<queued, grab, eols, buEols>>
      /\ w.st = "output"
  BY DEF Course, Output, Report
<1>2. w \in ProcState
  BY ProcTyped
<1>3. l = w.ls /\ l \in eols /\ l \in buEols /\ l \in Lumis
  BY <1>1 DEF Course, LumisEnded, LumiTypeOK, Current
<1>4. proc' = [proc EXCEPT ![p] = x]
  BY DEF Output, Course, LumiTypeOK
<1>5. x \in ProcState /\ (x.ls = l \/ x.ls = l + 1) /\ (x.st = "output" => x.ls = l)
  <2>1. l + 1 \in 1 .. NLumis + 1 /\ done \in SUBSET Streams
    BY <1>2, <1>3, LumiAssumption DEF Lumis, ProcState
  <2> HIDE DEF l, w, done
  <2>2. CASE done # Streams
    BY <1>2, <1>3, <2>1, <2>2 DEF ProcState
  <2>3. CASE done = Streams
    BY <2>1, <2>3, <1>3, LumisFinite DEF ProcState
  <2> QED  BY <2>2, <2>3
<1> HIDE DEF x
<1>6. proc' \in [Pids -> ProcState] /\ \A q \in Pids : proc'[q] = IF q = p THEN x ELSE proc[q]
  BY <1>4, <1>5, ProcTyped
<1>7. LumisEnded'
  <2>1. x.ls <= Cardinality(buEols) + 1
    <3>1. l <= Cardinality(buEols) /\ Cardinality(buEols) \in Nat /\ l \in Nat
      BY <1>3, EndsCounted, LumisFinite
    <3> HIDE DEF l
    <3> QED  BY <1>5, <3>1
  <2> QED  BY <1>1, <1>3, <1>5, <1>6, <2>1 DEF Course, LumisEnded, scriptVars
<1>8. PICK e : /\ Report(e) /\ WellFormed(e) /\ e.kind \in {"json", "bad"} /\ e.ls = l
               /\ e \in {Ev("json", l, p, s, grab[l][p]), Ev("bad", l, p, s, 0)}
  <2>1. grab[l][p] \in Nat
    BY <1>1, <1>3 DEF LumiTypeOK
  <2>2. \A e \in {Ev("json", l, p, s, grab[l][p]), Ev("bad", l, p, s, 0)} :
          WellFormed(e) /\ e.kind \in {"json", "bad"} /\ e.ls = l
    <3>1. \A e \in {Ev("json", l, p, s, grab[l][p]), Ev("bad", l, p, s, 0)} : e \in FileEvent
      <4>1. \A n \in Nat : Ev("json", l, p, s, n) \in FileEvent /\ Ev("bad", l, p, s, n) \in FileEvent
        BY <1>3, EventsTyped
      <4> QED  BY <2>1, <4>1
    <3> HIDE DEF l
    <3> QED  BY <1>3, <3>1 DEF Ev, WellFormed
  <2> HIDE DEF l
  <2> QED  BY <2>2 DEF Output, l
<1>9. spent' \in [Faults -> Nat]
  <2>1. "torn" \in Faults /\ spent \in [Faults -> Nat]
    BY <1>1 DEF Faults, LumiTypeOK
  <2> QED  BY <2>1, FaultSpent DEF Output
<1>10. /\ valid' \in [Lumis -> [Pids -> SUBSET Streams]]
       /\ torn' \in [Lumis -> [Pids -> SUBSET Streams]]
  <2>1. /\ valid \in [Lumis -> [Pids -> SUBSET Streams]]
        /\ torn \in [Lumis -> [Pids -> SUBSET Streams]]
    BY <1>1 DEF LumiTypeOK
  <2>2. \A f \in [Lumis -> [Pids -> SUBSET Streams]] :
          [f EXCEPT ![l][p] = @ \union {s}] \in [Lumis -> [Pids -> SUBSET Streams]]
    <3> SUFFICES ASSUME NEW f \in [Lumis -> [Pids -> SUBSET Streams]]
                 PROVE  [f EXCEPT ![l] = [f[l] EXCEPT ![p] = f[l][p] \union {s}]]
                          \in [Lumis -> [Pids -> SUBSET Streams]]
      OBVIOUS
    <3> DEFINE r == [f[l] EXCEPT ![p] = f[l][p] \union {s}]
    <3>1. r \in [Pids -> SUBSET Streams]
      BY <1>3
    <3> HIDE DEF r, l
    <3>2. [f EXCEPT ![l] = r] \in [Lumis -> [Pids -> SUBSET Streams]]
      BY <1>3, <3>1
    <3> QED  BY <3>2 DEF r
  <2>3. valid' = valid \/ valid' = [valid EXCEPT ![l][p] = @ \union {s}]
    BY DEF Output
  <2>4. torn' = torn \/ torn' = [torn EXCEPT ![l][p] = @ \union {s}]
    BY DEF Output
  <2> HIDE DEF l
  <2> QED  BY <2>1, <2>2, <2>3, <2>4, ZenonT(60)
<1>11. OutsideTyped'
  BY <1>1, <1>6, <1>9, <1>10 DEF LumiTypeOK, OutsideTyped
<1> QED  BY <1>1, <1>3, <1>7, <1>8, <1>11, ReportCourse

LEMMA LeaveCourse ==
  ASSUME Course, NEW p \in Pids, Leave(p)
  PROVE  Course'
<1> DEFINE l == Current(p)
           w == proc[p]
           a == "output"
           o == {}
           x == [w EXCEPT !.st = a, !.out = o]
<1>1. /\ LumiTypeOK /\ Events /\ UNCHANGED scriptVars /\ UNCHANGED main
      /\ UNCHANGED <<grab, valid, torn, buEols>>
      /\ queued \subseteq eols /\ eols \subseteq buEols
  BY DEF Course, Leave, LumisEnded, scriptVars
<1>2. w \in ProcState
  BY ProcTyped
<1>3. l = w.ls /\ l \in buEols /\ l \in Lumis
  BY <1>1 DEF Leave, LumiTypeOK, Current
<1>4. proc' = [proc EXCEPT ![p] = x]
  BY DEF Leave, Course, LumiTypeOK
<1> HIDE DEF w
<1>5. x \in ProcState /\ x.ls = w.ls
  BY <1>2 DEF ProcState
<1> HIDE DEF x
<1>6. proc' \in [Pids -> ProcState] /\ \A q \in Pids : proc'[q] = IF q = p THEN x ELSE proc[q]
  BY <1>4, <1>5, ProcTyped
<1>7. BuFirst' /\ buEols \subseteq buEols'
  BY <1>1 DEF Course, BuFirst
<1>8. spent' \in [Faults -> Nat]
  <2>1. "twice" \in Faults /\ spent \in [Faults -> Nat]
    BY <1>1 DEF Faults, LumiTypeOK
  <2> QED  BY <2>1, FaultSpent DEF Leave
<1>9. ASSUME queued' \subseteq eols', eols \subseteq eols', eols' \subseteq buEols, l \in eols'
      PROVE  LumisEnded' /\ OutsideTyped'
  <2>1. LumisEnded'
    <3>1. \A q \in Pids : proc'[q].ls = proc[q].ls /\ (proc'[q].st = "output" => proc[q].st = "output" \/ q = p)
      BY <1>5, <1>6 DEF w
    <3>2. proc'[p].ls = l
      BY <1>3, <1>5, <1>6
    <3> HIDE DEF l
    <3> QED  BY <1>1, <1>9, <3>1, <3>2 DEF Course, LumisEnded, scriptVars
  <2>2. OutsideTyped'
    BY <1>1, <1>6, <1>8, <1>9 DEF LumiTypeOK, OutsideTyped
  <2> QED  BY <2>1, <2>2
<1>10. CASE l \in eols /\ UNCHANGED <<queue, queued, eols, spent>>
  <2>1. LumisEnded' /\ OutsideTyped'
    BY <1>1, <1>9, <1>10
  <2> QED  BY <1>1, <1>7, <1>10, <2>1, NoFileCourse
<1>11. CASE WriteEoLS({l}, queue, queued)
  <2>1. PICK X : EndsOf(X, {l} \ queued) /\ queue' = queue \o X
    BY <1>3, <1>11, WritesEnds, ZenonT(60)
  <2>2. queued' = queued \union {l} /\ eols' = eols \union {l}
    BY <1>11 DEF WriteEoLS
  <2>3. X \in Seq(FileEvent)
    BY <2>1 DEF EndsOf
  <2>4. Shifted(Pend, Pend', 0, X)
    BY <1>1, <2>1, <2>3, AddShifts
  <2>5. Events'
    <3>1. /\ 0 = 1 /\ Pend[1].kind = "eols" => queued = queued \ {Pend[1].ls}
          /\ ~(0 = 1 /\ Pend[1].kind = "eols") => queued = queued
      OBVIOUS
    <3>2. {l} \in SUBSET Lumis /\ {l} \subseteq buEols
      BY <1>3
    <3> HIDE DEF l
    <3> QED  BY <1>1, <2>1, <2>2, <2>4, <3>1, <3>2, EndsEvents
  <2>6. LumisEnded' /\ OutsideTyped'
    <3>1. queued' \subseteq eols' /\ eols \subseteq eols' /\ eols' \subseteq buEols /\ l \in eols'
      BY <1>1, <1>3, <2>2
    <3> QED  BY <1>9, <3>1
  <2>7. eols' = eols \/ \E i \in DOMAIN X : X[i].kind = "eols"
    <3>1. CASE l \in eols
      BY <2>2, <3>1
    <3>2. CASE l \notin eols
      <4>1. l \in {l} \ queued
        BY <1>1, <3>2
      <4>2. PICK i \in DOMAIN X : X[i] = EoLS(l)
        BY <2>1, <4>1 DEF EndsOf
      <4> QED  BY <4>2, EoLSFields
    <3> QED  BY <3>1, <3>2
  <2>8. \A i \in DOMAIN X : X[i].kind # "merged" /\ (X[i].kind \in {"json", "bad"} => eols # {})
    <3>1. \A i \in DOMAIN X : X[i].kind = "eols"
      BY <2>1, EoLSFields DEF EndsOf
    <3> QED  BY <3>1
  <2> HIDE DEF l
  <2> QED  BY <1>1, <1>7, <2>1, <2>3, <2>5, <2>6, <2>7, <2>8, AddedCourse
<1> QED  BY <1>10, <1>11 DEF Leave

\* q is continued by one or two events.
OneOrBoth(q, r, e, f) ==
  \E X \in Seq(FileEvent) :
    /\ r = q \o X /\ 1 \in DOMAIN X
    /\ \A i \in DOMAIN X : (X[i] = e /\ i = 1) \/ (X[i] = f /\ i = 2)

LEMMA OneOrTwo ==
  ASSUME NEW q \in Seq(FileEvent), NEW e \in FileEvent, NEW f \in FileEvent, NEW r,
         r = (q \o <<e>>) \o <<f>> \/ r = (q \o <<e>>) \o <<>>
  PROVE  OneOrBoth(q, r, e, f)
<1> DEFINE a == <<e>>
           b == <<f>>
<1>1. /\ a \in Seq(FileEvent) /\ b \in Seq(FileEvent) /\ <<>> \in Seq(FileEvent)
      /\ Len(a) = 1 /\ Len(b) = 1 /\ a[1] = e /\ b[1] = f
  OBVIOUS
<1> HIDE DEF a, b
<1>2. CASE r = (q \o a) \o b
  <2>1. r = q \o (a \o b)
    BY <1>1, <1>2, EventsAssociate
  <2>2. /\ a \o b \in Seq(FileEvent) /\ Len(a \o b) = Len(a) + Len(b)
        /\ \A i \in 1 .. Len(a) + Len(b) :
             (a \o b)[i] = IF i <= Len(a) THEN a[i] ELSE b[i - Len(a)]
    BY <1>1, ConcatProperties
  <2>3. DOMAIN (a \o b) = 1 .. Len(a \o b)
    BY <2>2, LenProperties
  <2>4. /\ 1 \in DOMAIN (a \o b)
        /\ \A i \in DOMAIN (a \o b) : ((a \o b)[i] = e /\ i = 1) \/ ((a \o b)[i] = f /\ i = 2)
    <3> DEFINE y == a \o b
    <3>1. DOMAIN y = 1 .. 2 /\ \A i \in 1 .. 2 : y[i] = IF i <= 1 THEN a[i] ELSE b[i - 1]
      <4>1. Len(a) = 1 /\ Len(b) = 1
        BY <1>1
      <4> QED  BY ONLY <2>2, <2>3, <4>1
    <3> HIDE DEF y
    <3>2. y[1] = e /\ y[2] = f
      BY <1>1, <3>1
    <3>3. 1 \in DOMAIN y /\ \A i \in DOMAIN y : i = 1 \/ i = 2
      BY <3>1
    <3> QED  BY <3>2, <3>3 DEF y
  <2> QED  BY <2>1, <2>2, <2>4 DEF OneOrBoth
<1>3. CASE r = (q \o a) \o <<>>
  <2>1. q \o a \in Seq(FileEvent)
    BY <1>1, ConcatProperties
  <2>2. r = q \o a
    BY <1>3, <2>1, ConcatEmptySeq
  <2>3. 1 \in DOMAIN a /\ \A i \in DOMAIN a : a[i] = e /\ i = 1
    <3>1. DOMAIN a = 1 .. 1
      BY <1>1, LenProperties
    <3> QED  BY <1>1, <3>1
  <2>4. 1 \in DOMAIN a /\ \A i \in DOMAIN a : (a[i] = e /\ i = 1) \/ (a[i] = f /\ i = 2)
    BY <2>3
  <2> QED  BY <1>1, <2>2, <2>4 DEF OneOrBoth
<1> QED  BY <1>2, <1>3 DEF a, b

LEMMA GrabCourse ==
  ASSUME Course, NEW p \in Pids, Grab(p)
  PROVE  Course'
<1> DEFINE l == Current(p)
           n == Cardinality(buEols)
           e == Ev("index", l, p, NoStream, 1)
           f == Ev("processing", 0, NoPid, NoStream, 0)
<1>1. /\ LumiTypeOK /\ Events /\ UNCHANGED scriptVars /\ UNCHANGED main
      /\ UNCHANGED <<queued, proc, valid, torn, eols, buEols, spent>>
      /\ l \in Lumis /\ l \notin buEols
  BY DEF Course, Grab, scriptVars
<1>2. /\ n \in Nat /\ l = n + 1 /\ buEols = 1 .. n
      /\ \A k \in Lumis : k \in buEols <=> k <= n
  <2>1. n \in Nat /\ \A k \in Lumis : k \in buEols <=> k <= n
    BY EndsCounted
  <2>2. l <= n + 1 /\ buEols = 1 .. n
    BY DEF Course, LumisEnded, BuFirst, Current
  <2>3. l \in Nat /\ ~(l <= n)
    BY <1>1, <2>1, LumisFinite
  <2> HIDE DEF n, l
  <2> QED  BY <2>1, <2>2, <2>3
<1> HIDE DEF l, n
<1>3. PICK X \in Seq(FileEvent) : /\ queue' = queue \o X
                                   /\ \A i \in DOMAIN X : (X[i] = e /\ i = 1) \/ (X[i] = f /\ i = 2)
  <2>1. \/ queue' = queue \o <<e>> \o <<f>>
        \/ queue' = queue \o <<e>> \o <<>>
    BY DEF Grab, l
  <2>2. e \in FileEvent /\ f \in FileEvent /\ queue \in Seq(FileEvent)
    BY <1>1, EventsTyped DEF LumiTypeOK
  <2> HIDE DEF e, f
  <2>3. OneOrBoth(queue, queue', e, f)
    BY <2>1, <2>2, OneOrTwo
  <2> QED  BY <2>3 DEF OneOrBoth
<1>4. /\ e \in FileEvent /\ e.kind = "index" /\ e.ls = l /\ WellFormed(e)
      /\ f \in FileEvent /\ f.kind = "processing" /\ WellFormed(f)
  <2>1. e \in FileEvent /\ f \in FileEvent
    BY <1>1, EventsTyped
  <2> QED  BY <1>1, <2>1 DEF Ev, WellFormed
<1> HIDE DEF e, f
<1>5. /\ X \in Seq(FileEvent)
      /\ \A i \in DOMAIN X : (X[i] = e /\ i = 1) \/ (X[i] = f /\ i = 2)
  BY <1>3
<1>6. Shifted(Pend, Pend', 0, X)
  BY <1>1, <1>3, <1>5, AddShifts
<1>7. AfterEnd(e, buEols') /\ AfterEnd(f, buEols')
  <2>1. 1 .. (l - 1) \subseteq buEols
    BY <1>2
  <2> QED  BY <1>1, <1>4, <2>1 DEF AfterEnd
<1>8. \A i \in DOMAIN Pend : MayPrecede(Pend[i], e)
  <2> SUFFICES ASSUME NEW i \in DOMAIN Pend PROVE MayPrecede(Pend[i], e)
    OBVIOUS
  <2> DEFINE g == Pend[i]
  <2>1. WellFormed(g) /\ AfterEnd(g, buEols)
    BY <1>1 DEF Events
  <2> HIDE DEF g
  <2>2. ASSUME g.kind \in {"json", "bad", "eols", "merged"} PROVE g.ls < l
    <3>1. g.ls \in buEols /\ g.ls \in Lumis
      BY <2>1, <2>2 DEF WellFormed, AfterEnd
    <3>2. g.ls <= n /\ g.ls \in Nat
      BY <1>2, <3>1, LumisFinite
    <3> QED  BY <1>2, <3>2
  <2>3. ASSUME g.kind = "index" PROVE g.ls <= l
    <3>1. 1 .. (g.ls - 1) \subseteq 1 .. n /\ g.ls \in Lumis
      BY <1>2, <2>1, <2>3 DEF WellFormed, AfterEnd
    <3>2. g.ls \in Nat
      BY <3>1, LumisFinite
    <3>3. g.ls - 1 <= n
      <4>1. CASE g.ls - 1 <= 0
        BY <1>2, <4>1, <3>2
      <4>2. CASE g.ls - 1 > 0
        <5>1. g.ls - 1 \in 1 .. (g.ls - 1)
          BY <3>2, <4>2
        <5> QED  BY <1>2, <3>1, <5>1
      <4> QED  BY <3>2, <4>1, <4>2
    <3> QED  BY <1>2, <3>2, <3>3
  <2> QED  BY <1>4, <2>2, <2>3 DEF MayPrecede, g
<1>9. \A x : MayPrecede(x, f)
  BY <1>4 DEF MayPrecede
<1>10. Counted(Pend', queued')
  <2> SUFFICES ASSUME NEW ql, ql = queued
               PROVE  Counted(Pend', ql)
    BY <1>1
  <2>1. Ends(X) = {}
    BY <1>4, <1>5 DEF Ends
  <2>2. \A i, j \in Ends(X) : X[i].ls = X[j].ls => i = j
    BY <2>1
  <2>3. \A i \in Ends(X) : X[i].ls \notin ql
    BY <2>1
  <2>4. \A x : x \in ql <=> x \in queued /\ ~(0 = 1 /\ Pend[1].kind = "eols" /\ x = Pend[1].ls)
    OBVIOUS
  <2>5. Counted(Pend, queued)
    BY <1>1 DEF Events
  <2>6. Counted(Pend', ql \union {X[i].ls : i \in Ends(X)})
    BY ONLY <1>6, <2>2, <2>3, <2>4, <2>5, CountedShift
  <2> QED  BY <2>1, <2>6
<1>11. Events'
  <2>1. \A i \in DOMAIN X : WellFormed(X[i]) /\ AfterEnd(X[i], buEols')
    BY <1>4, <1>5, <1>7
  <2>2. \A i, j \in DOMAIN X : i < j => MayPrecede(X[i], X[j])
    BY <1>5, <1>9
  <2>3. \A i \in DOMAIN Pend, j \in DOMAIN X : MayPrecede(Pend[i], X[j])
    BY <1>5, <1>8, <1>9
  <2>4. buEols \subseteq buEols'
    BY <1>1
  <2> QED  BY <1>1, <1>6, <1>10, <2>1, <2>2, <2>3, <2>4, ShiftedEvents
<1>12. grab' \in [Lumis -> [Pids -> Nat]]
  <2>1. grab \in [Lumis -> [Pids -> Nat]]
    BY <1>1 DEF LumiTypeOK
  <2>2. grab' = [grab EXCEPT ![l][p] = @ + 1]
    BY DEF Grab, l
  <2> DEFINE r == [grab[l] EXCEPT ![p] = grab[l][p] + 1]
  <2>3. r \in [Pids -> Nat]
    BY <1>1, <2>1
  <2>4. grab' = [grab EXCEPT ![l] = r]
    BY <2>2
  <2> HIDE DEF r
  <2> QED  BY <1>1, <2>1, <2>3, <2>4
<1>13. OutsideTyped'
  BY <1>1, <1>12 DEF LumiTypeOK, OutsideTyped
<1>14. BuFirst' /\ LumisEnded'
  BY <1>1 DEF Course, BuFirst, LumisEnded, scriptVars
<1>15. /\ buEols \subseteq buEols' /\ eols' = eols
       /\ \A i \in DOMAIN X : X[i].kind # "merged" /\ (X[i].kind \in {"json", "bad"} => eols # {})
  BY <1>1, <1>4, <1>5
<1> QED  BY <1>1, <1>3, <1>5, <1>11, <1>13, <1>14, <1>15, AddedCourse

-----------------------------------------------------------------------------
(* The theorems *)

LEMMA CourseBegins == Init => Course
<1> SUFFICES ASSUME Init PROVE Course
  OBVIOUS
<1>1. <<>> \in Seq(FileEvent) /\ <<>> \in Seq(Merge)
  BY EmptySeq
<1>2. Pend = <<>>
  BY <1>1, ConcatEmptySeq DEF Init, Pend
<1>3. LumiTypeOK
  <2>1. main \in MainState
    BY <1>1, LumiAssumption DEF Init, MainState
  <2>2. lumi \in [Lumis -> Handler]
    BY NoHandlerTyped DEF Init
  <2>3. dqm \in DqmState
    <3>1. NoCounts \in [proc : Nat, err : Nat]
      BY DEF NoCounts
    <3> QED  BY <1>1, <3>1 DEF Init, DqmState
  <2>4. proc \in [Pids -> ProcState]
    BY LumiAssumption DEF Init, ProcState
  <2> QED  BY <1>1, <2>1, <2>2, <2>3, <2>4 DEF Init, LumiTypeOK
<1>4. Cardinality({}) = 0
  BY FS_EmptySet
<1>5. BuFirst
  <2>1. 1 .. 0 = {}
    OBVIOUS
  <2> QED  BY <1>4, <2>1 DEF Init, BuFirst
<1>6. Events
  BY <1>1, <1>2 DEF Init, Events, Counted, Ends
<1>7. LumisEnded
  BY <1>4 DEF Init, LumisEnded
<1>8. Buffered /\ HandlersEnded /\ NotStarted
  BY <1>2, NoHandlerTyped DEF Init, Buffered, HandlersEnded, NotStarted
<1> QED  BY <1>3, <1>5, <1>6, <1>7, <1>8 DEF Course

LEMMA CourseGoesOn == Course /\ [Next]_lumiVars => Course'
<1> SUFFICES ASSUME Course, [Next]_lumiVars PROVE Course'
  OBVIOUS
<1>1. CASE MainLoop
  BY <1>1, BufferIndexCourse, FlushBufferCourse, DropEarlyCourse, TakeIndexCourse, TakeEoLSCourse,
     TakeJsonCourse, TakeBadCourse, TakeCrashCourse, TakeMergedCourse, TakeProcessingCourse,
     TakeCompleteCourse, IdleCourse DEF MainLoop
<1>2. CASE DqmMerger
  BY <1>2, DqmTakeCourse, DqmDoneCourse DEF DqmMerger
<1>3. CASE Outside
  BY <1>3, BuEndsCourse, BeginCourse, GrabCourse, LeaveCourse, DieCourse, OutputCourse,
     RunOverCourse DEF Outside
<1>4. CASE UNCHANGED lumiVars
  <2>1. Pend' = Pend /\ Buffered'
    BY <1>4 DEF Course, Buffered, Pend, lumiVars
  <2>2. main' \in MainState /\ queue' \in Seq(FileEvent)
    BY <1>4 DEF Course, LumiTypeOK, lumiVars
  <2> QED  BY <1>4, <2>1, <2>2, SameEvents DEF lumiVars
<1> QED  BY <1>1, <1>2, <1>3, <1>4 DEF Next

LEMMA CourseHolds == Spec => []Course
BY CourseBegins, CourseGoesOn, PTL DEF Spec

\* The variables of the anelastic script, and of what writes its files, have
\* their types in every reachable state, whatever the numbers of lumisections,
\* processes and streams.
THEOREM LumiTyped == Spec => []LumiTypeOK
<1>1. Course => LumiTypeOK
  BY DEF Course
<1> QED  BY <1>1, CourseHolds, PTL

\* queuedLumiList is exactly the set of lumisections whose EoLS event waits in
\* the queue, and none waits twice, although two processes may write the file of
\* a lumisection and the main loop takes and writes some itself.
THEOREM LumisQueued == Spec => []QueueCounted
<1>1. Course => QueueCounted
  <2> SUFFICES ASSUME Course PROVE QueueCounted
    OBVIOUS
  <2> DEFINE n == Len(main.buffer)
  <2>1. /\ main.buffer \in Seq(FileEvent) /\ queue \in Seq(FileEvent)
        /\ \A i \in DOMAIN main.buffer : main.buffer[i].kind = "index"
        /\ queued = {Pend[i].ls : i \in Ends(Pend)}
        /\ \A i, j \in Ends(Pend) : Pend[i].ls = Pend[j].ls => i = j
    BY DEF Course, LumiTypeOK, MainState, Buffered, Events, Counted
  <2>2. /\ n \in Nat /\ DOMAIN main.buffer = 1 .. n
        /\ DOMAIN queue = 1 .. Len(queue) /\ Len(queue) \in Nat
        /\ DOMAIN Pend = 1 .. n + Len(queue)
        /\ \A i \in 1 .. n + Len(queue) :
             Pend[i] = IF i <= n THEN main.buffer[i] ELSE queue[i - n]
    BY <2>1, ConcatProperties, LenProperties DEF Pend
  <2> HIDE DEF n
  <2>3. \A i \in Ends(Pend) : i - n \in Waiting /\ queue[i - n] = Pend[i]
    <3> SUFFICES ASSUME NEW i \in Ends(Pend) PROVE i - n \in Waiting /\ queue[i - n] = Pend[i]
      OBVIOUS
    <3>1. i \in 1 .. n + Len(queue) /\ Pend[i].kind = "eols"
      BY <2>2 DEF Ends
    <3>2. ~(i <= n)
      <4>1. SUFFICES ASSUME i <= n PROVE FALSE
        OBVIOUS
      <4>2. i \in 1 .. n
        BY <2>2, <3>1, <4>1
      <4>3. Pend[i] = main.buffer[i] /\ main.buffer[i].kind = "index"
        BY <2>1, <2>2, <3>1, <4>1, <4>2
      <4> QED  BY <3>1, <4>3
    <3>3. i - n \in DOMAIN queue /\ Pend[i] = queue[i - n]
      BY <2>2, <3>1, <3>2
    <3> QED  BY <3>1, <3>3 DEF Waiting
  <2>4. \A i \in Waiting : n + i \in Ends(Pend) /\ Pend[n + i] = queue[i]
    <3> SUFFICES ASSUME NEW i \in Waiting PROVE n + i \in Ends(Pend) /\ Pend[n + i] = queue[i]
      OBVIOUS
    <3>1. i \in 1 .. Len(queue) /\ queue[i].kind = "eols"
      BY <2>2 DEF Waiting
    <3>2. n + i \in DOMAIN Pend /\ ~(n + i <= n) /\ (n + i) - n = i
      BY <2>2, <3>1
    <3>3. Pend[n + i] = queue[i]
      BY <2>2, <3>2
    <3> QED  BY <3>1, <3>2, <3>3 DEF Ends
  <2>5. queued = {queue[i].ls : i \in Waiting}
    <3>1. \A i \in Ends(Pend) : Pend[i].ls \in {queue[j].ls : j \in Waiting}
      BY <2>3
    <3>2. \A i \in Waiting : queue[i].ls \in {Pend[j].ls : j \in Ends(Pend)}
      BY <2>4
    <3> QED  BY <2>1, <3>1, <3>2
  <2>6. \A i, j \in Waiting : queue[i] = queue[j] => i = j
    <3> SUFFICES ASSUME NEW i \in Waiting, NEW j \in Waiting, queue[i] = queue[j] PROVE i = j
      OBVIOUS
    <3>1. n + i = n + j
      BY <2>1, <2>4
    <3>2. i \in Int /\ j \in Int
      BY <2>2 DEF Waiting
    <3> QED  BY <2>2, <3>1, <3>2
  <2> QED  BY <2>5, <2>6 DEF QueueCounted
<1> QED  BY <1>1, CourseHolds, PTL
=============================================================================
