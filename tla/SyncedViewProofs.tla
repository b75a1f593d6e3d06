-------------------------- MODULE SyncedViewProofs --------------------------
(***************************************************************************)
(* Proofs about the view of a query of SyncedView, for any sets of         *)
(* documents and contents and any bounds.                                  *)
(***************************************************************************)
EXTENDS SyncedView, SequenceTheorems, WellFoundedInduction, TLAPS

-----------------------------------------------------------------------------
(* Induction over the numbers, for a set: a smallest number outside of it  *)
(* would follow one inside.                                                *)
LEMMA SetInduction ==
    ASSUME NEW T, 0 \in T, \A n \in Nat : n \in T => n + 1 \in T
    PROVE  \A n \in Nat : n \in T
  <1> DEFINE R == OpToRel(<, Nat)
             U == Nat \ T
  <1>1. IsWellFoundedOn(R, Nat)
    BY NatLessThanWellFounded
  <1>2. \A x, y \in Nat : x < y => <<x, y>> \in R
    BY DEF OpToRel
  <1> HIDE DEF R
  <1>3. U # {} => \E x \in U : \A y \in U : ~ (<<y, x>> \in R)
    BY <1>1, WFMin
  <1>4. SUFFICES ASSUME NEW x \in U, \A y \in U : ~ (<<y, x>> \in R)
                 PROVE  FALSE
    BY <1>3
  <1>5. x \in Nat \ {0} /\ x - 1 \in Nat /\ x - 1 < x
    OBVIOUS
  <1>6. x - 1 \in T
    BY <1>2, <1>4, <1>5
  <1> QED
    BY <1>5, <1>6

(* A function that starts with b and goes on with A.                       *)
Goes(f, b, A, n) ==
    /\ f[0] = b
    /\ \A i \in 1 .. n : f[i] = A[<<i, f[i - 1]>>]

LEMMA RecursionExists ==
    ASSUME NEW D, NEW b \in D, NEW N \in Nat, NEW A \in [(1 .. N) \X D -> D]
    PROVE  \E f \in [0 .. N -> D] : Goes(f, b, A, N)
  <1> DEFINE T == {n \in Nat : n <= N =>
                      \E f \in [0 .. n -> D] : Goes(f, b, A, n)}
  <1>1. 0 \in T
    <2> DEFINE f == [i \in 0 .. 0 |-> b]
    <2>1. f \in [0 .. 0 -> D] /\ Goes(f, b, A, 0)
      BY DEF Goes
    <2> QED
      BY <2>1
  <1>2. ASSUME NEW n \in Nat, n \in T, n + 1 <= N
        PROVE  \E f \in [0 .. n + 1 -> D] : Goes(f, b, A, n + 1)
    <2>1. PICK f \in [0 .. n -> D] : Goes(f, b, A, n)
      BY <1>2
    <2> DEFINE g == [i \in 0 .. n + 1 |-> IF i = n + 1
                                          THEN A[<<n + 1, f[n]>>] ELSE f[i]]
    <2>2. f[n] \in D /\ <<n + 1, f[n]>> \in (1 .. N) \X D
      BY <1>2, <2>1
    <2>3. A[<<n + 1, f[n]>>] \in D
      BY <2>2
    <2>4. g \in [0 .. n + 1 -> D]
      BY <2>1, <2>3
    <2>5. g[0] = b
      BY <2>1 DEF Goes
    <2>6. ASSUME NEW i \in 1 .. n + 1
          PROVE  g[i] = A[<<i, g[i - 1]>>]
      <3>1. CASE i = n + 1
        <4>1. g[n] = f[n] /\ i - 1 = n
          BY <3>1
        <4>2. g[i] = A[<<n + 1, f[n]>>]
          BY <3>1
        <4> HIDE DEF g
        <4> QED
          BY <3>1, <4>1, <4>2
      <3>2. CASE i # n + 1
        BY <2>1, <3>2 DEF Goes
      <3> QED
        BY <3>1, <3>2
    <2> QED
      BY <2>4, <2>5, <2>6 DEF Goes
  <1>3. \A n \in Nat : n \in T => n + 1 \in T
    BY <1>2
  <1> HIDE DEF T
  <1>4. N \in T
    BY <1>1, <1>3, SetInduction
  <1> QED
    BY <1>4 DEF T

-----------------------------------------------------------------------------
(* A document with the phone's own mutations.                              *)

Value == Order \cup {None}
LocalState == [val : Value, flag : {"synced", "committed", "local"}]
Mutation == [doc : Doc, kind : {"set", "update"}, val : Value]

Cached(c, d) == [val |-> c[d].val,
                 flag |-> IF c[d].committed THEN "committed" ELSE "synced"]
Mutated(q, d, i, x) ==
    IF q[i].doc = d THEN ApplyToLocalView(x, q[i]) ELSE x

LEMMA OrderIsServed ==
    ASSUME NEW x \in Value, x # None
    PROVE  x \in Order /\ Served(x) \in Order /\ ~Matches(Served(x))
                       /\ Served(x) # None
  <1>1. x \in Order /\ None \notin Order
    BY SyncedViewAssumption DEF Value
  <1>2. Served(x) \in Order /\ Served(x).served
    BY <1>1 DEF Served, Order
  <1> QED
    BY <1>1, <1>2 DEF Matches

LEMMA MutatedTyped ==
    ASSUME NEW q \in Seq(Mutation), NEW d, NEW i \in 1 .. Len(q),
           NEW x \in LocalState
    PROVE  Mutated(q, d, i, x) \in LocalState
  <1>1. q[i] \in Mutation
    BY ElementOfSeq
  <1> DEFINE m == q[i]
  <1> HIDE DEF m
  <1>2. m \in Mutation
    BY <1>1 DEF m
  <1>3. /\ m.val \in Value /\ m.kind \in {"set", "update"} /\ x.val \in Value
        /\ x.flag \in {"synced", "committed", "local"}
    BY <1>2 DEF Mutation, LocalState
  <1>4. ApplyToLocalView(x, m) \in LocalState
    <2>1. CASE m.kind = "set"
      BY <1>3, <2>1 DEF ApplyToLocalView, LocalState
    <2>2. CASE m.kind = "update" /\ x.val # None
      <3>1. Served(x.val) \in Value
        BY <1>3, <2>2, OrderIsServed DEF Value
      <3> QED
        BY <2>2, <3>1 DEF ApplyToLocalView, LocalState
    <2>3. CASE m.kind = "update" /\ x.val = None
      BY <2>3 DEF ApplyToLocalView
    <2> QED
      BY <1>3, <2>1, <2>2, <2>3
  <1> QED
    BY <1>4 DEF Mutated, m

(* The mutations are applied one by one.                                   *)
LocalSteps(f, c, q, d) ==
    /\ f[0] = Cached(c, d)
    /\ \A i \in 1 .. Len(q) : f[i] = Mutated(q, d, i, f[i - 1])

LEMMA LocalDocSteps ==
    ASSUME NEW c, NEW d, NEW q \in Seq(Mutation), c[d].val \in Value
    PROVE  \E f \in [0 .. Len(q) -> LocalState] :
               LocalSteps(f, c, q, d) /\ LocalDoc(c, q, d) = f[Len(q)]
  <1> DEFINE N == Len(q)
             b == Cached(c, d)
             A == [p \in (1 .. N) \X LocalState |-> Mutated(q, d, p[1], p[2])]
             Is(h) == h = [i \in 0 .. N |->
                              IF i = 0
                              THEN [val |-> c[d].val,
                                    flag |-> IF c[d].committed
                                             THEN "committed" ELSE "synced"]
                              ELSE IF q[i].doc = d
                              THEN ApplyToLocalView(h[i - 1], q[i])
                              ELSE h[i - 1]]
             after == CHOOSE h : Is(h)
  <1>1. LocalDoc(c, q, d) = after[N]
    BY DEF LocalDoc
  <1>2. N \in Nat
    BY LenProperties
  <1>3. b \in LocalState
    BY DEF Cached, LocalState
  <1>4. A \in [(1 .. N) \X LocalState -> LocalState]
    BY MutatedTyped
  <1>5. PICK g \in [0 .. N -> LocalState] : Goes(g, b, A, N)
    <2> HIDE DEF A, b, N
    <2> QED
      BY <1>2, <1>3, <1>4, RecursionExists
  <1>6. \A i \in 1 .. N : g[i] = Mutated(q, d, i, g[i - 1])
    <2>1. \A i \in 1 .. N : <<i, g[i - 1]>> \in (1 .. N) \X LocalState
      <3>1. \A i \in 1 .. N : i - 1 \in 0 .. N
        BY <1>2
      <3> HIDE DEF N
      <3>2. \A i \in 1 .. N : g[i - 1] \in LocalState
        BY <1>5, <3>1
      <3> QED
        BY <3>2
    <2> QED
      BY <1>5, <2>1 DEF Goes
  <1>7. Is(g)
    <2>1. g[0] = b
      BY <1>5 DEF Goes
    <2> HIDE DEF A
    <2> QED
      BY <1>2, <1>5, <1>6, <2>1 DEF Mutated, Cached
  <1>8. Is(after)
    <2> HIDE DEF Is
    <2> QED
      BY <1>7
  <1> HIDE DEF after
  <1>9. LocalSteps(after, c, q, d)
    <2>1. after = [i \in 0 .. N |->
                      IF i = 0
                      THEN Cached(c, d) ELSE Mutated(q, d, i, after[i - 1])]
      BY <1>8 DEF Mutated, Cached
    <2>2. 0 \in 0 .. N /\ \A i \in 1 .. N : i \in 0 .. N /\ i # 0
      BY <1>2
    <2> HIDE DEF Is
    <2> QED
      BY <2>1, <2>2 DEF LocalSteps
  <1>10. \A n \in Nat : n <= N => after[n] = g[n]
    <2> DEFINE T == {n \in Nat : n <= N => after[n] = g[n]}
    <2>1. 0 \in T
      BY <1>5, <1>9 DEF Goes, LocalSteps
    <2>2. ASSUME NEW n \in Nat, n \in T, n + 1 <= N
          PROVE  after[n + 1] = g[n + 1]
      <3>1. n + 1 \in 1 .. N /\ (n + 1) - 1 = n /\ after[n] = g[n]
        BY <1>2, <2>2
      <3>2. after[n + 1] = Mutated(q, d, n + 1, after[n])
        BY <1>9, <3>1 DEF LocalSteps
      <3> QED
        BY <1>6, <3>1, <3>2
    <2>3. \A n \in Nat : n \in T => n + 1 \in T
      BY <2>2
    <2> HIDE DEF T
    <2>4. \A n \in Nat : n \in T
      BY <2>1, <2>3, SetInduction
    <2> QED
      BY <2>4 DEF T
  <1>11. after = g
    BY <1>2, <1>5, <1>8, <1>10
  <1> QED
    BY <1>1, <1>5, <1>9, <1>11

LEMMA LocalDocType ==
    ASSUME NEW c, NEW d, NEW q \in Seq(Mutation), c[d].val \in Value
    PROVE  LocalDoc(c, q, d) \in LocalState
  <1>1. Len(q) \in Nat
    BY LenProperties
  <1> QED
    BY <1>1, LocalDocSteps

-----------------------------------------------------------------------------
(* The server.                                                             *)

Versioned == [val : Value, version : Nat]
Answer == [ok : BOOLEAN, version : 0 .. Now, commit : 0 .. Now]

(* A document's version is that of its last change, and it was the same    *)
(* from then on.                                                           *)
HistoryInv ==
    /\ history \in Seq([Doc -> Versioned]) /\ history # << >>
    /\ \A u \in 1 .. Now, d \in Doc :
          /\ history[u][d].version \in 1 .. u
          /\ \A w \in history[u][d].version .. u : history[w][d] = history[u][d]

LEMMA HistoryType ==
    ASSUME HistoryInv
    PROVE  /\ Now \in Nat \ {0} /\ DOMAIN history = 1 .. Now
           /\ \A u \in 1 .. Now : history[u] \in [Doc -> Versioned]
           /\ \A u \in 1 .. Now, d \in Doc :
                 /\ DocAt(u, d) = history[u][d] /\ DocAt(u, d) \in Versioned
                 /\ DocAt(u, d).val \in Value
                 /\ DocAt(u, d).version \in 1 .. u
                 /\ DocAt(DocAt(u, d).version, d) = DocAt(u, d)
           /\ \A d \in Doc : DocAt(0, d) = [val |-> None, version |-> 0]
           /\ Matching(0) = {}
           /\ \A v : Matching(v) \subseteq Doc
  <1>1. Now \in Nat \ {0} /\ DOMAIN history = 1 .. Now
    BY EmptySeq, LenProperties DEF HistoryInv, Now
  <1>2. \A u \in 1 .. Now : history[u] \in [Doc -> Versioned]
    BY ElementOfSeq DEF HistoryInv, Now
  <1>3. ASSUME NEW u \in 1 .. Now, NEW d \in Doc
        PROVE  /\ DocAt(u, d) = history[u][d] /\ DocAt(u, d) \in Versioned
               /\ DocAt(u, d).val \in Value
               /\ DocAt(u, d).version \in 1 .. u
               /\ DocAt(DocAt(u, d).version, d) = DocAt(u, d)
    <2>1. DocAt(u, d) = history[u][d]
      BY <1>1 DEF DocAt
    <2>2. DocAt(u, d) \in Versioned
      BY <1>2, <2>1
    <2>3. DocAt(u, d).val \in Value
      BY <2>2 DEF Versioned
    <2>4. /\ DocAt(u, d).version \in 1 .. u
          /\ \A w \in DocAt(u, d).version .. u : history[w][d] = DocAt(u, d)
      BY <2>1 DEF HistoryInv
    <2>5. DocAt(u, d).version \in DocAt(u, d).version .. u
          /\ DocAt(u, d).version # 0
      BY <1>1, <2>4
    <2>6. DocAt(DocAt(u, d).version, d) = DocAt(u, d)
      BY <2>4, <2>5 DEF DocAt
    <2> QED
      BY <2>1, <2>2, <2>3, <2>4, <2>6
  <1>4. \A d \in Doc : DocAt(0, d) = [val |-> None, version |-> 0]
    BY DEF DocAt
  <1>5. Matching(0) = {} /\ \A v : Matching(v) \subseteq Doc
    BY <1>4 DEF Matching, Matches
  <1> QED
    BY <1>1, <1>2, <1>3, <1>4, <1>5

(* What was there stays.                                                   *)
Kept == /\ Now' \in Nat /\ Now <= Now'
        /\ \A v \in 0 .. Now : /\ \A d \in Doc : DocAt(v, d)' = DocAt(v, d)
                               /\ Matching(v)' = Matching(v)

LEMMA HistoryStays ==
    ASSUME HistoryInv, UNCHANGED history
    PROVE  HistoryInv' /\ Kept /\ Now' = Now
  <1>1. HistoryInv'
    BY DEF HistoryInv, Now
  <1>2. Now' = Now /\ \A v, d : DocAt(v, d)' = DocAt(v, d)
    BY DEF Now, DocAt
  <1>3. \A v : Matching(v)' = Matching(v)
    BY <1>2 DEF Matching
  <1> QED
    BY <1>1, <1>2, <1>3, HistoryType DEF Kept

LEMMA HistoryGrows ==
    ASSUME HistoryInv, NEW d \in Doc, NEW val \in Value,
           history' = Changed(d, val)
    PROVE  HistoryInv' /\ Kept /\ Now' = Now + 1
           /\ DocAt(Now, d)' = [val |-> val, version |-> Now']
  <1> DEFINE last == [history[Now] EXCEPT ![d] = [val |-> val,
                                                  version |-> Now + 1]]
  <1>1. /\ Now \in Nat \ {0} /\ DOMAIN history = 1 .. Now
        /\ \A u \in 1 .. Now : history[u] \in [Doc -> Versioned]
        /\ history \in Seq([Doc -> Versioned])
    BY HistoryType DEF HistoryInv
  <1>2. last \in [Doc -> Versioned]
    <2>1. history[Now] \in [Doc -> Versioned]
      BY <1>1
    <2>2. [val |-> val, version |-> Now + 1] \in Versioned
      BY <1>1 DEF Versioned
    <2> QED
      BY <2>1, <2>2
  <1>3. /\ last[d] = [val |-> val, version |-> Now + 1]
        /\ \A e \in Doc : e # d => last[e] = history[Now][e]
    BY <1>1
  <1>4. history' = Append(history, last)
    BY DEF Changed
  <1> HIDE DEF last
  <1>5. /\ history' \in Seq([Doc -> Versioned]) /\ history' # << >>
        /\ Now' = Now + 1 /\ history'[Now + 1] = last
        /\ \A u \in 1 .. Now : history'[u] = history[u]
    BY <1>1, <1>2, <1>4, AppendProperties DEF Now
  <1>6. ASSUME NEW u \in 1 .. Now', NEW e \in Doc
        PROVE  /\ history'[u][e].version \in 1 .. u
               /\ \A w \in history'[u][e].version .. u :
                     history'[w][e] = history'[u][e]
    <2>1. CASE u \in 1 .. Now
      <3>1. /\ history[u][e].version \in 1 .. u
            /\ \A w \in history[u][e].version .. u :
                  history[w][e] = history[u][e]
        BY <2>1 DEF HistoryInv
      <3>2. \A w \in history[u][e].version .. u : w \in 1 .. Now
        BY <1>1, <2>1, <3>1
      <3> QED
        BY <1>5, <2>1, <3>1, <3>2
    <2>2. CASE u = Now + 1 /\ e = d
      <3>1. history'[u][e].version = Now + 1
        BY <1>3, <1>5, <2>2
      <3>2. \A w \in Now + 1 .. Now + 1 : w = u
        BY <1>1, <2>2
      <3> QED
        BY <1>1, <2>2, <3>1, <3>2
    <2>3. CASE u = Now + 1 /\ e # d
      <3>1. history'[u][e] = history[Now][e]
        BY <1>3, <1>5, <2>3
      <3>2. /\ history[Now][e].version \in 1 .. Now
            /\ \A w \in history[Now][e].version .. Now :
                  history[w][e] = history[Now][e]
        BY <1>1 DEF HistoryInv
      <3>3. \A w \in history[Now][e].version .. u :
                \/ w = u
                \/ w \in history[Now][e].version .. Now /\ w \in 1 .. Now
        BY <1>1, <2>3, <3>2
      <3>4. \A w \in history[Now][e].version .. u :
                history'[w][e] = history[Now][e]
        BY <1>5, <3>1, <3>2, <3>3
      <3>5. history'[u][e].version \in 1 .. u
        BY <1>1, <2>3, <3>1, <3>2
      <3> QED
        BY <3>1, <3>4, <3>5
    <2>4. u \in 1 .. Now \/ u = Now + 1
      BY <1>1, <1>5
    <2> QED
      BY <2>1, <2>2, <2>3, <2>4
  <1>7. HistoryInv'
    BY <1>5, <1>6 DEF HistoryInv
  <1>8. \A v \in 0 .. Now, e \in Doc : DocAt(v, e)' = DocAt(v, e)
    <2>1. \A v \in 0 .. Now : v = 0 \/ v \in 1 .. Now
      BY <1>1
    <2> QED
      BY <1>5, <2>1 DEF DocAt
  <1>9. \A v \in 0 .. Now : Matching(v)' = Matching(v)
    BY <1>8 DEF Matching
  <1>10. DocAt(Now, d)' = [val |-> val, version |-> Now']
    <2>1. history'[Now'][d] = [val |-> val, version |-> Now'] /\ Now' # 0
      BY <1>1, <1>3, <1>5
    <2> QED
      BY <2>1 DEF DocAt
  <1>11. Now \in Nat /\ Now' = Now + 1
    BY <1>1, <1>5
  <1>12. Kept
    BY <1>8, <1>9, <1>11 DEF Kept
  <1> QED
    BY <1>7, <1>10, <1>11, <1>12

-----------------------------------------------------------------------------
(* The client.                                                             *)

Entry == [val : Value, version : 0 .. Now, committed : BOOLEAN]
TargetData == [token : 0 .. Now, limboFree : 0 .. Now, torn : BOOLEAN]
View == [docs : [Doc -> LocalState], mutated : SUBSET Doc, keys : SUBSET Doc,
         current : BOOLEAN, limbo : SUBSET Doc, synced : BOOLEAN,
         partial : BOOLEAN]

WireInv ==
    /\ queue \in Seq(Mutation) /\ answers \in Seq(Answer)
    /\ Len(answers) <= Len(queue)

CacheInv ==
    /\ cache \in [Doc -> Entry] /\ readTime \in [Doc -> 0 .. Now]
    /\ CacheIsHistory

ViewInv == view \in View /\ resolving \subseteq view.limbo

(* The keys are those of the resume token, and the watch stream is at that *)
(* version or, after a filter that did not fit, before the first one.      *)
TargetsInv ==
    /\ remoteKeys \subseteq Doc /\ view.keys = remoteKeys
    /\ target \in TargetData /\ saved \in TargetData
    /\ lastRemote \in 0 .. Now /\ position \in 0 .. Now
    /\ saved.token <= target.token /\ saved.limboFree <= target.limboFree
    /\ target.limboFree <= target.token /\ saved.limboFree <= saved.token
    /\ target.token <= lastRemote
    /\ \A t \in {target, saved} : IF t.torn THEN t.token > 0 ELSE KeysAreOf(t)
    /\ \/ position = 0 /\ remoteKeys = {}
       \/ position = target.token

BoundsInv == /\ writes \in Nat /\ edits \in Nat /\ losses \in Nat
             /\ mismatches \in Nat /\ rejections \in Nat

SyncedInv == HistoryInv /\ WireInv /\ CacheInv /\ ViewInv /\ TargetsInv
                 /\ BoundsInv

LEMMA LargerOfTwo ==
    ASSUME NEW x \in Nat, NEW y \in Nat
    PROVE  Max({x, y}) \in {x, y} /\ Max({x, y}) >= x /\ Max({x, y}) >= y
  <1> DEFINE Is(m) == m \in {x, y} /\ \A z \in {x, y} : m >= z
  <1>1. Is(x) \/ Is(y)
    OBVIOUS
  <1>2. Is(Max({x, y}))
    BY <1>1 DEF Max
  <1> QED
    BY <1>2

LEMMA SyncedParts ==
    ASSUME SyncedInv
    PROVE  /\ HistoryInv /\ Now \in Nat \ {0}
           /\ cache \in [Doc -> Entry] /\ readTime \in [Doc -> 0 .. Now]
           /\ \A d \in Doc : cache[d].val \in Value
           /\ queue \in Seq(Mutation) /\ view \in View
           /\ resolving \in SUBSET view.limbo
           /\ resolving \subseteq Doc /\ remoteKeys \subseteq Doc
  <1>1. /\ HistoryInv /\ view \in View
        /\ cache \in [Doc -> Entry] /\ readTime \in [Doc -> 0 .. Now]
        /\ queue \in Seq(Mutation) /\ resolving \in SUBSET view.limbo
        /\ remoteKeys \subseteq Doc
    BY DEF SyncedInv, WireInv, CacheInv, ViewInv, TargetsInv
  <1>2. \A d \in Doc : cache[d].val \in Value
    BY <1>1 DEF Entry
  <1>3. resolving \subseteq Doc
    BY <1>1 DEF View
  <1> QED
    BY <1>1, <1>2, <1>3, HistoryType

-----------------------------------------------------------------------------
(* The view after its documents changed.                                   *)

LEMMA ComputedType ==
    ASSUME NEW w \in View, NEW applied \in SUBSET Doc,
           NEW local, \A d \in applied : local[d] \in LocalState
    PROVE  /\ ComputeDocumentChanges(w, applied, local) \in View
           /\ ComputeDocumentChanges(w, applied, local).keys = w.keys
  <1> DEFINE shown == {d \in applied : Matches(local[d].val)}
             mine == {d \in shown : local[d].flag = "local"}
             docs == [d \in Doc |-> CASE d \in shown -> local[d]
                                      [] d \in applied \ shown -> Absent
                                      [] OTHER -> w.docs[d]]
             mutated == (w.mutated \ applied) \cup mine
  <1>1. ComputeDocumentChanges(w, applied, local)
            = [w EXCEPT !.docs = docs, !.mutated = mutated]
    BY DEF ComputeDocumentChanges
  <1>2. w.docs \in [Doc -> LocalState] /\ w.mutated \in SUBSET Doc
    BY DEF View
  <1>3. Absent \in LocalState
    BY DEF Absent, LocalState, Value
  <1>4. docs \in [Doc -> LocalState]
    BY <1>2, <1>3
  <1>5. mutated \in SUBSET Doc
    BY <1>2
  <1> HIDE DEF docs, mutated
  <1> QED
    BY <1>1, <1>4, <1>5 DEF View

LEMMA Emits ==
    ASSUME view \in View, \A d \in Doc : cache'[d].val \in Value,
           queue' \in Seq(Mutation),
           NEW changed \in SUBSET Doc, NEW change,
           change.keys \in SUBSET Doc, change.current \in BOOLEAN,
           NEW asked \in SUBSET view.limbo,
           EmitNewSnapshots(changed, change, asked)
    PROVE  /\ view' \in View /\ view'.keys = change.keys
           /\ resolving' \subseteq view'.limbo
           /\ \/ target' = change.data
              \/ target' = [change.data EXCEPT !.limboFree = change.data.token]
  <1> DEFINE local == [d \in changed |-> LocalDoc(cache', queue', d)]
             applied == Applied(view, changed, local)
             computed == ComputeDocumentChanges(view, applied, local)
             told == [computed EXCEPT !.keys = change.keys,
                                      !.current = change.current]
             new == UpdateLimboDocuments(told)
  <1>1. /\ view' = new
        /\ resolving' = (asked \ (view.limbo \ new.limbo))
                            \cup (new.limbo \ view.limbo)
        /\ \/ target' = change.data
           \/ target' = [change.data EXCEPT !.limboFree = change.data.token]
    BY DEF EmitNewSnapshots
  <1>2. applied \in SUBSET Doc /\ \A d \in applied : local[d] \in LocalState
    <2>1. applied \subseteq changed
      BY DEF Applied
    <2>2. \A d \in changed : LocalDoc(cache', queue', d) \in LocalState
      BY LocalDocType
    <2> QED
      BY <2>1, <2>2
  <1>3. computed \in View
    <2> HIDE DEF local, applied
    <2> QED
      BY <1>2, ComputedType
  <1> HIDE DEF computed
  <1>4. told \in View /\ told.keys = change.keys
    BY <1>3 DEF View
  <1> HIDE DEF told
  <1>5. new \in View /\ new.keys = told.keys
    <2> DEFINE limbo == IF told.current
                        THEN {d \in Doc : ShouldBeInLimbo(told, d)}
                        ELSE told.limbo
    <2>1. new = [told EXCEPT !.limbo = limbo,
                             !.synced = told.current /\ limbo = {}]
      BY DEF UpdateLimboDocuments
    <2>2. limbo \in SUBSET Doc
      BY <1>4 DEF View
    <2> HIDE DEF limbo
    <2>3. (told.current /\ limbo = {}) \in BOOLEAN
      OBVIOUS
    <2> HIDE DEF new
    <2> QED
      BY <1>4, <2>1, <2>2, <2>3 DEF View
  <1>6. resolving' \subseteq new.limbo
    <2> HIDE DEF new
    <2> QED
      BY <1>1
  <1> HIDE DEF new
  <1> QED
    BY <1>1, <1>4, <1>5, <1>6

LEMMA FreshType ==
    ASSUME NEW keys \in SUBSET Doc, NEW partial \in BOOLEAN
    PROVE  /\ FreshView(keys, partial) \in View
           /\ FreshView(keys, partial).keys = keys
           /\ FreshView(keys, partial).limbo = {}
  BY DEF FreshView, View, Absent, LocalState, Value

(* Running the query gives a view.                                         *)
LEMMA InitializedType ==
    ASSUME SyncedInv, NEW data \in TargetData
    PROVE  InitializeView(data) \in View
           /\ InitializeView(data).keys = remoteKeys
           /\ InitializeView(data).limbo = {}
  <1> DEFINE since == data.limboFree
             found == [d \in Considered(since) |-> LocalDoc(cache, queue, d)]
             w == FreshView(remoteKeys, data.torn)
             applied == Applied(w, DOMAIN found, found)
  <1>1. w \in View /\ w.keys = remoteKeys /\ w.limbo = {}
    BY SyncedParts, FreshType DEF TargetData, TargetsInv
  <1>2. InitializeView(data) = ComputeDocumentChanges(w, applied, found)
    BY DEF InitializeView
  <1>3. Considered(since) \subseteq Doc
    <2>1. {m.doc : m \in ToSet(queue)} \subseteq Doc
      <3>1. \A i \in DOMAIN queue : queue[i] \in Mutation
        BY SyncedParts, ElementOfSeq, LenProperties
      <3> QED
        BY <3>1 DEF ToSet, Mutation
    <2> QED
      BY <2>1, SyncedParts DEF Considered
  <1>4. applied \in SUBSET Doc /\ \A d \in applied : found[d] \in LocalState
    <2>1. applied \subseteq Considered(since)
      BY DEF Applied
    <2>2. \A d \in Considered(since) : found[d] \in LocalState
      BY <1>3, LocalDocType, SyncedParts
    <2> QED
      BY <1>3, <2>1, <2>2
  <1>5. ComputeDocumentChanges(w, applied, found).limbo = {}
    <2>1. \A docs, mutated :
             [w EXCEPT !.docs = docs, !.mutated = mutated].limbo = w.limbo
      BY <1>1 DEF View
    <2> QED
      BY <1>1, <2>1 DEF ComputeDocumentChanges
  <1> HIDE DEF w, found, applied
  <1> QED
    BY <1>1, <1>2, <1>4, <1>5, ComputedType

-----------------------------------------------------------------------------
(* What a snapshot of the watch stream puts into the cache.                *)

LEMMA SentBelow ==
    ASSUME HistoryInv, NEW v \in 1 .. Now, NEW limbo, NEW s \in Sent(v, limbo)
    PROVE  \A d \in Doc : s[d] \in 0 .. v
  BY DEF Sent

LEMMA CachePopulated ==
    ASSUME SyncedInv, NEW v \in 1 .. Now, NEW limbo, NEW s \in Sent(v, limbo),
           PopulateDocumentChanges(s, v), UNCHANGED history
    PROVE  /\ CacheInv' /\ Accepted(s) \in SUBSET Doc
           /\ \A d \in Doc : cache'[d].version >= cache[d].version
           /\ \A d \in Doc : cache'[d].val \in Value
  <1>1. /\ HistoryInv /\ Now \in Nat \ {0} /\ Kept /\ Now' = Now
        /\ cache \in [Doc -> Entry] /\ readTime \in [Doc -> 0 .. Now]
        /\ CacheIsHistory
    BY SyncedParts, HistoryStays DEF SyncedInv, CacheInv
  <1>2. ASSUME NEW d \in Doc, s[d] # 0
        PROVE  /\ Update(s, d) \in Entry
               /\ Update(s, d).val = DocAt(Update(s, d).version, d).val
    <2>1. s[d] \in 1 .. Now
      BY <1>1, <1>2, SentBelow
    <2>2. /\ DocAt(s[d], d).val \in Value
          /\ DocAt(s[d], d).version \in 1 .. s[d]
          /\ DocAt(DocAt(s[d], d).version, d) = DocAt(s[d], d)
      BY <1>1, <2>1, HistoryType
    <2>3. CASE DocAt(s[d], d).val = None
      <3>1. Update(s, d) = [val |-> DocAt(s[d], d).val, committed |-> FALSE,
                            version |-> s[d]]
        BY <2>3 DEF Update
      <3> QED
        BY <2>1, <2>2, <3>1 DEF Entry
    <2>4. CASE DocAt(s[d], d).val # None
      <3>1. Update(s, d) = [val |-> DocAt(s[d], d).val, committed |-> FALSE,
                            version |-> DocAt(s[d], d).version]
        BY <2>4 DEF Update
      <3>2. DocAt(s[d], d).version \in 0 .. Now
        BY <1>1, <2>1, <2>2
      <3> QED
        BY <2>2, <3>1, <3>2 DEF Entry
    <2> QED
      BY <2>3, <2>4
  <1>3. Accepted(s) \in SUBSET Doc /\ \A d \in Accepted(s) : s[d] # 0
    BY DEF Accepted
  <1>4. /\ cache' = [d \in Doc |-> IF d \in Accepted(s) THEN Update(s, d)
                                   ELSE cache[d]]
        /\ readTime' = [d \in Doc |-> IF d \in Accepted(s)
                                      THEN Max({readTime[d], v})
                                      ELSE readTime[d]]
    BY DEF PopulateDocumentChanges
  <1>5. cache' \in [Doc -> Entry]
    BY <1>1, <1>2, <1>3, <1>4
  <1>6. readTime' \in [Doc -> 0 .. Now]
    <2>1. ASSUME NEW d \in Doc
          PROVE  Max({readTime[d], v}) \in 0 .. Now
      <3>1. readTime[d] \in 0 .. Now /\ v \in 0 .. Now
        BY <1>1
      <3> QED
        BY <3>1, <1>1, LargerOfTwo
    <2> QED
      BY <1>1, <1>4, <2>1
  <1>7. CacheIsHistory'
    <2>1. ASSUME NEW d \in Doc, cache'[d].version # 0, ~cache'[d].committed
          PROVE  cache'[d].val = history[cache'[d].version][d].val
      <3>1. cache'[d] \in Entry /\ cache'[d].version \in 0 .. Now
        BY <1>5 DEF Entry
      <3>2. cache'[d].val = DocAt(cache'[d].version, d).val
        <4>1. CASE d \in Accepted(s)
          <5>1. cache'[d] = Update(s, d) /\ s[d] # 0
            BY <1>3, <1>4, <4>1
          <5> QED
            BY <1>2, <5>1
        <4>2. CASE d \notin Accepted(s)
          <5>1. cache'[d] = cache[d]
            BY <1>4, <4>2
          <5> QED
            BY <1>1, <2>1, <5>1 DEF CacheIsHistory
        <4> QED
          BY <4>1, <4>2
      <3> QED
        BY <2>1, <3>2 DEF DocAt
    <2> QED
      BY <2>1 DEF CacheIsHistory, DocAt
  <1>8. \A d \in Doc : cache'[d].version >= cache[d].version
    <2>1. ASSUME NEW d \in Doc
          PROVE  cache'[d].version >= cache[d].version
      <3>1. cache[d].version \in 0 .. Now /\ cache'[d].version \in 0 .. Now
        BY <1>1, <1>5 DEF Entry
      <3>2. CASE d \in Accepted(s)
        <4>1. cache'[d] = Update(s, d)
          BY <1>4, <3>2
        <4> QED
          BY <1>1, <3>1, <3>2, <4>1 DEF Accepted
      <3>3. CASE d \notin Accepted(s)
        BY <1>4, <3>1, <3>3
      <3> QED
        BY <3>2, <3>3
    <2> QED
      BY <2>1
  <1>9. CacheInv'
    <2>1. Entry' = Entry
      BY <1>1 DEF Entry
    <2> QED
      BY <1>1, <1>5, <1>6, <1>7, <2>1 DEF CacheInv
  <1>10. \A d \in Doc : cache'[d].val \in Value
    BY <1>5 DEF Entry
  <1> QED
    BY <1>3, <1>8, <1>9, <1>10

-----------------------------------------------------------------------------
(* Each action keeps the invariant.                                        *)

LEMMA TypesStay ==
    ASSUME HistoryInv, UNCHANGED history
    PROVE  /\ Answer' = Answer /\ Entry' = Entry /\ TargetData' = TargetData
           /\ Now' = Now /\ HistoryInv' /\ Kept
  <1>1. Now' = Now /\ HistoryInv' /\ Kept
    BY HistoryStays
  <1> QED
    BY <1>1 DEF Answer, Entry, TargetData

(* The client learns nothing of the target.                                *)
LEMMA NoChangeKeeps ==
    ASSUME SyncedInv, WireInv', CacheInv', BoundsInv',
           UNCHANGED <<history, remoteKeys, saved, lastRemote, position>>,
           NEW changed \in SUBSET Doc, NEW asked \in SUBSET resolving,
           EmitNewSnapshots(changed, NoChange, asked)
    PROVE  SyncedInv'
  <1>1. /\ Now' = Now /\ HistoryInv' /\ Kept /\ Entry' = Entry
        /\ TargetData' = TargetData
    BY SyncedParts, TypesStay
  <1>2. /\ view \in View /\ asked \in SUBSET view.limbo
        /\ \A d \in Doc : cache'[d].val \in Value
        /\ queue' \in Seq(Mutation)
    <2>1. \A d \in Doc : cache'[d] \in Entry
      BY <1>1 DEF CacheInv
    <2> QED
      BY <2>1, SyncedParts DEF WireInv, Entry
  <1>3. view.keys \in SUBSET Doc /\ view.current \in BOOLEAN
    BY <1>2 DEF View
  <1>4. /\ view' \in View /\ view'.keys = view.keys
        /\ resolving' \subseteq view'.limbo
        /\ \/ target' = target
           \/ target' = [target EXCEPT !.limboFree = target.token]
    <2>1. /\ NoChange.keys = view.keys /\ NoChange.current = view.current
          /\ NoChange.data = target
      BY DEF NoChange
    <2> QED
      BY <1>2, <1>3, <2>1, Emits
  <1>5. ViewInv'
    BY <1>4 DEF ViewInv
  <1>6. TargetsInv'
    <2>1. TargetsInv /\ Now \in Nat
      BY SyncedParts DEF SyncedInv
    <2>2. /\ target' \in TargetData /\ target'.token = target.token
          /\ target'.torn = target.torn
          /\ target'.limboFree \in {target.limboFree, target.token}
      BY <1>4, <2>1 DEF TargetsInv, TargetData
    <2>3. /\ target.token \in 0 .. Now /\ target.limboFree \in 0 .. Now
          /\ saved.token \in 0 .. Now /\ saved.limboFree \in 0 .. Now
      BY <2>1 DEF TargetsInv, TargetData
    <2>4. /\ saved.token <= target'.token /\ target'.limboFree <= target'.token
          /\ saved.limboFree <= target'.limboFree
          /\ target'.token <= lastRemote
      BY <2>1, <2>2, <2>3 DEF TargetsInv
    <2>5. ASSUME NEW t \in {target', saved}
          PROVE  IF t.torn THEN t.token > 0
                 ELSE remoteKeys = Matching(t.token)'
      <3>1. /\ t.token \in 0 .. Now
            /\ Matching(target.token)' = Matching(target.token)
            /\ Matching(saved.token)' = Matching(saved.token)
        BY <1>1, <2>2, <2>3, <2>5 DEF Kept
      <3> QED
        BY <2>1, <2>2, <2>5, <3>1 DEF TargetsInv, KeysAreOf
    <2> QED
      BY <1>1, <1>4, <2>1, <2>2, <2>4, <2>5 DEF TargetsInv, KeysAreOf
  <1> QED
    BY <1>1, <1>5, <1>6 DEF SyncedInv

LEMMA CacheStays ==
    ASSUME SyncedInv, UNCHANGED <<history, cache, readTime>>
    PROVE  CacheInv'
  <1>1. Entry' = Entry /\ Now' = Now
    BY SyncedParts, TypesStay
  <1>2. CacheInv
    BY DEF SyncedInv
  <1> QED
    BY <1>1, <1>2 DEF CacheInv, CacheIsHistory, DocAt

LEMMA WriteMutationsKeeps ==
    ASSUME SyncedInv, NEW d \in Doc, WriteMutations(d)
    PROVE  SyncedInv'
  <1>1. PICK m \in [doc : {d}, kind : {"set"}, val : {o \in Order : ~o.served}]
                      \cup {[doc |-> d, kind |-> "update", val |-> None]} :
            queue' = Append(queue, m)
    BY DEF WriteMutations
  <1>2. UNCHANGED <<history, answers, cache, readTime, remoteKeys, saved,
                    lastRemote, position, edits, losses, mismatches,
                    rejections>>
        /\ writes' = writes + 1 /\ EmitNewSnapshots({d}, NoChange, resolving)
    BY DEF WriteMutations, server
  <1>3. m \in Mutation
    BY <1>1 DEF Mutation, Value
  <1>4. WireInv'
    <2>1. WireInv /\ Answer' = Answer
      BY <1>2, SyncedParts, TypesStay DEF SyncedInv
    <2>2. queue' \in Seq(Mutation) /\ Len(queue') = Len(queue) + 1
      BY <1>1, <1>3, <2>1, AppendProperties DEF WireInv
    <2>3. Len(answers) \in Nat /\ Len(queue) \in Nat
      BY <2>1, LenProperties DEF WireInv
    <2> QED
      BY <1>2, <2>1, <2>2, <2>3 DEF WireInv
  <1>5. BoundsInv'
    BY <1>2 DEF SyncedInv, BoundsInv
  <1>6. CacheInv'
    BY <1>2, CacheStays
  <1> QED
    BY <1>2, <1>4, <1>5, <1>6, NoChangeKeeps

(* The oldest mutation and its answer.                                     *)
LEMMA HeadsTyped ==
    ASSUME WireInv, answers # << >>
    PROVE  /\ Head(queue) \in Mutation /\ Head(answers) \in Answer
           /\ Tail(queue) \in Seq(Mutation) /\ Tail(answers) \in Seq(Answer)
           /\ Len(Tail(answers)) <= Len(Tail(queue))
  <1>1. /\ queue \in Seq(Mutation) /\ answers \in Seq(Answer)
        /\ Len(answers) <= Len(queue)
    BY DEF WireInv
  <1>2. Len(answers) \in Nat \ {0} /\ Len(queue) \in Nat
    BY <1>1, EmptySeq, LenProperties
  <1>3. queue # << >>
    BY <1>1, <1>2, EmptySeq
  <1> QED
    BY <1>1, <1>2, <1>3, HeadTailProperties

LEMMA HandleSuccessfulWriteKeeps ==
    ASSUME SyncedInv, HandleSuccessfulWrite
    PROVE  /\ SyncedInv'
           /\ \A d \in Doc : cache'[d].version >= cache[d].version
  <1> DEFINE m == Head(queue)
             d == m.doc
             a == Head(answers)
             v == a.version
  <1>1. /\ answers # << >> /\ queue' = Tail(queue) /\ answers' = Tail(answers)
        /\ UNCHANGED <<history, remoteKeys, saved, lastRemote, position,
                       writes, edits, losses, mismatches, rejections>>
        /\ EmitNewSnapshots({d}, NoChange, resolving)
        /\ \/ /\ cache[d].version < v
              /\ cache' = [cache EXCEPT ![d] =
                               ApplyToRemoteDocument(cache[d], m, v)]
              /\ readTime' = [readTime EXCEPT ![d] =
                                  Max({readTime[d], a.commit})]
           \/ UNCHANGED <<cache, readTime>>
    BY DEF HandleSuccessfulWrite, bounds
  <1>2. /\ HistoryInv /\ WireInv /\ CacheInv /\ Now \in Nat
        /\ Answer' = Answer /\ Entry' = Entry /\ Now' = Now
    BY <1>1, SyncedParts, TypesStay DEF SyncedInv
  <1>3. m \in Mutation /\ a \in Answer
    BY <1>1, <1>2, HeadsTyped
  <1>4. d \in Doc /\ m.val \in Value /\ v \in 0 .. Now /\ a.commit \in 0 .. Now
    BY <1>3 DEF Mutation, Answer
  <1>5. WireInv'
    BY <1>1, <1>2, HeadsTyped DEF WireInv
  <1>6. BoundsInv'
    BY <1>1 DEF SyncedInv, BoundsInv
  <1> HIDE DEF m, d, a, v
  <1>7. CacheInv' /\ \A e \in Doc : cache'[e].version >= cache[e].version
    <2>1. CASE UNCHANGED <<cache, readTime>>
      <3>1. \A e \in Doc : cache[e].version \in 0 .. Now
        BY SyncedParts DEF Entry
      <3> QED
        BY <1>1, <1>2, <2>1, <3>1, CacheStays
    <2>2. CASE /\ cache[d].version < v
               /\ cache' = [cache EXCEPT ![d] =
                                ApplyToRemoteDocument(cache[d], m, v)]
               /\ readTime' = [readTime EXCEPT ![d] =
                                   Max({readTime[d], a.commit})]
      <3> DEFINE entry == ApplyToRemoteDocument(cache[d], m, v)
      <3>1. /\ cache \in [Doc -> Entry] /\ readTime \in [Doc -> 0 .. Now]
            /\ CacheIsHistory /\ cache[d].val \in Value
        BY <1>2, <1>4, SyncedParts DEF CacheInv
      <3>2. entry \in Entry /\ entry.version = v /\ entry.committed
        <4> DEFINE val == CASE m.kind = "set" -> m.val
                            [] m.kind = "update" /\ cache[d].val # None ->
                                  Served(cache[d].val)
                            [] OTHER -> None
        <4>1. val \in Value
          <5>1. CASE m.kind = "set"
            BY <1>4, <5>1
          <5>2. CASE m.kind = "update" /\ cache[d].val # None
            BY <3>1, <5>2, OrderIsServed DEF Value
          <5>3. CASE m.kind = "update" /\ cache[d].val = None
            BY <5>3 DEF Value
          <5> QED
            BY <1>3, <5>1, <5>2, <5>3 DEF Mutation
        <4>2. entry = [val |-> val, version |-> v, committed |-> TRUE]
          BY DEF ApplyToRemoteDocument
        <4> HIDE DEF val, entry
        <4> QED
          BY <1>4, <4>1, <4>2 DEF Entry
      <3> HIDE DEF entry
      <3>3. /\ cache' \in [Doc -> Entry] /\ cache'[d] = entry
            /\ \A e \in Doc : e # d => cache'[e] = cache[e]
        BY <1>4, <2>2, <3>1, <3>2 DEF entry
      <3>4. readTime' \in [Doc -> 0 .. Now]
        <4>1. Max({readTime[d], a.commit}) \in 0 .. Now
          <5>1. readTime[d] \in 0 .. Now
            BY <1>4, <3>1
          <5> QED
            BY <1>2, <1>4, <5>1, LargerOfTwo
        <4> QED
          BY <1>4, <2>2, <3>1, <4>1
      <3>5. CacheIsHistory'
        BY <1>1, <3>1, <3>2, <3>3 DEF CacheIsHistory, DocAt
      <3>6. ASSUME NEW e \in Doc
            PROVE  cache'[e].version >= cache[e].version
        <4>1. cache[e].version \in 0 .. Now /\ cache[d].version \in 0 .. Now
          BY <1>4, <3>1 DEF Entry
        <4> QED
          BY <1>2, <1>4, <2>2, <3>2, <3>3, <4>1
      <3> QED
        BY <1>2, <3>3, <3>4, <3>5, <3>6 DEF CacheInv
    <2> QED
      BY <1>1, <2>1, <2>2
  <1>8. SyncedInv'
    BY <1>1, <1>4, <1>5, <1>6, <1>7, NoChangeKeeps
  <1> QED
    BY <1>7, <1>8

LEMMA HandleRejectedWriteKeeps ==
    ASSUME SyncedInv, HandleRejectedWrite
    PROVE  SyncedInv'
  <1>1. /\ answers # << >> /\ queue' = Tail(queue) /\ answers' = Tail(answers)
        /\ UNCHANGED <<history, cache, readTime, remoteKeys, saved, lastRemote,
                       position, writes, edits, losses, mismatches,
                       rejections>>
        /\ EmitNewSnapshots({Head(queue).doc}, NoChange, resolving)
    BY DEF HandleRejectedWrite, bounds
  <1>2. WireInv /\ Answer' = Answer
    BY <1>1, SyncedParts, TypesStay DEF SyncedInv
  <1>3. Head(queue).doc \in Doc
    BY <1>1, <1>2, HeadsTyped DEF Mutation
  <1>4. WireInv'
    BY <1>1, <1>2, HeadsTyped DEF WireInv
  <1>5. BoundsInv'
    BY <1>1 DEF SyncedInv, BoundsInv
  <1>6. CacheInv'
    BY <1>1, CacheStays
  <1> QED
    BY <1>1, <1>3, <1>4, <1>5, <1>6, NoChangeKeeps

LEMMA HandleRejectedListenKeeps ==
    ASSUME SyncedInv, NEW d \in Doc, HandleRejectedListen(d)
    PROVE  /\ SyncedInv' /\ cache'[d] = NoEntry /\ d \in resolving
           /\ \A e \in Doc \ {d} : cache'[e] = cache[e]
  <1>1. /\ d \in resolving /\ rejections' = rejections + 1
        /\ cache' = [cache EXCEPT ![d] = NoEntry]
        /\ UNCHANGED <<history, answers, queue, readTime, remoteKeys, saved,
                       lastRemote, position, writes, edits, losses,
                       mismatches>>
        /\ EmitNewSnapshots({d}, NoChange, resolving \ {d})
    BY DEF HandleRejectedListen, server
  <1>2. /\ WireInv /\ CacheInv /\ Answer' = Answer /\ Entry' = Entry
        /\ Now' = Now /\ Now \in Nat /\ cache \in [Doc -> Entry]
    BY <1>1, SyncedParts, TypesStay DEF SyncedInv
  <1>3. NoEntry \in Entry /\ NoEntry.version = 0
    BY <1>2 DEF NoEntry, Entry, Value
  <1>4. /\ cache' \in [Doc -> Entry] /\ cache'[d] = NoEntry
        /\ \A e \in Doc \ {d} : cache'[e] = cache[e]
    BY <1>1, <1>2, <1>3
  <1>5. CacheInv'
    <2>1. CacheIsHistory'
      BY <1>1, <1>2, <1>3, <1>4 DEF CacheInv, CacheIsHistory, DocAt
    <2> QED
      BY <1>1, <1>2, <1>4, <2>1 DEF CacheInv
  <1>6. WireInv'
    BY <1>1, <1>2 DEF WireInv
  <1>7. BoundsInv'
    BY <1>1 DEF SyncedInv, BoundsInv
  <1> QED
    BY <1>1, <1>4, <1>5, <1>6, <1>7, NoChangeKeeps

(* The keys after a snapshot that starts at the version they match.        *)
LEMMA KeysAfter ==
    ASSUME NEW v \in Nat, NEW keys, keys = Matching(position)
    PROVE  Matching(v) = (keys \ ((Matching(position) \ Matching(v)) \cap keys))
                \cup {d \in Matching(v) : DocAt(position, d) # DocAt(v, d)}
  <1>1. ASSUME NEW d \in Matching(v), DocAt(position, d) = DocAt(v, d)
        PROVE  d \in Matching(position)
    BY <1>1 DEF Matching
  <1> QED
    BY <1>1

LEMMA ApplyRemoteEventKeeps ==
    ASSUME SyncedInv, NEW v \in 1 .. Now, NEW limbo,
           ApplyRemoteEvent(v, limbo)
    PROVE  /\ SyncedInv'
           /\ \A d \in Doc : cache'[d].version >= cache[d].version
  <1>1. v \in Max({lastRemote, 1}) .. Now /\ v >= position
        /\ lastRemote' = v /\ position' = v
        /\ UNCHANGED <<history, answers, queue, writes, edits, losses,
                       mismatches, rejections>>
    BY DEF ApplyRemoteEvent, server, bounds
  <1>2. PICK s \in Sent(v, limbo), old \in BOOLEAN :
         LET touched == {d \in Matching(v) : DocAt(position, d) # DocAt(v, d)}
             removed == (Matching(position) \ Matching(v)) \cap view.keys
             data    == [target EXCEPT !.token = v,
                                       !.torn = @ /\ position > 0]
         IN /\ PopulateDocumentChanges(s, v)
            /\ remoteKeys' = (remoteKeys \ removed) \cup touched
            /\ saved' = IF ShouldPersistTargetData(touched \cup removed, old)
                        THEN data ELSE saved
            /\ EmitNewSnapshots(Accepted(s),
                   [keys |-> (view.keys \ removed) \cup touched,
                    current |-> TRUE, data |-> data], resolving)
    BY DEF ApplyRemoteEvent
  <1> DEFINE touched == {d \in Matching(v) : DocAt(position, d) # DocAt(v, d)}
             removed == (Matching(position) \ Matching(v)) \cap view.keys
             keys    == (remoteKeys \ removed) \cup touched
             torn    == target.torn /\ position > 0
             data    == [target EXCEPT !.token = v, !.torn = torn]
             change  == [keys |-> (view.keys \ removed) \cup touched,
                         current |-> TRUE, data |-> data]
  <1>3. /\ PopulateDocumentChanges(s, v) /\ remoteKeys' = keys
        /\ \/ saved' = data
           \/ saved' = saved /\ target.token # 0 /\ touched \cup removed = {}
        /\ EmitNewSnapshots(Accepted(s), change, resolving)
    BY <1>2 DEF ShouldPersistTargetData
  <1>4. /\ HistoryInv /\ WireInv /\ CacheInv /\ ViewInv /\ TargetsInv
        /\ BoundsInv /\ Now \in Nat \ {0} /\ view \in View
        /\ Answer' = Answer /\ TargetData' = TargetData /\ Now' = Now
        /\ HistoryInv' /\ Kept
    BY <1>1, SyncedParts, TypesStay DEF SyncedInv
  <1>5. /\ target.token \in 0 .. Now /\ target.limboFree \in 0 .. Now
        /\ saved.token \in 0 .. Now /\ saved.limboFree \in 0 .. Now
        /\ target.torn \in BOOLEAN
        /\ position \in 0 .. Now /\ lastRemote \in 0 .. Now
        /\ remoteKeys \subseteq Doc /\ view.keys = remoteKeys
    BY <1>4 DEF TargetsInv, TargetData
  <1>6. v >= lastRemote /\ v > 0
    BY <1>1, <1>5, LargerOfTwo
  <1>7. /\ CacheInv' /\ Accepted(s) \in SUBSET Doc
        /\ \A d \in Doc : cache'[d].version >= cache[d].version
        /\ \A d \in Doc : cache'[d].val \in Value
    BY <1>1, <1>3, CachePopulated
  <1>8. touched \subseteq Doc /\ removed \subseteq Doc /\ keys \subseteq Doc
    BY <1>4, <1>5, HistoryType
  <1>9. /\ data \in TargetData /\ data.token = v /\ data.torn = torn
        /\ data.limboFree = target.limboFree
        /\ [data EXCEPT !.limboFree = data.token] \in TargetData
        /\ [data EXCEPT !.limboFree = data.token].token = v
        /\ [data EXCEPT !.limboFree = data.token].torn = torn
        /\ [data EXCEPT !.limboFree = data.token].limboFree = v
    <2>1. torn \in BOOLEAN /\ v \in 0 .. Now /\ target \in TargetData
      BY <1>4, <1>5 DEF TargetsInv
    <2> HIDE DEF torn
    <2> QED
      BY <2>1 DEF TargetData
  <1> HIDE DEF data
  <1>10. change.keys = keys /\ change.current = TRUE /\ change.data = data
    BY <1>5
  <1>11. /\ view' \in View /\ view'.keys = keys
         /\ resolving' \subseteq view'.limbo
         /\ \/ target' = data
            \/ target' = [data EXCEPT !.limboFree = data.token]
    <2> HIDE DEF change, keys
    <2>1. queue' \in Seq(Mutation) /\ resolving \in SUBSET view.limbo
      BY <1>1, SyncedParts
    <2> QED
      BY <1>3, <1>4, <1>7, <1>8, <1>10, <2>1, Emits
  <1>12. /\ target' \in TargetData /\ target'.token = v /\ target'.torn = torn
         /\ target'.limboFree \in {target.limboFree, v}
    BY <1>9, <1>11
  <1>13. keys = Matching(v) \/ torn
    <2>1. CASE remoteKeys = Matching(position)
      BY <1>4, <1>5, <2>1, KeysAfter
    <2>2. CASE remoteKeys # Matching(position)
      <3>1. Matching(0) = {}
        BY <1>4, HistoryType
      <3>2. position # 0 /\ position = target.token
        <4>1. CASE position = 0 /\ remoteKeys = {}
          BY <2>2, <3>1, <4>1
        <4>2. CASE position = 0 /\ position = target.token
          BY <2>2, <3>1, <4>2, <1>4 DEF TargetsInv, KeysAreOf
        <4> QED
          BY <1>4, <4>1, <4>2 DEF TargetsInv
      <3>3. target.torn
        BY <1>4, <2>2, <3>2 DEF TargetsInv, KeysAreOf
      <3> QED
        BY <1>5, <3>2, <3>3
    <2> QED
      BY <2>1, <2>2
  <1>14. ASSUME NEW t \in {target', saved'}
         PROVE  IF t.torn THEN t.token > 0
                ELSE remoteKeys' = Matching(t.token)'
    <2>1. CASE t.token = v /\ t.torn = torn
      <3>1. Matching(v)' = Matching(v)
        BY <1>4 DEF Kept
      <3> QED
        BY <1>3, <1>6, <1>13, <2>1, <3>1
    <2>2. CASE t = saved' /\ saved' = saved /\ touched \cup removed = {}
      <3>1. remoteKeys' = remoteKeys
        BY <1>3, <2>2
      <3>2. Matching(saved.token)' = Matching(saved.token)
        BY <1>4, <1>5, <2>2 DEF Kept
      <3>3. IF saved.torn THEN saved.token > 0
            ELSE remoteKeys = Matching(saved.token)
        BY <1>4 DEF TargetsInv, KeysAreOf
      <3> QED
        BY <2>2, <3>1, <3>2, <3>3
    <2> QED
      BY <1>3, <1>9, <1>12, <2>1, <2>2
  <1>15. /\ saved'.token <= target'.token
         /\ saved'.limboFree <= target'.limboFree
         /\ target'.limboFree <= target'.token
         /\ saved'.limboFree <= saved'.token
         /\ saved' \in TargetData
    <2>1. /\ saved.token <= target.token /\ target.token <= lastRemote
          /\ saved.limboFree <= target.limboFree
          /\ target.limboFree <= target.token
          /\ saved.limboFree <= saved.token /\ saved \in TargetData
      BY <1>4 DEF TargetsInv
    <2>2. CASE saved' = data
      BY <1>5, <1>6, <1>9, <1>12, <2>1, <2>2
    <2>3. CASE saved' = saved
      BY <1>5, <1>6, <1>12, <2>1, <2>3
    <2> QED
      BY <1>3, <2>2, <2>3
  <1>16. TargetsInv'
    <2>1. lastRemote' \in 0 .. Now /\ position' \in 0 .. Now
      BY <1>1, <1>4
    <2>2. target'.token <= lastRemote' /\ position' = target'.token
      BY <1>1, <1>4, <1>12
    <2> HIDE DEF keys
    <2> QED
      BY <1>3, <1>4, <1>8, <1>11, <1>12, <1>14, <1>15, <2>1, <2>2
         DEF TargetsInv, KeysAreOf
  <1>17. WireInv' /\ BoundsInv' /\ ViewInv'
    BY <1>1, <1>4, <1>11 DEF WireInv, BoundsInv, ViewInv
  <1> QED
    BY <1>4, <1>7, <1>16, <1>17 DEF SyncedInv

LEMMA ResetTargetKeeps ==
    ASSUME SyncedInv, NEW v \in 1 .. Now, ResetTarget(v)
    PROVE  /\ SyncedInv'
           /\ \A d \in Doc : cache'[d].version >= cache[d].version
  <1> DEFINE data == [target EXCEPT !.token = v, !.torn = TRUE]
             change == [keys |-> {}, current |-> FALSE, data |-> data]
  <1>1. PICK s \in Sent(v, {}), old \in BOOLEAN :
            /\ PopulateDocumentChanges(s, v)
            /\ lastRemote' = v /\ position' = 0
            /\ mismatches' = mismatches + 1
            /\ remoteKeys' = remoteKeys \ view.keys
            /\ saved' = IF ShouldPersistTargetData(view.keys, old)
                        THEN data ELSE saved
            /\ UNCHANGED <<server, queue, writes, edits, losses, rejections>>
            /\ EmitNewSnapshots(Accepted(s), change, resolving)
    BY DEF ResetTarget
  <1>2. v \in lastRemote .. Now
    BY DEF ResetTarget
  <1>3. /\ UNCHANGED <<history, answers, queue, writes, edits, losses,
                       rejections>>
        /\ \/ saved' = data
           \/ saved' = saved /\ target.token # 0 /\ view.keys = {}
    BY <1>1 DEF server, ShouldPersistTargetData
  <1>4. /\ HistoryInv /\ WireInv /\ CacheInv /\ ViewInv /\ TargetsInv
        /\ BoundsInv /\ Now \in Nat \ {0} /\ view \in View
        /\ Answer' = Answer /\ TargetData' = TargetData /\ Now' = Now
        /\ HistoryInv' /\ Kept
    BY <1>3, SyncedParts, TypesStay DEF SyncedInv
  <1>5. /\ target.token \in 0 .. Now /\ target.limboFree \in 0 .. Now
        /\ saved.token \in 0 .. Now /\ saved.limboFree \in 0 .. Now
        /\ lastRemote \in 0 .. Now /\ view.keys = remoteKeys
        /\ target \in TargetData
    BY <1>4 DEF TargetsInv, TargetData
  <1>6. /\ CacheInv' /\ Accepted(s) \in SUBSET Doc
        /\ \A d \in Doc : cache'[d].version >= cache[d].version
        /\ \A d \in Doc : cache'[d].val \in Value
    BY <1>1, <1>3, CachePopulated
  <1>7. /\ data \in TargetData /\ data.token = v /\ data.torn
        /\ data.limboFree = target.limboFree
        /\ [data EXCEPT !.limboFree = data.token] \in TargetData
        /\ [data EXCEPT !.limboFree = data.token].token = v
        /\ [data EXCEPT !.limboFree = data.token].torn
        /\ [data EXCEPT !.limboFree = data.token].limboFree = v
    <2>1. v \in 0 .. Now
      BY <1>4
    <2> QED
      BY <1>5, <2>1 DEF TargetData
  <1> HIDE DEF data
  <1>8. /\ view' \in View /\ view'.keys = {}
        /\ resolving' \subseteq view'.limbo
        /\ \/ target' = data
           \/ target' = [data EXCEPT !.limboFree = data.token]
    <2>1. change.keys = {} /\ change.current = FALSE /\ change.data = data
      OBVIOUS
    <2> HIDE DEF change
    <2>2. queue' \in Seq(Mutation) /\ resolving \in SUBSET view.limbo
      BY <1>3, SyncedParts
    <2> QED
      BY <1>1, <1>4, <1>6, <2>1, <2>2, Emits
  <1>9. /\ target' \in TargetData /\ target'.token = v /\ target'.torn
        /\ target'.limboFree \in {target.limboFree, v}
    BY <1>7, <1>8
  <1>10. remoteKeys' = {}
    BY <1>1, <1>5
  <1>11. ASSUME NEW t \in {target', saved'}
         PROVE  IF t.torn THEN t.token > 0
                ELSE remoteKeys' = Matching(t.token)'
    <2>1. CASE t.token = v /\ t.torn
      BY <2>1
    <2>2. CASE t = saved' /\ saved' = saved /\ view.keys = {}
      <3>1. Matching(saved.token)' = Matching(saved.token)
        BY <1>4, <1>5, <2>2 DEF Kept
      <3>2. IF saved.torn THEN saved.token > 0
            ELSE remoteKeys = Matching(saved.token)
        BY <1>4 DEF TargetsInv, KeysAreOf
      <3> QED
        BY <1>5, <1>10, <2>2, <3>1, <3>2
    <2> QED
      BY <1>3, <1>7, <1>9, <2>1, <2>2
  <1>12. /\ saved'.token <= target'.token
         /\ saved'.limboFree <= target'.limboFree
         /\ target'.limboFree <= target'.token
         /\ saved'.limboFree <= saved'.token
         /\ saved' \in TargetData
    <2>1. /\ saved.token <= target.token /\ target.token <= lastRemote
          /\ saved.limboFree <= target.limboFree
          /\ target.limboFree <= target.token
          /\ saved.limboFree <= saved.token /\ saved \in TargetData
      BY <1>4 DEF TargetsInv
    <2>2. CASE saved' = data
      BY <1>2, <1>5, <1>7, <1>9, <2>1, <2>2
    <2>3. CASE saved' = saved
      BY <1>2, <1>5, <1>9, <2>1, <2>3
    <2> QED
      BY <1>3, <2>2, <2>3
  <1>13. TargetsInv'
    BY <1>1, <1>2, <1>4, <1>8, <1>9, <1>10, <1>11, <1>12
       DEF TargetsInv, KeysAreOf
  <1>14. WireInv' /\ BoundsInv' /\ ViewInv'
    BY <1>1, <1>3, <1>4, <1>8 DEF WireInv, BoundsInv, ViewInv
  <1> QED
    BY <1>4, <1>6, <1>13, <1>14 DEF SyncedInv

LEMMA ApplyOnlineStateChangeKeeps ==
    ASSUME SyncedInv, ApplyOnlineStateChange
    PROVE  SyncedInv'
  <1>1. /\ view' = [view EXCEPT !.current = FALSE, !.synced = FALSE]
        /\ UNCHANGED <<history, answers, queue, cache, readTime, remoteKeys,
                       target, saved, lastRemote, position, resolving,
                       writes, edits, losses, mismatches, rejections>>
    BY DEF ApplyOnlineStateChange, server, targets, bounds
  <1>2. /\ WireInv /\ ViewInv /\ TargetsInv /\ BoundsInv /\ HistoryInv'
        /\ Answer' = Answer /\ TargetData' = TargetData /\ Now' = Now /\ Kept
    BY <1>1, SyncedParts, TypesStay DEF SyncedInv
  <1>3. view' \in View /\ view'.keys = view.keys /\ view'.limbo = view.limbo
    BY <1>1, <1>2 DEF ViewInv, View
  <1>4. TargetsInv'
    BY <1>1, <1>2, <1>3 DEF TargetsInv, KeysAreOf, Matching, DocAt
  <1>5. WireInv' /\ ViewInv' /\ BoundsInv'
    BY <1>1, <1>2, <1>3 DEF WireInv, ViewInv, BoundsInv
  <1> QED
    BY <1>1, <1>2, <1>4, <1>5, CacheStays DEF SyncedInv

LEMMA AnswersLostKeeps ==
    ASSUME WireInv, BoundsInv, AnswersLost, UNCHANGED queue
    PROVE  WireInv' /\ BoundsInv'
  <1>1. answers' = << >> /\ Len(answers') = 0
    BY EmptySeq DEF AnswersLost
  <1>2. Len(queue) \in Nat
    BY LenProperties DEF WireInv
  <1>3. << >> \in Seq(Answer')
    BY EmptySeq
  <1>4. WireInv'
    BY <1>1, <1>2, <1>3 DEF WireInv
  <1>5. BoundsInv'
    BY DEF AnswersLost, BoundsInv
  <1> QED
    BY <1>4, <1>5

LEMMA LoseAnswersKeeps ==
    ASSUME SyncedInv, LoseAnswers
    PROVE  SyncedInv'
  <1>1. /\ AnswersLost
        /\ UNCHANGED <<history, queue, cache, readTime, remoteKeys, target,
                       saved, lastRemote, position, view, resolving>>
    BY DEF LoseAnswers, targets
  <1>2. /\ WireInv /\ ViewInv /\ TargetsInv /\ BoundsInv /\ HistoryInv'
        /\ TargetData' = TargetData /\ Now' = Now
    BY <1>1, SyncedParts, TypesStay DEF SyncedInv
  <1>3. WireInv' /\ BoundsInv'
    BY <1>1, <1>2, AnswersLostKeeps
  <1>4. TargetsInv' /\ ViewInv'
    BY <1>1, <1>2 DEF TargetsInv, KeysAreOf, Matching, DocAt, ViewInv
  <1> QED
    BY <1>1, <1>2, <1>3, <1>4, CacheStays DEF SyncedInv

LEMMA ListenKeeps ==
    ASSUME SyncedInv, NEW data \in {target, saved}, Listen(data),
           WireInv', BoundsInv'
    PROVE  SyncedInv'
  <1>1. /\ target' = data /\ saved' = data /\ position' = data.token
        /\ view' = InitializeView(data) /\ resolving' = {}
        /\ UNCHANGED <<history, queue, cache, readTime, remoteKeys,
                       lastRemote>>
    BY DEF Listen
  <1>2. /\ TargetsInv /\ HistoryInv' /\ TargetData' = TargetData
        /\ Now' = Now /\ Now \in Nat /\ Kept
    BY <1>1, SyncedParts, TypesStay DEF SyncedInv
  <1>3. view' \in View /\ view'.keys = remoteKeys
    BY <1>1, <1>2, InitializedType DEF TargetsInv
  <1>4. /\ data \in TargetData /\ data.limboFree <= data.token
        /\ data.token \in 0 .. Now /\ data.limboFree \in 0 .. Now
        /\ data.token <= lastRemote
        /\ IF data.torn THEN data.token > 0
           ELSE remoteKeys = Matching(data.token)
    <2>1. \A t \in {target, saved} :
              /\ t \in TargetData /\ t.limboFree <= t.token
              /\ IF t.torn THEN t.token > 0
                 ELSE remoteKeys = Matching(t.token)
      BY <1>2 DEF TargetsInv, KeysAreOf
    <2>2. /\ target.token \in 0 .. Now /\ saved.token \in 0 .. Now
          /\ target.limboFree \in 0 .. Now /\ saved.limboFree \in 0 .. Now
          /\ lastRemote \in 0 .. Now
      BY <1>2, <2>1 DEF TargetsInv, TargetData
    <2>3. target.token <= lastRemote /\ saved.token <= lastRemote
      BY <1>2, <2>2 DEF TargetsInv
    <2> QED
      BY <2>1, <2>2, <2>3
  <1>5. \A u : Matching(u)' = Matching(u)
    BY <1>1 DEF Matching, DocAt
  <1>6. TargetsInv'
    BY <1>1, <1>2, <1>3, <1>4, <1>5 DEF TargetsInv, KeysAreOf
  <1>7. ViewInv'
    BY <1>1, <1>3 DEF ViewInv
  <1> QED
    BY <1>1, <1>2, <1>6, <1>7, CacheStays DEF SyncedInv

(* The server changes, and the client has not noticed.                     *)
LEMMA GrowthKeeps ==
    ASSUME SyncedInv, HistoryInv', Kept, BoundsInv',
           answers' \in Seq(Answer'), Len(answers') <= Len(queue),
           UNCHANGED <<queue, cache, readTime, targets, view, resolving>>
    PROVE  SyncedInv'
  <1>1. /\ WireInv /\ CacheInv /\ ViewInv /\ TargetsInv
        /\ Now \in Nat /\ Now' \in Nat /\ Now <= Now'
        /\ \A x \in 0 .. Now : x \in 0 .. Now'
    BY SyncedParts DEF SyncedInv, Kept
  <1>2. UNCHANGED <<queue, cache, readTime, remoteKeys, target, saved,
                    lastRemote, position, view, resolving>>
    BY DEF targets
  <1>3. WireInv' /\ ViewInv'
    BY <1>1, <1>2 DEF WireInv, ViewInv
  <1>4. CacheInv'
    <2>1. /\ cache \in [Doc -> Entry] /\ readTime \in [Doc -> 0 .. Now]
          /\ CacheIsHistory
      BY <1>1 DEF CacheInv
    <2>2. \A x \in Entry : x \in Entry'
      BY <1>1 DEF Entry
    <2>3. CacheIsHistory'
      <3>1. \A d \in Doc : cache[d].version \in 0 .. Now
        BY <2>1 DEF Entry
      <3>2. \A d \in Doc : DocAt(cache[d].version, d)'
                               = DocAt(cache[d].version, d)
        BY <1>2, <3>1 DEF Kept
      <3> QED
        BY <1>2, <2>1, <3>2 DEF CacheIsHistory
    <2>4. cache' \in [Doc -> Entry'] /\ readTime' \in [Doc -> 0 .. Now']
      BY <1>1, <1>2, <2>1, <2>2
    <2> QED
      BY <2>3, <2>4 DEF CacheInv
  <1>5. TargetsInv'
    <2>1. \A x \in TargetData : x \in TargetData'
      BY <1>1 DEF TargetData
    <2>2. \A t \in {target, saved} : t.token \in 0 .. Now
      BY <1>1 DEF TargetsInv, TargetData
    <2>3. \A t \in {target, saved} : Matching(t.token)' = Matching(t.token)
      BY <1>2, <2>2 DEF Kept
    <2>4. \A t \in {target', saved'} :
              IF t.torn THEN t.token > 0
              ELSE remoteKeys = Matching(t.token)'
      BY <1>1, <1>2, <2>3 DEF TargetsInv, KeysAreOf
    <2> QED
      BY <1>1, <1>2, <2>1, <2>4 DEF TargetsInv, KeysAreOf
  <1> QED
    BY <1>3, <1>4, <1>5 DEF SyncedInv

LEMMA AnswersGrow ==
    ASSUME answers \in Seq(Answer), Kept, Now \in Nat
    PROVE  answers \in Seq(Answer')
  <1>1. \A x \in Answer : x \in Answer'
    BY DEF Answer, Kept
  <1>2. answers \in [1 .. Len(answers) -> Answer'] /\ Len(answers) \in Nat
    <2> HIDE DEF Answer
    <2> QED
      BY <1>1, LenProperties
  <1> QED
    BY <1>2, IsASeq

LEMMA EditKeeps ==
    ASSUME SyncedInv, NEW d \in Doc, Edit(d)
    PROVE  SyncedInv'
  <1>1. PICK val \in (Order \cup {None}) \ {DocAt(Now, d).val} :
            history' = Changed(d, val)
    BY DEF Edit
  <1>2. /\ UNCHANGED <<answers, queue, cache, readTime, targets, view,
                       resolving, writes, losses, mismatches, rejections>>
        /\ edits' = edits + 1
    BY DEF Edit
  <1>3. HistoryInv' /\ Kept
    BY <1>1, SyncedParts, HistoryGrows DEF Value
  <1>4. BoundsInv'
    BY <1>2 DEF SyncedInv, BoundsInv
  <1>5. answers' \in Seq(Answer') /\ Len(answers') <= Len(queue)
    BY <1>2, <1>3, SyncedParts, AnswersGrow DEF SyncedInv, WireInv
  <1> QED
    BY <1>2, <1>3, <1>4, <1>5, GrowthKeeps

LEMMA CommitKeeps ==
    ASSUME SyncedInv, Commit
    PROVE  SyncedInv'
  <1> DEFINE m   == queue[Len(answers) + 1]
             old == DocAt(Now, m.doc)
             new == IF m.kind = "set" THEN m.val ELSE Served(old.val)
             a   == [ok |-> TRUE, commit |-> Len(history'),
                     version |-> history'[Len(history')][m.doc].version]
  <1>1. /\ Len(answers) < Len(queue)
        /\ UNCHANGED <<queue, cache, readTime, targets, view, resolving,
                       bounds>>
        /\ \/ answers' = Append(answers, Refused) /\ UNCHANGED history
           \/ /\ ~(m.kind = "update" /\ old.val = None)
              /\ history' = IF new = old.val THEN history
                            ELSE Changed(m.doc, new)
              /\ answers' = Append(answers, a)
    BY DEF Commit
  <1>2. /\ HistoryInv /\ Now \in Nat \ {0} /\ queue \in Seq(Mutation)
        /\ answers \in Seq(Answer) /\ Len(answers) <= Len(queue)
    BY SyncedParts DEF SyncedInv, WireInv
  <1>3. Len(answers) \in Nat /\ Len(queue) \in Nat
    BY <1>2, LenProperties
  <1>4. m \in Mutation
    BY <1>1, <1>2, <1>3, ElementOfSeq
  <1> HIDE DEF m
  <1>5. m.doc \in Doc /\ m.val \in Value /\ m.kind \in {"set", "update"}
    BY <1>4 DEF Mutation
  <1>6. old.val \in Value
    BY <1>2, <1>5, HistoryType
  <1> HIDE DEF old
  <1>7. HistoryInv' /\ Kept
    <2>1. CASE UNCHANGED history
      BY <1>2, <2>1, HistoryStays
    <2>2. CASE /\ ~(m.kind = "update" /\ old.val = None)
               /\ history' = Changed(m.doc, new)
      <3>1. new \in Value
        BY <1>5, <1>6, <2>2, OrderIsServed DEF Value
      <3> HIDE DEF new
      <3> QED
        BY <1>2, <1>5, <2>2, <3>1, HistoryGrows
    <2> QED
      BY <1>1, <2>1, <2>2
  <1>8. answers \in Seq(Answer')
    BY <1>2, <1>7, AnswersGrow
  <1>9. Refused \in Answer' /\ a \in Answer'
    <2>1. Now' \in Nat \ {0} /\ Now' = Len(history')
      BY <1>2, <1>7 DEF Kept, Now
    <2>2. history'[Now'][m.doc].version \in 1 .. Now'
      BY <1>5, <1>7, <2>1 DEF HistoryInv
    <2> QED
      BY <2>1, <2>2 DEF Answer, Refused
  <1> HIDE DEF a
  <1>10. answers' \in Seq(Answer') /\ Len(answers') = Len(answers) + 1
    <2>1. PICK x \in Answer' : answers' = Append(answers, x)
      BY <1>1, <1>9
    <2> QED
      BY <1>8, <2>1, AppendProperties
  <1>11. BoundsInv'
    BY <1>1 DEF SyncedInv, BoundsInv, bounds
  <1> QED
    BY <1>1, <1>2, <1>3, <1>7, <1>10, <1>11, GrowthKeeps

-----------------------------------------------------------------------------
(* The invariant.                                                          *)

LEMMA SyncedInit ==
    ASSUME Init
    PROVE  SyncedInv
  <1>1. PICK f \in [Doc -> Order \cup {None}] :
            history = <<[d \in Doc |-> [val |-> f[d], version |-> 1]]>>
    BY DEF Init
  <1>2. /\ queue = << >> /\ answers = << >>
        /\ cache = [d \in Doc |-> NoEntry]
        /\ readTime = [d \in Doc |-> 0] /\ remoteKeys = {}
        /\ target = [token |-> 0, limboFree |-> 0, torn |-> FALSE]
        /\ saved = target /\ lastRemote = 0 /\ position = 0
        /\ view = FreshView({}, FALSE) /\ resolving = {}
        /\ writes = 0 /\ edits = 0 /\ losses = 0
        /\ mismatches = 0 /\ rejections = 0
    BY DEF Init
  <1>3. HistoryInv /\ Now = 1
    <2> DEFINE first == [d \in Doc |-> [val |-> f[d], version |-> 1]]
    <2>1. first \in [Doc -> Versioned]
      BY DEF Versioned, Value
    <2>2. \A d \in Doc : first[d].version = 1
      OBVIOUS
    <2> HIDE DEF first
    <2>3. /\ history = <<first>> /\ history \in Seq([Doc -> Versioned])
          /\ Len(history) = 1 /\ history[1] = first
      BY <1>1, <2>1 DEF first
    <2>4. \A u \in 1 .. 1 : u = 1
      OBVIOUS
    <2> QED
      BY <2>2, <2>3, <2>4 DEF HistoryInv, Now
  <1>4. WireInv
    BY <1>2, EmptySeq DEF WireInv
  <1>5. CacheInv
    <2>1. NoEntry \in Entry /\ NoEntry.version = 0
      BY <1>3 DEF NoEntry, Entry, Value
    <2> QED
      BY <1>2, <1>3, <2>1 DEF CacheInv, CacheIsHistory
  <1>6. ViewInv /\ view.keys = {}
    <2>1. view \in View /\ view.keys = {}
      BY <1>2, FreshType
    <2> QED
      BY <1>2, <2>1 DEF ViewInv
  <1>7. TargetsInv
    <2>1. Matching(0) = {}
      BY <1>3, HistoryType
    <2>2. /\ remoteKeys = {} /\ saved = target /\ lastRemote = 0 /\ position = 0
          /\ target = [token |-> 0, limboFree |-> 0, torn |-> FALSE]
      BY <1>2
    <2> QED
      BY <1>3, <1>6, <2>1, <2>2 DEF TargetsInv, TargetData, KeysAreOf
  <1>8. BoundsInv
    BY <1>2 DEF BoundsInv
  <1> QED
    BY <1>3, <1>4, <1>5, <1>6, <1>7, <1>8 DEF SyncedInv

(* A document in the cache goes back only when it is forgotten.            *)
Onward == \A d \in Doc : \/ cache'[d].version >= cache[d].version
                         \/ cache'[d] = NoEntry /\ d \in resolving

LEMMA OnwardUnchanged ==
    ASSUME SyncedInv, UNCHANGED cache
    PROVE  Onward
  <1>1. \A d \in Doc : cache[d].version \in Nat
    BY SyncedParts DEF Entry
  <1> QED
    BY <1>1 DEF Onward

LEMMA SyncedNext ==
    ASSUME SyncedInv, [Next]_vars
    PROVE  SyncedInv' /\ Onward
  <1>1. CASE \E d \in Doc : WriteMutations(d)
    <2>1. PICK d \in Doc : WriteMutations(d)
      BY <1>1
    <2>2. UNCHANGED cache
      BY <2>1 DEF WriteMutations
    <2> QED
      BY <2>1, <2>2, WriteMutationsKeeps, OnwardUnchanged
  <1>2. CASE HandleSuccessfulWrite
    BY <1>2, HandleSuccessfulWriteKeeps DEF Onward
  <1>3. CASE HandleRejectedWrite
    <2>1. UNCHANGED cache
      BY <1>3 DEF HandleRejectedWrite
    <2> QED
      BY <1>3, <2>1, HandleRejectedWriteKeeps, OnwardUnchanged
  <1>4. CASE WatchSnapshot
    <2>1. PICK v \in 1 .. Now, limbo \in SUBSET resolving :
              ApplyRemoteEvent(v, limbo)
      BY <1>4 DEF WatchSnapshot
    <2> QED
      BY <2>1, ApplyRemoteEventKeeps DEF Onward
  <1>5. CASE \E v \in 1 .. Now : ResetTarget(v)
    <2>1. PICK v \in 1 .. Now : ResetTarget(v)
      BY <1>5
    <2> QED
      BY <2>1, ResetTargetKeeps DEF Onward
  <1>6. CASE \E d \in Doc : HandleRejectedListen(d)
    <2>1. PICK d \in Doc : HandleRejectedListen(d)
      BY <1>6
    <2>2. \A e \in Doc : cache[e].version \in Nat
      BY SyncedParts DEF Entry
    <2>3. /\ SyncedInv' /\ cache'[d] = NoEntry /\ d \in resolving
          /\ \A e \in Doc \ {d} : cache'[e] = cache[e]
      BY <2>1, HandleRejectedListenKeeps
    <2> QED
      BY <2>2, <2>3 DEF Onward
  <1>7. CASE ApplyOnlineStateChange
    <2>1. UNCHANGED cache
      BY <1>7 DEF ApplyOnlineStateChange
    <2> QED
      BY <1>7, <2>1, ApplyOnlineStateChangeKeeps, OnwardUnchanged
  <1>8. CASE LoseAnswers
    <2>1. UNCHANGED cache
      BY <1>8 DEF LoseAnswers
    <2> QED
      BY <1>8, <2>1, LoseAnswersKeeps, OnwardUnchanged
  <1>9. CASE Relisten
    <2>1. Listen(target) /\ UNCHANGED <<answers, bounds, queue, history, cache>>
      BY <1>9 DEF Relisten, Listen
    <2>2. WireInv' /\ BoundsInv'
      <3>1. Answer' = Answer
        BY <2>1, SyncedParts, TypesStay
      <3> QED
        BY <2>1, <3>1 DEF SyncedInv, WireInv, BoundsInv, bounds
    <2> QED
      BY <2>1, <2>2, ListenKeeps, OnwardUnchanged
  <1>10. CASE Restart
    <2>1. Listen(saved) /\ AnswersLost /\ UNCHANGED <<queue, cache>>
      BY <1>10 DEF Restart, Listen
    <2>2. WireInv' /\ BoundsInv'
      BY <2>1, AnswersLostKeeps DEF SyncedInv
    <2> QED
      BY <2>1, <2>2, ListenKeeps, OnwardUnchanged
  <1>11. CASE Commit
    <2>1. UNCHANGED cache
      BY <1>11 DEF Commit
    <2> QED
      BY <1>11, <2>1, CommitKeeps, OnwardUnchanged
  <1>12. CASE \E d \in Doc : Edit(d)
    <2>1. PICK d \in Doc : Edit(d)
      BY <1>12
    <2>2. UNCHANGED cache
      BY <2>1 DEF Edit
    <2> QED
      BY <2>1, <2>2, EditKeeps, OnwardUnchanged
  <1>13. CASE UNCHANGED vars
    <2>1. UNCHANGED <<history, answers, queue, cache, readTime, remoteKeys,
                      target, saved, lastRemote, position, view, resolving,
                      writes, edits, losses, mismatches, rejections>>
      BY <1>13 DEF vars, server, targets, bounds
    <2>2. /\ HistoryInv' /\ Kept /\ answers' \in Seq(Answer')
          /\ Len(answers') <= Len(queue) /\ BoundsInv'
      <3>1. HistoryInv' /\ Kept /\ Answer' = Answer
        BY <2>1, SyncedParts, TypesStay
      <3> QED
        BY <2>1, <3>1 DEF SyncedInv, WireInv, BoundsInv
    <2> QED
      BY <2>1, <2>2, GrowthKeeps, OnwardUnchanged DEF targets
  <1> QED
    BY <1>1, <1>2, <1>3, <1>4, <1>5, <1>6, <1>7, <1>8, <1>9, <1>10, <1>11,
       <1>12, <1>13 DEF Next

LEMMA SyncedAlways == Spec => []SyncedInv
  <1>1. Init => SyncedInv
    BY SyncedInit
  <1>2. SyncedInv /\ [Next]_vars => SyncedInv'
    BY SyncedNext
  <1> QED
    BY <1>1, <1>2, PTL DEF Spec

-----------------------------------------------------------------------------
(* Every variable has its type, the server is asked only about documents   *)
(* in limbo, and LevelDB never knows more of the query than memory, for    *)
(* any sets of documents and contents and any bounds.                      *)
THEOREM TypeCorrect == Spec => []TypeOK
  <1>1. SyncedInv => TypeOK
    <2> SUFFICES ASSUME SyncedInv
                 PROVE  TypeOK
      OBVIOUS
    <2>1. /\ HistoryInv /\ WireInv /\ CacheInv /\ ViewInv /\ TargetsInv
          /\ BoundsInv
      BY DEF SyncedInv
    <2>2. history \in Seq([Doc -> [val : Order \cup {None}, version : Nat]])
      BY <2>1 DEF HistoryInv, Versioned, Value
    <2>3. queue \in Seq([doc : Doc, kind : {"set", "update"},
                         val : Order \cup {None}])
      BY <2>1 DEF WireInv, Mutation, Value
    <2>4. answers \in Seq([ok : BOOLEAN, version : Nat, commit : Nat])
      <3> DEFINE Wide == [ok : BOOLEAN, version : Nat, commit : Nat]
      <3>1. \A x \in Answer : x \in Wide
        BY DEF Answer
      <3> HIDE DEF Wide
      <3>2. answers \in [1 .. Len(answers) -> Wide] /\ Len(answers) \in Nat
        BY <2>1, <3>1, LenProperties DEF WireInv
      <3>3. answers \in Seq(Wide)
        BY <3>2, IsASeq
      <3> QED
        BY <3>3 DEF Wide
    <2>5. Len(answers) <= Len(queue)
      BY <2>1 DEF WireInv
    <2>6. /\ cache \in [Doc -> [val : Order \cup {None}, version : 0 .. Now,
                                committed : BOOLEAN]]
          /\ readTime \in [Doc -> 0 .. Now]
      BY <2>1 DEF CacheInv, Entry, Value
    <2>7. /\ resolving \subseteq view.limbo
          /\ view \in [docs : [Doc -> [val : Order \cup {None},
                                 flag : {"synced", "committed", "local"}]],
                       mutated : SUBSET Doc, keys : SUBSET Doc,
                       current : BOOLEAN, limbo : SUBSET Doc, synced : BOOLEAN,
                       partial : BOOLEAN]
      BY <2>1 DEF ViewInv, View, LocalState, Value
    <2>8. /\ remoteKeys \subseteq Doc
          /\ {target, saved} \subseteq [token : 0 .. Now, limboFree : 0 .. Now,
                                        torn : BOOLEAN]
          /\ saved.token <= target.token /\ saved.limboFree <= target.limboFree
          /\ lastRemote \in 0 .. Now /\ position \in 0 .. Now
      BY <2>1 DEF TargetsInv, TargetData
    <2>9. /\ writes \in Nat /\ edits \in Nat /\ losses \in Nat
          /\ mismatches \in Nat /\ rejections \in Nat
      BY <2>1 DEF BoundsInv
    <2> QED
      BY <2>2, <2>3, <2>4, <2>5, <2>6, <2>7, <2>8, <2>9 DEF TypeOK
  <1> QED
    BY <1>1, SyncedAlways, PTL

(* For any number of documents and changes, whatever is lost or restarted, *)
(* the keys in LevelDB are those that matched at the version of the resume *)
(* token, except after a filter that did not fit.                          *)
THEOREM KeysGoWithToken == Spec => []KeysMatchToken
  <1>1. SyncedInv => KeysMatchToken
    <2> SUFFICES ASSUME SyncedInv
                 PROVE  KeysMatchToken
      OBVIOUS
    <2>1. /\ view.keys = remoteKeys
          /\ \A t \in {target, saved} :
                IF t.torn THEN t.token > 0 ELSE KeysAreOf(t)
      BY DEF SyncedInv, TargetsInv
    <2> QED
      BY <2>1 DEF KeysMatchToken
  <1> QED
    BY <1>1, SyncedAlways, PTL

(* Every cached document without unconfirmed changes says what the         *)
(* server's document said at its version, whatever was sent and lost.      *)
THEOREM CachedDocumentsExisted == Spec => []CacheIsHistory
  <1>1. SyncedInv => CacheIsHistory
    BY DEF SyncedInv, CacheInv
  <1> QED
    BY <1>1, SyncedAlways, PTL

(* No step of the phone replaces a document by one the server had before:  *)
(* late answers, old snapshots and those sent again are left, and only a   *)
(* limbo document the server will not say anything of is forgotten.        *)
THEOREM CacheMovesOn == Spec => NeverGoesBack
  <1>1. SyncedInv /\ [Next]_vars => [Onward]_vars
    BY SyncedNext
  <1>2. Spec => [][Onward]_vars
    BY <1>1, SyncedAlways, PTL DEF Spec
  <1> QED
    BY <1>2 DEF NeverGoesBack, Onward
=============================================================================
