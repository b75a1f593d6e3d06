-------------------------- MODULE SyncedViewExact --------------------------
(***************************************************************************)
(* Proofs that the view of SyncedView is what the query gives over the     *)
(* cache, and that a snapshot that is not from the cache is what the       *)
(* server had, for any sets of documents and contents and any bounds.      *)
(***************************************************************************)
EXTENDS SyncedViewProofs

-----------------------------------------------------------------------------
(* Versions.  A document is cached as of a version at which it changed, or *)
(* at which it was not there.                                              *)

TrueVersion(w, d) == DocAt(w, d).version = w \/ DocAt(w, d).val = None

(* If that is newer than a document that matched, it is newer than the     *)
(* version at which it matched.                                            *)
LEMMA ChangedLater ==
    ASSUME HistoryInv, NEW d \in Doc, NEW u \in 0 .. Now, d \in Matching(u),
           NEW w \in 0 .. Now, TrueVersion(w, d), w > DocAt(u, d).version
    PROVE  w > u
  <1> SUFFICES ASSUME w <= u
               PROVE  FALSE
    BY HistoryType
  <1>1. u \in 1 .. Now /\ Now \in Nat
    BY HistoryType
  <1>2. /\ history[u][d].version \in 1 .. u /\ DocAt(u, d) = history[u][d]
        /\ \A x \in history[u][d].version .. u : history[x][d] = history[u][d]
    BY <1>1, HistoryType DEF HistoryInv
  <1>3. w \in history[u][d].version .. u /\ w \in 1 .. Now
    BY <1>1, <1>2
  <1>4. DocAt(w, d) = DocAt(u, d)
    BY <1>2, <1>3, HistoryType
  <1>5. Matches(DocAt(u, d).val)
    BY DEF Matching
  <1> QED
    BY <1>1, <1>2, <1>4, <1>5 DEF TrueVersion, Matches

(* A document that matches and did not before has changed since.           *)
LEMMA ComesBack ==
    ASSUME HistoryInv, NEW d \in Doc, NEW v \in 0 .. Now, NEW u \in 0 .. v,
           d \in Matching(v), d \notin Matching(u)
    PROVE  DocAt(v, d).version > u
  <1>1. v \in 1 .. Now /\ Now \in Nat
    BY HistoryType
  <1>2. /\ history[v][d].version \in 1 .. v /\ DocAt(v, d) = history[v][d]
        /\ \A x \in history[v][d].version .. v : history[x][d] = history[v][d]
    BY <1>1, HistoryType DEF HistoryInv
  <1> SUFFICES ASSUME history[v][d].version <= u
               PROVE  FALSE
    BY <1>1, <1>2
  <1>3. u \in history[v][d].version .. v /\ u \in 1 .. Now
    BY <1>1, <1>2
  <1>4. DocAt(u, d) = DocAt(v, d)
    BY <1>2, <1>3, HistoryType
  <1> QED
    BY <1>4 DEF Matching

-----------------------------------------------------------------------------
(* Mutations of other documents make no difference to a document.          *)

LEMMA LocalDocOfSame ==
    ASSUME NEW c, NEW c2, NEW q, NEW d, c[d] = c2[d]
    PROVE  LocalDoc(c, q, d) = LocalDoc(c2, q, d)
  BY DEF LocalDoc

(* Two runs over the mutations meet where they start alike and take the    *)
(* same steps.                                                             *)
LEMMA RunsAgree ==
    ASSUME NEW f, NEW g, NEW N \in Nat, f[0] = g[0],
           \A i \in 1 .. N : f[i - 1] = g[i - 1] => f[i] = g[i]
    PROVE  f[N] = g[N]
  <1> DEFINE T == {n \in Nat : n <= N => f[n] = g[n]}
  <1>1. 0 \in T
    OBVIOUS
  <1>2. ASSUME NEW n \in Nat, n \in T, n + 1 <= N
        PROVE  f[n + 1] = g[n + 1]
    <2>1. n + 1 \in 1 .. N /\ (n + 1) - 1 = n /\ f[n] = g[n]
      BY <1>2
    <2> QED
      BY <2>1
  <1>3. \A n \in Nat : n \in T => n + 1 \in T
    BY <1>2
  <1> HIDE DEF T
  <1>4. \A n \in Nat : n \in T
    BY <1>1, <1>3, SetInduction
  <1> QED
    BY <1>4 DEF T

LEMMA LocalDocAppended ==
    ASSUME NEW c, NEW d, NEW q \in Seq(Mutation), c[d].val \in Value,
           NEW m \in Mutation, m.doc # d
    PROVE  LocalDoc(c, Append(q, m), d) = LocalDoc(c, q, d)
  <1> DEFINE r == Append(q, m)
             N == Len(q)
  <1>1. /\ r \in Seq(Mutation) /\ N \in Nat /\ Len(r) = N + 1
        /\ r[N + 1] = m /\ \A i \in 1 .. N : r[i] = q[i]
    BY AppendProperties, LenProperties
  <1> HIDE DEF r, N
  <1>2. PICK f \in [0 .. Len(q) -> LocalState] :
            LocalSteps(f, c, q, d) /\ LocalDoc(c, q, d) = f[Len(q)]
    BY LocalDocSteps
  <1>3. PICK g \in [0 .. Len(r) -> LocalState] :
            LocalSteps(g, c, r, d) /\ LocalDoc(c, r, d) = g[Len(r)]
    BY <1>1, LocalDocSteps
  <1>4. f[N] = g[N]
    <2>1. f[0] = g[0]
      BY <1>2, <1>3 DEF LocalSteps
    <2>2. ASSUME NEW i \in 1 .. N, f[i - 1] = g[i - 1]
          PROVE  f[i] = g[i]
      <3>1. i \in 1 .. Len(r) /\ r[i] = q[i]
        BY <1>1
      <3>2. /\ f[i] = Mutated(q, d, i, f[i - 1])
            /\ g[i] = Mutated(r, d, i, g[i - 1])
        BY <1>2, <1>3, <3>1 DEF LocalSteps, N
      <3> QED
        BY <2>2, <3>1, <3>2 DEF Mutated
    <2>3. \A i \in 1 .. N : f[i - 1] = g[i - 1] => f[i] = g[i]
      BY <2>2
    <2>4. N \in Nat
      BY <1>1
    <2> QED
      BY <2>1, <2>3, <2>4, RunsAgree, ZenonT(40)
  <1>5. g[N + 1] = g[N]
    <2>1. N + 1 \in 1 .. Len(r) /\ (N + 1) - 1 = N
      BY <1>1
    <2>2. g[N + 1] = Mutated(r, d, N + 1, g[N])
      BY <1>3, <2>1 DEF LocalSteps
    <2> QED
      BY <1>1, <2>2 DEF Mutated
  <1> QED
    BY <1>1, <1>2, <1>3, <1>4, <1>5 DEF r, N

LEMMA LocalDocShortened ==
    ASSUME NEW c, NEW d, NEW q \in Seq(Mutation), c[d].val \in Value,
           q # << >>, Head(q).doc # d
    PROVE  LocalDoc(c, Tail(q), d) = LocalDoc(c, q, d)
  <1> DEFINE r == Tail(q)
             N == Len(r)
  <1>1. /\ r \in Seq(Mutation) /\ N \in Nat /\ Len(q) = N + 1
        /\ q[1] = Head(q) /\ \A i \in 1 .. N : r[i] = q[i + 1]
    <2>1. /\ r \in Seq(Mutation) /\ N = Len(q) - 1 /\ Head(q) = q[1]
          /\ \A i \in 1 .. Len(q) - 1 : r[i] = q[i + 1]
      BY HeadTailProperties
    <2>2. N \in Nat /\ Len(q) \in Nat
      BY <2>1, LenProperties
    <2> HIDE DEF r, N
    <2> QED
      BY <2>1, <2>2
  <1> HIDE DEF r, N
  <1>2. PICK f \in [0 .. Len(q) -> LocalState] :
            LocalSteps(f, c, q, d) /\ LocalDoc(c, q, d) = f[Len(q)]
    BY LocalDocSteps
  <1>3. PICK g \in [0 .. Len(r) -> LocalState] :
            LocalSteps(g, c, r, d) /\ LocalDoc(c, r, d) = g[Len(r)]
    <2>1. r \in Seq(Mutation) /\ c[d].val \in Value
      BY <1>1
    <2> QED
      BY <2>1, LocalDocSteps, SMTT(30)
  <1> DEFINE h == [i \in 0 .. N |-> f[i + 1]]
  <1>4. h[N] = g[N]
    <2>1. h[0] = g[0]
      <3>1. 1 \in 1 .. Len(q) /\ 1 - 1 = 0
        BY <1>1
      <3>2. f[1] = Mutated(q, d, 1, f[0])
        BY <1>2, <3>1 DEF LocalSteps
      <3>3. f[1] = f[0]
        BY <1>1, <3>2 DEF Mutated
      <3>4. h[0] = f[1]
        BY <1>1
      <3> QED
        BY <1>2, <1>3, <3>3, <3>4 DEF LocalSteps
    <2>2. ASSUME NEW i \in 1 .. N, h[i - 1] = g[i - 1]
          PROVE  h[i] = g[i]
      <3>1. /\ i + 1 \in 1 .. Len(q) /\ r[i] = q[i + 1]
            /\ h[i] = f[i + 1] /\ h[i - 1] = f[i] /\ (i + 1) - 1 = i
        BY <1>1
      <3>2. f[i + 1] = Mutated(q, d, i + 1, f[i])
        BY <1>2, <3>1 DEF LocalSteps
      <3>3. g[i] = Mutated(r, d, i, g[i - 1])
        BY <1>3 DEF LocalSteps, N
      <3> HIDE DEF h
      <3> QED
        BY <2>2, <3>1, <3>2, <3>3 DEF Mutated
    <2> HIDE DEF h
    <2>3. \A i \in 1 .. N : h[i - 1] = g[i - 1] => h[i] = g[i]
      BY <2>2
    <2>4. N \in Nat
      BY <1>1
    <2> QED
      BY <2>1, <2>3, <2>4, RunsAgree, ZenonT(40)
  <1>5. h[N] = f[Len(q)]
    BY <1>1
  <1> QED
    BY <1>2, <1>3, <1>4, <1>5 DEF r, N

LEMMA LocalDocUntouched ==
    ASSUME NEW c, NEW d, NEW q \in Seq(Mutation), c[d].val \in Value,
           \A i \in 1 .. Len(q) : q[i].doc # d
    PROVE  LocalDoc(c, q, d) = Cached(c, d)
  <1>1. PICK f \in [0 .. Len(q) -> LocalState] :
            LocalSteps(f, c, q, d) /\ LocalDoc(c, q, d) = f[Len(q)]
    BY LocalDocSteps
  <1> DEFINE g == [i \in 0 .. Len(q) |-> Cached(c, d)]
  <1>2. Len(q) \in Nat
    BY LenProperties
  <1>3. f[0] = g[0]
    BY <1>1, <1>2 DEF LocalSteps
  <1>4. ASSUME NEW i \in 1 .. Len(q), f[i - 1] = g[i - 1]
        PROVE  f[i] = g[i]
    <2>1. f[i] = Mutated(q, d, i, f[i - 1])
      BY <1>1 DEF LocalSteps
    <2>2. g[i] = Cached(c, d) /\ g[i - 1] = Cached(c, d)
      BY <1>2
    <2> HIDE DEF g
    <2> QED
      BY <1>4, <2>1, <2>2 DEF Mutated
  <1>5. g[Len(q)] = Cached(c, d)
    BY <1>2
  <1> HIDE DEF g
  <1> QED
    BY <1>1, <1>2, <1>3, <1>4, <1>5, RunsAgree

-----------------------------------------------------------------------------
(* The view takes the changed documents over.                              *)

(* What the view shows of a document of which the cache and the queue give *)
(* local.                                                                  *)
Follows(w, d, local) ==
    IF Matches(local.val)
    THEN \/ w.docs[d].val = local.val
         \/ /\ w.docs[d].val # None /\ d \in w.mutated
            /\ local.flag = "committed"
    ELSE w.docs[d].val = None

(* What is shown as the phone's own version is among the mutated.          *)
Marked(w) == \A d \in Doc : w.docs[d].flag = "local" => d \in w.mutated

LEMMA TakesOver ==
    ASSUME NEW w \in View, Marked(w), NEW changed \in SUBSET Doc,
           NEW local, \A d \in changed : local[d] \in LocalState
    PROVE  LET new == ComputeDocumentChanges(
                          w, Applied(w, changed, local), local)
           IN /\ Marked(new)
              /\ \A d \in changed : Follows(new, d, local[d])
              /\ \A d \in Doc \ changed :
                    /\ new.docs[d] = w.docs[d]
                    /\ d \in new.mutated <=> d \in w.mutated
              /\ new.keys = w.keys /\ new.current = w.current
              /\ new.limbo = w.limbo /\ new.synced = w.synced
              /\ new.partial = w.partial
  <1> DEFINE applied == Applied(w, changed, local)
             new == ComputeDocumentChanges(w, applied, local)
             shown == {d \in applied : Matches(local[d].val)}
             mine == {d \in shown : local[d].flag = "local"}
             docs == [d \in Doc |-> CASE d \in shown -> local[d]
                                      [] d \in applied \ shown -> Absent
                                      [] OTHER -> w.docs[d]]
             mutated == (w.mutated \ applied) \cup mine
  <1>1. applied \subseteq changed /\ shown \subseteq applied
    BY DEF Applied
  <1>2. new = [w EXCEPT !.docs = docs, !.mutated = mutated]
    BY DEF ComputeDocumentChanges, View
  <1>3. /\ new.docs = docs /\ new.mutated = mutated
        /\ new.keys = w.keys /\ new.current = w.current
        /\ new.limbo = w.limbo /\ new.synced = w.synced
        /\ new.partial = w.partial
    <2> HIDE DEF docs, mutated, new
    <2> QED
      BY <1>2 DEF View
  <1>4. \A d \in Doc : /\ d \in shown => docs[d] = local[d]
                       /\ d \in applied \ shown => docs[d] = Absent
                       /\ d \notin applied => docs[d] = w.docs[d]
    BY <1>1
  <1> HIDE DEF docs, new
  <1>5. \A d \in Doc \ applied :
            new.docs[d] = w.docs[d] /\ (d \in new.mutated <=> d \in w.mutated)
    BY <1>1, <1>3, <1>4
  <1>6. Marked(new)
    <2> SUFFICES ASSUME NEW d \in Doc, new.docs[d].flag = "local"
                 PROVE  d \in new.mutated
      BY DEF Marked
    <2>1. CASE d \notin applied
      BY <1>5, <2>1 DEF Marked
    <2>2. CASE d \in shown
      BY <1>3, <1>4, <2>2
    <2>3. CASE d \in applied \ shown
      BY <1>3, <1>4, <2>3 DEF Absent
    <2> QED
      BY <2>1, <2>2, <2>3
  <1>7. ASSUME NEW d \in changed
        PROVE  Follows(new, d, local[d])
    <2>1. local[d] \in LocalState /\ w.docs[d] \in LocalState /\ d \in Doc
      BY DEF View
    <2>2. CASE d \in shown
      BY <1>3, <1>4, <2>1, <2>2 DEF Follows
    <2>3. CASE d \in applied \ shown
      BY <1>3, <1>4, <2>1, <2>3 DEF Follows, Absent
    <2>4. CASE d \notin applied
      <3>1. new.docs[d] = w.docs[d] /\ (d \in new.mutated <=> d \in w.mutated)
        BY <1>5, <2>1, <2>4
      <3>2. CASE w.docs[d].val # None /\ Matches(local[d].val)
        <4>1. CASE w.docs[d].val = local[d].val
          BY <3>1, <3>2, <4>1 DEF Follows
        <4>2. CASE w.docs[d].val # local[d].val
          <5>1. ShouldWaitForSyncedDocument(local[d], w.docs[d])
            BY <2>4, <3>2, <4>2 DEF Applied
          <5>2. w.docs[d].flag = "local" /\ local[d].flag = "committed"
            BY <5>1 DEF ShouldWaitForSyncedDocument
          <5> QED
            BY <2>1, <3>1, <3>2, <5>2 DEF Follows, Marked
        <4> QED
          BY <4>1, <4>2
      <3>3. CASE ~(w.docs[d].val # None /\ Matches(local[d].val))
        <4>1. w.docs[d].val = None /\ ~Matches(local[d].val)
          BY <2>4, <3>3 DEF Applied
        <4> QED
          BY <3>1, <4>1 DEF Follows
      <3> QED
        BY <3>2, <3>3
    <2> QED
      BY <1>1, <2>2, <2>3, <2>4
  <1>8. \A d \in Doc \ changed :
            new.docs[d] = w.docs[d] /\ (d \in new.mutated <=> d \in w.mutated)
    BY <1>1, <1>5
  <1> HIDE DEF applied
  <1> QED
    BY <1>3, <1>6, <1>7, <1>8 DEF new, applied

-----------------------------------------------------------------------------
(* The invariant.                                                          *)

(* An answer names the version of its document's last change.              *)
AnswersTrue ==
    \A i \in 1 .. Len(answers) : answers[i].ok =>
        /\ TrueVersion(answers[i].version, queue[i].doc)
        /\ answers[i].version <= answers[i].commit

CacheTrue ==
    \A d \in Doc : /\ TrueVersion(cache[d].version, d)
                   /\ cache[d].version <= readTime[d]

(* What matched at the version of a target's resume token is in the cache  *)
(* as of then, or newer.                                                   *)
CachedAsOf(v, d) ==
    \/ cache[d].version > v
    \/ cache[d].version = DocAt(v, d).version /\ ~cache[d].committed
KeysCached ==
    \A t \in {target, saved} :
        t.torn \/ \A d \in Matching(t.token) : CachedAsOf(t.token, d)

(* A view that is current has what the last snapshot brought; its keys go  *)
(* with the resume token unless it was made of a torn target or the query  *)
(* is about to be listened to from zero.                                   *)
PageInv ==
    /\ view.current => position = lastRemote /\ target.token = lastRemote
    /\ target.torn => view.partial \/ position = 0
    /\ view.limbo \cap view.keys = {}
    /\ view.synced =>
          view.current /\ \A d \in Doc : ~ShouldBeInLimbo(view, d)

(* A document that the index-free query did not look at.  Unless the query *)
(* was torn, the server knows that it did not match since the cache has it.*)
PassedOver(d) ==
    /\ view.docs[d].val = None
    /\ LocalDoc(cache, queue, d).flag # "local"
    /\ readTime[d] <= target.limboFree
    /\ \/ view.partial
       \/ /\ d \notin remoteKeys
          /\ \E u \in cache[d].version .. lastRemote : d \notin Matching(u)

ShownInv ==
    /\ Marked(view)
    /\ \A d \in Doc : \/ Follows(view, d, LocalDoc(cache, queue, d))
                      \/ PassedOver(d)

ExactInv == SyncedInv /\ AnswersTrue /\ CacheTrue /\ KeysCached /\ PageInv
                /\ ShownInv

(* What a handler leaves of the view and its limbo documents.              *)
LEMMA EmitsExactly ==
    ASSUME view \in View, Marked(view),
           \A d \in Doc : cache'[d].val \in Value, queue' \in Seq(Mutation),
           NEW changed \in SUBSET Doc, NEW change,
           change.keys \in SUBSET Doc, change.current \in BOOLEAN, NEW asked,
           EmitNewSnapshots(changed, change, asked)
    PROVE  /\ Marked(view')
           /\ \A d \in changed : Follows(view', d, LocalDoc(cache', queue', d))
           /\ \A d \in Doc \ changed :
                 /\ view'.docs[d] = view.docs[d]
                 /\ d \in view'.mutated <=> d \in view.mutated
           /\ view'.keys = change.keys /\ view'.current = change.current
           /\ view'.partial = view.partial
           /\ view'.synced => /\ view'.current
                              /\ \A d \in Doc : ~ShouldBeInLimbo(view', d)
           /\ change.current \/ view.limbo \cap change.keys = {}
                 => view'.limbo \cap view'.keys = {}
  <1> DEFINE local == [d \in changed |-> LocalDoc(cache', queue', d)]
             applied == Applied(view, changed, local)
             computed == ComputeDocumentChanges(view, applied, local)
             told == [computed EXCEPT !.keys = change.keys,
                                      !.current = change.current]
             limbo == IF told.current
                      THEN {d \in Doc : ShouldBeInLimbo(told, d)}
                      ELSE told.limbo
             new == UpdateLimboDocuments(told)
  <1>1. view' = new
    BY DEF EmitNewSnapshots
  <1>2. \A d \in changed : /\ local[d] = LocalDoc(cache', queue', d)
                           /\ local[d] \in LocalState
    BY LocalDocType
  <1>3. applied \in SUBSET Doc
    BY DEF Applied
  <1>4. computed \in View
    <2> HIDE DEF local, applied
    <2>1. \A d \in applied : local[d] \in LocalState
      BY <1>2 DEF applied, Applied
    <2> QED
      BY <1>3, <2>1, ComputedType
  <1>5. /\ Marked(computed)
        /\ \A d \in changed : Follows(computed, d, local[d])
        /\ \A d \in Doc \ changed :
              /\ computed.docs[d] = view.docs[d]
              /\ d \in computed.mutated <=> d \in view.mutated
        /\ computed.limbo = view.limbo /\ computed.partial = view.partial
    <2> HIDE DEF local
    <2> QED
      BY <1>2, TakesOver
  <1> HIDE DEF computed, local
  <1>6. /\ told \in View
        /\ told.keys = change.keys /\ told.current = change.current
        /\ told.docs = computed.docs /\ told.mutated = computed.mutated
        /\ told.limbo = view.limbo /\ told.partial = view.partial
    BY <1>4, <1>5 DEF View
  <1> HIDE DEF told
  <1>7. new = [told EXCEPT !.limbo = limbo,
                           !.synced = told.current /\ limbo = {}]
    BY DEF UpdateLimboDocuments
  <1>8. /\ new.keys = told.keys /\ new.current = told.current
        /\ new.docs = told.docs /\ new.mutated = told.mutated
        /\ new.partial = told.partial /\ new.limbo = limbo
        /\ new.synced <=> told.current /\ limbo = {}
    <2> DEFINE synced == told.current /\ limbo = {}
    <2> HIDE DEF new, limbo, synced
    <2>1. new = [told EXCEPT !.limbo = limbo, !.synced = synced]
      BY <1>7 DEF synced
    <2>2. /\ new.keys = told.keys /\ new.current = told.current
          /\ new.docs = told.docs /\ new.mutated = told.mutated
          /\ new.partial = told.partial /\ new.limbo = limbo
          /\ new.synced = synced
      BY <1>6, <2>1 DEF View
    <2> QED
      BY <2>2 DEF synced
  <1> HIDE DEF new
  <1>9. \A d : ShouldBeInLimbo(new, d) <=> ShouldBeInLimbo(told, d)
    BY <1>8 DEF ShouldBeInLimbo
  <1>10. new.synced => /\ new.current
                       /\ \A d \in Doc : ~ShouldBeInLimbo(new, d)
    BY <1>8, <1>9
  <1>11. ASSUME change.current \/ view.limbo \cap change.keys = {}
         PROVE  new.limbo \cap new.keys = {}
    <2>1. CASE change.current
      BY <1>6, <1>8, <2>1 DEF ShouldBeInLimbo
    <2>2. CASE ~change.current
      BY <1>6, <1>8, <1>11, <2>2
    <2> QED
      BY <2>1, <2>2
  <1> HIDE DEF limbo
  <1>12. Marked(new) /\ \A d \in changed : Follows(new, d, local[d])
    BY <1>5, <1>6, <1>8 DEF Marked, Follows
  <1> QED
    BY <1>1, <1>2, <1>5, <1>6, <1>8, <1>10, <1>11, <1>12

(* A document that has not changed is shown as before.                     *)
LEMMA EmitsShown ==
    ASSUME ExactInv, SyncedInv', Kept,
           NEW changed \in SUBSET Doc, NEW change,
           change.keys \in SUBSET Doc, change.current \in BOOLEAN, NEW asked,
           EmitNewSnapshots(changed, change, asked),
           \A d \in Doc \ changed :
               /\ cache'[d] = cache[d] /\ readTime'[d] = readTime[d]
               /\ LocalDoc(cache', queue', d) = LocalDoc(cache, queue, d)
               /\ PassedOver(d) /\ ~view.partial => d \notin remoteKeys',
           lastRemote <= lastRemote', target.limboFree <= target'.limboFree
    PROVE  /\ ShownInv'
           /\ view'.keys = change.keys /\ view'.current = change.current
           /\ view'.partial = view.partial
           /\ view'.synced => /\ view'.current
                              /\ \A d \in Doc : ~ShouldBeInLimbo(view', d)
           /\ change.current \/ view.limbo \cap change.keys = {}
                 => view'.limbo \cap view'.keys = {}
  <1>1. /\ view \in View /\ Marked(view)
        /\ \A d \in Doc : cache'[d].val \in Value
        /\ queue' \in Seq(Mutation)
    <2>1. \A d \in Doc : cache'[d] \in Entry'
      BY DEF SyncedInv, CacheInv
    <2> QED
      BY <2>1, SyncedParts DEF ExactInv, ShownInv, SyncedInv, WireInv, Entry
  <1>2. /\ Marked(view')
        /\ \A d \in changed : Follows(view', d, LocalDoc(cache', queue', d))
        /\ \A d \in Doc \ changed :
              /\ view'.docs[d] = view.docs[d]
              /\ d \in view'.mutated <=> d \in view.mutated
        /\ view'.keys = change.keys /\ view'.current = change.current
        /\ view'.partial = view.partial
        /\ view'.synced => /\ view'.current
                           /\ \A d \in Doc : ~ShouldBeInLimbo(view', d)
        /\ change.current \/ view.limbo \cap change.keys = {}
              => view'.limbo \cap view'.keys = {}
    BY <1>1, EmitsExactly
  <1>3. ASSUME NEW d \in Doc \ changed
        PROVE  Follows(view', d, LocalDoc(cache', queue', d)) \/ PassedOver(d)'
    <2>1. /\ cache'[d] = cache[d] /\ readTime'[d] = readTime[d]
          /\ LocalDoc(cache', queue', d) = LocalDoc(cache, queue, d)
          /\ view'.docs[d] = view.docs[d]
          /\ d \in view'.mutated <=> d \in view.mutated
      BY <1>2
    <2>2. CASE Follows(view, d, LocalDoc(cache, queue, d))
      BY <2>1, <2>2 DEF Follows
    <2>3. CASE PassedOver(d)
      <3>1. /\ readTime[d] \in Nat /\ target.limboFree \in Nat
            /\ target'.limboFree \in Nat
            /\ lastRemote \in 0 .. Now /\ lastRemote' \in Nat
            /\ cache[d].version \in Nat /\ Now \in Nat
        BY SyncedParts DEF ExactInv, SyncedInv, TargetsInv, TargetData, Entry,
                           Kept
      <3>2. readTime'[d] <= target'.limboFree
        BY <2>1, <2>3, <3>1 DEF PassedOver
      <3>3. CASE view.partial
        BY <1>2, <2>1, <2>3, <3>2, <3>3 DEF PassedOver
      <3>4. CASE ~view.partial
        <4>1. PICK u \in cache[d].version .. lastRemote : d \notin Matching(u)
          BY <2>3, <3>4 DEF PassedOver
        <4>2. u \in cache'[d].version .. lastRemote' /\ u \in 0 .. Now
          BY <2>1, <3>1
        <4>3. d \notin Matching(u)'
          BY <4>1, <4>2 DEF Kept
        <4>4. d \notin remoteKeys'
          BY <2>3, <3>4
        <4> QED
          BY <2>1, <2>3, <3>2, <4>2, <4>3, <4>4 DEF PassedOver
      <3> QED
        BY <3>3, <3>4
    <2>4. Follows(view, d, LocalDoc(cache, queue, d)) \/ PassedOver(d)
      BY DEF ExactInv, ShownInv
    <2> QED
      BY <2>2, <2>3, <2>4
  <1>4. ShownInv'
    BY <1>2, <1>3 DEF ShownInv
  <1> QED
    BY <1>2, <1>4

-----------------------------------------------------------------------------
(* The handlers that learn nothing of the target.                          *)

(* How the cached document d moves on.                                     *)
MovesOn(d) ==
    \/ cache'[d] = cache[d]
    \/ cache'[d].version > cache[d].version
    \/ cache'[d].version = cache[d].version /\ cache[d].committed

LEMMA KeysStayCached ==
    ASSUME ExactInv, SyncedInv', CacheTrue', UNCHANGED history,
           \A d \in remoteKeys : MovesOn(d),
           NEW t \in {target, saved}, ~t.torn
    PROVE  \A d \in Matching(t.token) : CachedAsOf(t.token, d)'
  <1> SUFFICES ASSUME NEW d \in Matching(t.token)
               PROVE  CachedAsOf(t.token, d)'
    OBVIOUS
  <1>1. /\ HistoryInv /\ d \in Doc /\ t.token \in 0 .. Now /\ Now \in Nat
        /\ d \in remoteKeys /\ Now' = Now /\ CachedAsOf(t.token, d)
    <2>1. HistoryInv /\ TargetsInv /\ KeysCached
      BY DEF ExactInv, SyncedInv
    <2>2. t \in TargetData /\ remoteKeys = Matching(t.token)
      BY <2>1 DEF TargetsInv, KeysAreOf
    <2> QED
      BY <2>1, <2>2, HistoryType, HistoryStays DEF TargetData, KeysCached
  <1>2. \A w, e : DocAt(w, e)' = DocAt(w, e)
    BY DEF DocAt
  <1>3. cache[d].version \in 0 .. Now /\ cache'[d].version \in 0 .. Now
    <2>1. cache[d] \in Entry /\ cache'[d] \in Entry'
      BY <1>1 DEF ExactInv, SyncedInv, CacheInv
    <2> QED
      BY <1>1, <2>1 DEF Entry
  <1>4. TrueVersion(cache'[d].version, d)
    BY <1>1, <1>2 DEF CacheTrue, TrueVersion
  <1>5. CASE cache[d].version > t.token
    BY <1>1, <1>3, <1>5 DEF CachedAsOf, MovesOn
  <1>6. CASE cache[d].version = DocAt(t.token, d).version /\ ~cache[d].committed
    <2>1. CASE cache'[d] = cache[d]
      BY <1>2, <1>6, <2>1 DEF CachedAsOf
    <2>2. CASE cache'[d].version > cache[d].version
      <3>1. cache'[d].version > t.token
        BY <1>1, <1>3, <1>4, <1>6, <2>2, ChangedLater
      <3> QED
        BY <3>1 DEF CachedAsOf
    <2> QED
      BY <1>1, <1>6, <2>1, <2>2 DEF MovesOn
  <1> QED
    BY <1>1, <1>5, <1>6 DEF CachedAsOf

LEMMA NoChangeExact ==
    ASSUME ExactInv, SyncedInv', AnswersTrue', CacheTrue',
           UNCHANGED <<history, remoteKeys, saved, lastRemote, position>>,
           NEW changed \in SUBSET Doc, NEW asked,
           EmitNewSnapshots(changed, NoChange, asked),
           \A d \in remoteKeys : MovesOn(d),
           \A d \in Doc \ changed :
               /\ cache'[d] = cache[d] /\ readTime'[d] = readTime[d]
               /\ LocalDoc(cache', queue', d) = LocalDoc(cache, queue, d)
    PROVE  ExactInv'
  <1>1. /\ NoChange.keys = view.keys /\ NoChange.current = view.current
        /\ NoChange.data = target
    BY DEF NoChange
  <1>2. /\ view.keys \in SUBSET Doc /\ view.current \in BOOLEAN
        /\ target \in TargetData /\ target.limboFree <= target.token
        /\ target.limboFree \in Nat /\ target.token \in Nat
        /\ lastRemote \in Nat /\ Kept
    BY HistoryStays, HistoryType
       DEF ExactInv, SyncedInv, ViewInv, View, TargetsInv, TargetData
  <1>3. \/ target' = target
        \/ target' = [target EXCEPT !.limboFree = target.token]
    BY <1>1 DEF EmitNewSnapshots
  <1>4. /\ target'.token = target.token /\ target'.torn = target.torn
        /\ target.limboFree <= target'.limboFree
    BY <1>2, <1>3 DEF TargetData
  <1>5. /\ ShownInv'
        /\ view'.keys = view.keys /\ view'.current = view.current
        /\ view'.partial = view.partial
        /\ view'.synced => /\ view'.current
                           /\ \A d \in Doc : ~ShouldBeInLimbo(view', d)
        /\ view.limbo \cap view.keys = {} => view'.limbo \cap view'.keys = {}
    <2>1. \A d \in Doc : PassedOver(d) /\ ~view.partial => d \notin remoteKeys'
      BY DEF PassedOver
    <2>2. lastRemote <= lastRemote'
      BY <1>2
    <2> QED
      BY <1>1, <1>2, <1>4, <2>1, <2>2, EmitsShown
  <1>6. KeysCached'
    <2>1. \A t \in {target, saved} :
             t.torn \/ \A d \in Matching(t.token) : CachedAsOf(t.token, d)'
      BY KeysStayCached
    <2>2. \A v : Matching(v)' = Matching(v)
      BY DEF Matching, DocAt
    <2> QED
      BY <1>4, <2>1, <2>2 DEF KeysCached, CachedAsOf, DocAt
  <1>7. PageInv'
    <2>1. PageInv
      BY DEF ExactInv
    <2> QED
      BY <1>4, <1>5, <2>1 DEF PageInv, ShouldBeInLimbo
  <1> QED
    BY <1>5, <1>6, <1>7 DEF ExactInv

LEMMA CacheTrueStays ==
    ASSUME CacheTrue, UNCHANGED <<history, cache, readTime>>
    PROVE  CacheTrue'
  BY DEF CacheTrue, TrueVersion, DocAt

LEMMA WriteMutationsExact ==
    ASSUME ExactInv, SyncedInv', NEW d \in Doc, WriteMutations(d)
    PROVE  ExactInv'
  <1>1. PICK m \in [doc : {d}, kind : {"set"}, val : {o \in Order : ~o.served}]
                      \cup {[doc |-> d, kind |-> "update", val |-> None]} :
            queue' = Append(queue, m)
    BY DEF WriteMutations
  <1>2. UNCHANGED <<history, answers, cache, readTime, remoteKeys, saved,
                    lastRemote, position>>
        /\ EmitNewSnapshots({d}, NoChange, resolving)
    BY DEF WriteMutations, server
  <1>3. m \in Mutation /\ m.doc = d
    BY <1>1 DEF Mutation, Value
  <1>4. WireInv /\ \A e \in Doc : cache[e].val \in Value
    BY SyncedParts DEF ExactInv, SyncedInv
  <1>5. AnswersTrue'
    <2>1. /\ queue \in Seq(Mutation) /\ Len(answers) \in Nat
          /\ Len(queue) \in Nat /\ Len(answers) <= Len(queue)
      BY <1>4, LenProperties DEF WireInv
    <2>2. \A i \in 1 .. Len(answers) : queue'[i] = queue[i]
      BY <1>1, <1>3, <2>1, AppendProperties
    <2> QED
      BY <1>2, <2>2 DEF ExactInv, AnswersTrue, TrueVersion, DocAt
  <1>6. CacheTrue'
    BY <1>2, CacheTrueStays DEF ExactInv
  <1>7. ASSUME NEW e \in Doc \ {d}
        PROVE  LocalDoc(cache', queue', e) = LocalDoc(cache, queue, e)
    BY <1>1, <1>2, <1>3, <1>4, LocalDocAppended DEF WireInv
  <1>8. \A e : MovesOn(e)
    BY <1>2 DEF MovesOn
  <1> QED
    BY <1>2, <1>5, <1>6, <1>7, <1>8, NoChangeExact

(* The oldest mutation and its answer are done with.                       *)
LEMMA AnswersShortened ==
    ASSUME ExactInv, answers # << >>,
           queue' = Tail(queue), answers' = Tail(answers), UNCHANGED history
    PROVE  AnswersTrue' /\ queue # << >>
  <1>1. /\ queue \in Seq(Mutation) /\ answers \in Seq(Answer)
        /\ Len(answers) <= Len(queue)
    BY DEF ExactInv, SyncedInv, WireInv
  <1>2. Len(answers) \in Nat \ {0} /\ Len(queue) \in Nat
    BY <1>1, EmptySeq, LenProperties
  <1>3. queue # << >>
    BY <1>1, <1>2, EmptySeq
  <1>4. /\ Len(answers') = Len(answers) - 1
        /\ \A i \in 1 .. Len(answers) - 1 : answers'[i] = answers[i + 1]
        /\ \A i \in 1 .. Len(queue) - 1 : queue'[i] = queue[i + 1]
    BY <1>1, <1>2, <1>3, HeadTailProperties
  <1>5. ASSUME NEW i \in 1 .. Len(answers')
        PROVE  answers'[i] = answers[i + 1] /\ queue'[i] = queue[i + 1]
               /\ i + 1 \in 1 .. Len(answers)
    BY <1>1, <1>2, <1>4
  <1>6. ASSUME NEW i \in 1 .. Len(answers'), answers'[i].ok
        PROVE  /\ TrueVersion(answers[i].version, queue[i].doc)'
               /\ answers'[i].version <= answers'[i].commit
    <2>1. /\ TrueVersion(answers[i + 1].version, queue[i + 1].doc)
          /\ answers[i + 1].version <= answers[i + 1].commit
      BY <1>5, <1>6 DEF ExactInv, AnswersTrue
    <2> QED
      BY <1>5, <2>1 DEF TrueVersion, DocAt
  <1>7. AnswersTrue'
    BY <1>6 DEF AnswersTrue
  <1> QED
    BY <1>3, <1>7

LEMMA HandleRejectedWriteExact ==
    ASSUME ExactInv, SyncedInv', HandleRejectedWrite
    PROVE  ExactInv'
  <1>1. /\ answers # << >> /\ queue' = Tail(queue) /\ answers' = Tail(answers)
        /\ UNCHANGED <<history, cache, readTime, remoteKeys, saved, lastRemote,
                       position>>
        /\ EmitNewSnapshots({Head(queue).doc}, NoChange, resolving)
    BY DEF HandleRejectedWrite
  <1>2. /\ Head(queue).doc \in Doc /\ queue \in Seq(Mutation)
        /\ \A e \in Doc : cache[e].val \in Value
    BY <1>1, SyncedParts, HeadsTyped DEF ExactInv, SyncedInv, Mutation
  <1>3. AnswersTrue' /\ queue # << >>
    BY <1>1, AnswersShortened
  <1>4. CacheTrue'
    BY <1>1, CacheTrueStays DEF ExactInv
  <1>5. ASSUME NEW e \in Doc \ {Head(queue).doc}
        PROVE  LocalDoc(cache', queue', e) = LocalDoc(cache, queue, e)
    BY <1>1, <1>2, <1>3, LocalDocShortened
  <1>6. \A e : MovesOn(e)
    BY <1>1 DEF MovesOn
  <1> QED
    BY <1>1, <1>2, <1>3, <1>4, <1>5, <1>6, NoChangeExact

LEMMA HandleSuccessfulWriteExact ==
    ASSUME ExactInv, SyncedInv', HandleSuccessfulWrite
    PROVE  ExactInv'
  <1> DEFINE m == Head(queue)
             d == m.doc
             a == Head(answers)
             v == a.version
  <1>1. /\ answers # << >> /\ a.ok
        /\ queue' = Tail(queue) /\ answers' = Tail(answers)
        /\ UNCHANGED <<history, remoteKeys, saved, lastRemote, position>>
        /\ EmitNewSnapshots({d}, NoChange, resolving)
        /\ \/ /\ cache[d].version < v
              /\ cache' = [cache EXCEPT ![d] =
                               ApplyToRemoteDocument(cache[d], m, v)]
              /\ readTime' = [readTime EXCEPT ![d] =
                                  Max({readTime[d], a.commit})]
           \/ UNCHANGED <<cache, readTime>>
    BY DEF HandleSuccessfulWrite
  <1>2. /\ m \in Mutation /\ a \in Answer /\ queue \in Seq(Mutation)
        /\ cache \in [Doc -> Entry] /\ readTime \in [Doc -> 0 .. Now]
        /\ Now \in Nat /\ \A e \in Doc : cache[e].val \in Value
    BY <1>1, SyncedParts, HeadsTyped DEF ExactInv, SyncedInv
  <1>3. d \in Doc /\ v \in 0 .. Now /\ a.commit \in 0 .. Now
    BY <1>2 DEF Mutation, Answer
  <1>4. AnswersTrue' /\ queue # << >>
    BY <1>1, AnswersShortened
  <1>5. TrueVersion(v, d) /\ v <= a.commit
    <2>1. /\ 1 \in 1 .. Len(answers) /\ answers[1] = a /\ queue[1] = m
      <3>1. answers \in Seq(Answer)
        BY DEF ExactInv, SyncedInv, WireInv
      <3>2. Len(answers) \in Nat \ {0}
        BY <1>1, <3>1, EmptySeq, LenProperties
      <3> QED
        BY <1>1, <1>2, <1>4, <3>1, <3>2, HeadTailProperties
    <2> QED
      BY <1>1, <2>1 DEF ExactInv, AnswersTrue
  <1> HIDE DEF m, d, a, v
  <1>6. \A e \in Doc \ {d} : cache'[e] = cache[e] /\ readTime'[e] = readTime[e]
    BY <1>1, <1>2
  <1>7. \/ cache'[d] = cache[d] /\ readTime'[d] = readTime[d]
        \/ /\ cache'[d].version = v /\ cache[d].version < v
           /\ readTime'[d] = Max({readTime[d], a.commit})
    BY <1>1, <1>2, <1>3 DEF ApplyToRemoteDocument
  <1>8. CacheTrue'
    <2> SUFFICES ASSUME NEW e \in Doc
                 PROVE  /\ TrueVersion(cache'[e].version, e)
                        /\ cache'[e].version <= readTime'[e]
      BY <1>1 DEF CacheTrue, TrueVersion, DocAt
    <2>1. TrueVersion(cache[e].version, e) /\ cache[e].version <= readTime[e]
      BY DEF ExactInv, CacheTrue
    <2>2. CASE cache'[e] = cache[e] /\ readTime'[e] = readTime[e]
      BY <2>1, <2>2
    <2>3. CASE /\ e = d /\ cache'[d].version = v
               /\ readTime'[d] = Max({readTime[d], a.commit})
      <3>1. readTime[d] \in Nat /\ a.commit \in Nat
        BY <1>2, <1>3
      <3>2. Max({readTime[d], a.commit}) \in Nat
            /\ Max({readTime[d], a.commit}) >= a.commit
        BY <3>1, LargerOfTwo
      <3> QED
        BY <1>3, <1>5, <2>3, <3>1, <3>2
    <2> QED
      BY <1>6, <1>7, <2>2, <2>3
  <1>9. ASSUME NEW e \in Doc \ {d}
        PROVE  LocalDoc(cache', queue', e) = LocalDoc(cache, queue, e)
    <2>1. LocalDoc(cache, queue', e) = LocalDoc(cache, queue, e)
      BY <1>1, <1>2, <1>4, LocalDocShortened DEF d, m
    <2> QED
      BY <1>6, <2>1, LocalDocOfSame
  <1>10. \A e \in Doc : MovesOn(e)
    BY <1>2, <1>3, <1>6, <1>7 DEF MovesOn
  <1>11. \A e \in remoteKeys : MovesOn(e)
    BY <1>10, SyncedParts DEF ExactInv
  <1> QED
    BY <1>1, <1>3, <1>4, <1>6, <1>8, <1>9, <1>11, NoChangeExact

LEMMA HandleRejectedListenExact ==
    ASSUME ExactInv, SyncedInv', NEW d \in Doc, HandleRejectedListen(d)
    PROVE  ExactInv'
  <1>1. /\ d \in resolving /\ cache' = [cache EXCEPT ![d] = NoEntry]
        /\ UNCHANGED <<history, answers, queue, readTime, remoteKeys, saved,
                       lastRemote, position>>
        /\ EmitNewSnapshots({d}, NoChange, resolving \ {d})
    BY DEF HandleRejectedListen, server
  <1>2. /\ SyncedInv /\ CacheTrue /\ PageInv /\ AnswersTrue
        /\ cache \in [Doc -> Entry] /\ readTime \in [Doc -> 0 .. Now]
    BY SyncedParts DEF ExactInv
  <1>3. /\ cache'[d] = NoEntry
        /\ \A e \in Doc \ {d} : cache'[e] = cache[e]
    BY <1>1, <1>2
  <1>4. d \notin remoteKeys
    BY <1>1, <1>2 DEF SyncedInv, ViewInv, TargetsInv, PageInv
  <1>5. AnswersTrue'
    BY <1>1, <1>2 DEF AnswersTrue, TrueVersion, DocAt
  <1>6. CacheTrue'
    <2>1. \A e \in Doc : readTime[e] >= 0
      BY <1>2
    <2>2. NoEntry.version = 0 /\ DocAt(0, d).val = None
      BY DEF NoEntry, DocAt
    <2> QED
      BY <1>1, <1>2, <1>3, <2>1, <2>2 DEF CacheTrue, TrueVersion, DocAt
  <1>7. ASSUME NEW e \in Doc \ {d}
        PROVE  LocalDoc(cache', queue', e) = LocalDoc(cache, queue, e)
    <2>1. LocalDoc(cache', queue, e) = LocalDoc(cache, queue, e)
      BY <1>3, LocalDocOfSame
    <2> QED
      BY <1>1, <2>1
  <1>8. \A e \in remoteKeys : MovesOn(e)
    BY <1>2, <1>3, <1>4, SyncedParts DEF MovesOn
  <1> QED
    BY <1>1, <1>3, <1>5, <1>6, <1>7, <1>8, NoChangeExact

-----------------------------------------------------------------------------
(* The connection, the page and the process.                               *)

(* Handlers that leave the cache, the targets and the page as they are.    *)
LEMMA KeysCachedStays ==
    ASSUME KeysCached, UNCHANGED <<history, cache, target, saved>>
    PROVE  KeysCached'
  BY DEF KeysCached, CachedAsOf, Matching, DocAt

LEMMA ShownStays ==
    ASSUME ShownInv,
           UNCHANGED <<history, queue, cache, readTime, remoteKeys,
                       lastRemote>>,
           target'.limboFree = target.limboFree,
           view'.docs = view.docs, view'.mutated = view.mutated,
           view'.partial = view.partial
    PROVE  ShownInv'
  BY DEF ShownInv, Marked, Follows, PassedOver, Matching, DocAt

LEMMA ApplyOnlineStateChangeExact ==
    ASSUME ExactInv, SyncedInv', ApplyOnlineStateChange
    PROVE  ExactInv'
  <1>1. /\ view' = [view EXCEPT !.current = FALSE, !.synced = FALSE]
        /\ UNCHANGED <<history, answers, queue, cache, readTime, remoteKeys,
                       target, saved, lastRemote, position>>
    BY DEF ApplyOnlineStateChange, server, targets
  <1>2. /\ AnswersTrue /\ CacheTrue /\ KeysCached /\ PageInv /\ ShownInv
        /\ view \in View
    BY SyncedParts DEF ExactInv
  <1>3. /\ view'.docs = view.docs /\ view'.mutated = view.mutated
        /\ view'.keys = view.keys /\ view'.limbo = view.limbo
        /\ view'.partial = view.partial
        /\ view'.current = FALSE /\ view'.synced = FALSE
    BY <1>1, <1>2 DEF View
  <1>4. AnswersTrue'
    BY <1>1, <1>2 DEF AnswersTrue, TrueVersion, DocAt
  <1>5. CacheTrue' /\ KeysCached'
    BY <1>1, <1>2, CacheTrueStays, KeysCachedStays
  <1>6. PageInv'
    BY <1>1, <1>2, <1>3 DEF PageInv
  <1>7. ShownInv'
    BY <1>1, <1>2, <1>3, ShownStays
  <1> QED
    BY <1>4, <1>5, <1>6, <1>7 DEF ExactInv

LEMMA NoAnswers ==
    ASSUME answers' = << >>
    PROVE  AnswersTrue'
  BY EmptySeq DEF AnswersTrue

LEMMA LoseAnswersExact ==
    ASSUME ExactInv, SyncedInv', LoseAnswers
    PROVE  ExactInv'
  <1>1. /\ answers' = << >>
        /\ UNCHANGED <<history, queue, cache, readTime, remoteKeys, target,
                       saved, lastRemote, position, view, resolving>>
    BY DEF LoseAnswers, AnswersLost, targets
  <1>2. AnswersTrue'
    BY <1>1, NoAnswers
  <1>3. CacheTrue' /\ KeysCached' /\ PageInv'
    <2>1. CacheTrue' /\ KeysCached'
      BY <1>1, CacheTrueStays, KeysCachedStays DEF ExactInv
    <2> QED
      BY <1>1, <2>1 DEF ExactInv, PageInv, ShouldBeInLimbo
  <1>4. ShownInv'
    BY <1>1, ShownStays DEF ExactInv
  <1> QED
    BY <1>2, <1>3, <1>4 DEF ExactInv

(* The query is run: what it finds is shown, the rest passed over.         *)
LEMMA InitializedShown ==
    ASSUME ExactInv, NEW data \in {target, saved}
    PROVE  LET new == InitializeView(data) IN
           /\ Marked(new)
           /\ \A d \in Doc :
                 \/ Follows(new, d, LocalDoc(cache, queue, d))
                 \/ /\ new.docs[d].val = None
                    /\ LocalDoc(cache, queue, d).flag # "local"
                    /\ readTime[d] <= data.limboFree
                    /\ d \notin remoteKeys
           /\ new.limbo = {} /\ ~new.current /\ ~new.synced
           /\ new.partial = data.torn
  <1> DEFINE since == data.limboFree
             found == [d \in Considered(since) |-> LocalDoc(cache, queue, d)]
             w == FreshView(remoteKeys, data.torn)
             applied == Applied(w, Considered(since), found)
             new == ComputeDocumentChanges(w, applied, found)
  <1>1. /\ queue \in Seq(Mutation) /\ readTime \in [Doc -> 0 .. Now]
        /\ Now \in Nat /\ remoteKeys \subseteq Doc
        /\ \A d \in Doc : cache[d].val \in Value
        /\ data \in TargetData
    BY SyncedParts DEF ExactInv, SyncedInv, TargetsInv
  <1>2. data.limboFree \in Nat /\ data.torn \in BOOLEAN
    BY <1>1 DEF TargetData
  <1>3. InitializeView(data) = new
    <2>1. DOMAIN found = Considered(since)
      OBVIOUS
    <2>2. InitializeView(data) =
              ComputeDocumentChanges(w, Applied(w, DOMAIN found, found), found)
      BY DEF InitializeView
    <2> HIDE DEF found, w
    <2> QED
      BY <2>1, <2>2
  <1>4. /\ w \in View /\ \A d : d \notin w.mutated
        /\ \A d \in Doc : w.docs[d] = Absent
        /\ w.limbo = {} /\ ~w.current /\ ~w.synced /\ w.partial = data.torn
    BY <1>1, <1>2, FreshType DEF FreshView
  <1> HIDE DEF w
  <1>5. Marked(w)
    BY <1>4 DEF Marked, Absent
  <1>6. Considered(since) \in SUBSET Doc
    <2>1. {m.doc : m \in ToSet(queue)} \subseteq Doc
      <3>1. \A i \in DOMAIN queue : queue[i] \in Mutation
        BY <1>1, ElementOfSeq, LenProperties
      <3> QED
        BY <3>1 DEF ToSet, Mutation
    <2> QED
      BY <1>1, <2>1 DEF Considered
  <1>7. /\ DOMAIN found = Considered(since)
        /\ \A d \in Considered(since) :
              found[d] = LocalDoc(cache, queue, d) /\ found[d] \in LocalState
    BY <1>1, <1>6, LocalDocType
  <1> HIDE DEF found
  <1>8. /\ Marked(new)
        /\ \A d \in Considered(since) : Follows(new, d, found[d])
        /\ \A d \in Doc \ Considered(since) : new.docs[d] = w.docs[d]
        /\ new.current = w.current /\ new.limbo = w.limbo
        /\ new.synced = w.synced /\ new.partial = w.partial
    <2> DEFINE considered == Considered(since)
    <2>1. /\ considered \in SUBSET Doc
          /\ \A d \in considered : found[d] \in LocalState
      BY <1>6, <1>7
    <2> HIDE DEF considered
    <2>2. LET n == ComputeDocumentChanges(w, Applied(w, considered, found),
                                          found)
          IN /\ Marked(n)
             /\ \A d \in considered : Follows(n, d, found[d])
             /\ \A d \in Doc \ considered :
                   /\ n.docs[d] = w.docs[d]
                   /\ d \in n.mutated <=> d \in w.mutated
             /\ n.keys = w.keys /\ n.current = w.current
             /\ n.limbo = w.limbo /\ n.synced = w.synced
             /\ n.partial = w.partial
      BY <1>4, <1>5, <2>1, TakesOver
    <2> QED
      BY <2>2 DEF considered
  <1> HIDE DEF new
  <1>9. ASSUME NEW d \in Doc \ Considered(since)
        PROVE  /\ new.docs[d].val = None
               /\ LocalDoc(cache, queue, d).flag # "local"
               /\ readTime[d] <= since /\ d \notin remoteKeys
    <2>1. new.docs[d].val = None
      BY <1>4, <1>8 DEF Absent
    <2>2. /\ d \notin remoteKeys /\ ~(readTime[d] > since)
          /\ d \notin {m.doc : m \in ToSet(queue)}
      BY DEF Considered
    <2>3. readTime[d] <= since
      BY <1>1, <1>2, <2>2
    <2>4. \A i \in 1 .. Len(queue) : queue[i].doc # d
      <3>1. \A i \in 1 .. Len(queue) : queue[i] \in ToSet(queue)
        BY <1>1, LenProperties DEF ToSet
      <3> QED
        BY <2>2, <3>1
    <2>5. LocalDoc(cache, queue, d) = Cached(cache, d)
      BY <1>1, <2>4, LocalDocUntouched
    <2> QED
      BY <2>1, <2>2, <2>3, <2>5 DEF Cached
  <1> QED
    BY <1>3, <1>4, <1>7, <1>8, <1>9

LEMMA ListenExact ==
    ASSUME ExactInv, SyncedInv', AnswersTrue',
           NEW data \in {target, saved}, Listen(data)
    PROVE  ExactInv'
  <1>1. /\ target' = data /\ saved' = data /\ position' = data.token
        /\ view' = InitializeView(data)
        /\ UNCHANGED <<history, queue, cache, readTime, remoteKeys,
                       lastRemote>>
    BY DEF Listen
  <1>2. CacheTrue'
    BY <1>1, CacheTrueStays DEF ExactInv
  <1>3. KeysCached'
    BY <1>1 DEF ExactInv, KeysCached, CachedAsOf, Matching, DocAt
  <1>4. /\ Marked(view')
        /\ \A d \in Doc :
              \/ Follows(view', d, LocalDoc(cache, queue, d))
              \/ /\ view'.docs[d].val = None
                 /\ LocalDoc(cache, queue, d).flag # "local"
                 /\ readTime[d] <= data.limboFree
                 /\ d \notin remoteKeys
        /\ view'.limbo = {} /\ ~view'.current /\ ~view'.synced
        /\ view'.partial = data.torn
    BY <1>1, InitializedShown
  <1>5. PageInv'
    BY <1>1, <1>4 DEF PageInv
  <1>6. /\ data \in TargetData /\ data.limboFree \in Nat
        /\ data.token \in Nat /\ data.limboFree <= data.token
        /\ data.token <= lastRemote /\ lastRemote \in Nat
        /\ data.torn \/ remoteKeys = Matching(data.token)
    <2>1. TargetsInv
      BY DEF ExactInv, SyncedInv
    <2>2. /\ target \in TargetData /\ saved \in TargetData
          /\ \A t \in {target, saved} :
                t.torn \/ remoteKeys = Matching(t.token)
          /\ target.limboFree <= target.token
          /\ saved.limboFree <= saved.token
          /\ saved.token <= target.token /\ target.token <= lastRemote
          /\ lastRemote \in 0 .. Now
      BY <2>1 DEF TargetsInv, KeysAreOf
    <2>3. /\ target.token \in Nat /\ saved.token \in Nat
          /\ target.limboFree \in Nat /\ saved.limboFree \in Nat
          /\ lastRemote \in Nat
      BY <2>2 DEF TargetData
    <2> QED
      BY <2>2, <2>3
  <1>7. ASSUME NEW d \in Doc, view'.docs[d].val = None,
               LocalDoc(cache, queue, d).flag # "local",
               readTime[d] <= data.limboFree, d \notin remoteKeys
        PROVE  PassedOver(d)'
    <2>1. CASE data.torn
      BY <1>1, <1>4, <1>7, <2>1 DEF PassedOver
    <2>2. CASE ~data.torn
      <3>1. d \notin Matching(data.token)
        BY <1>6, <1>7, <2>2
      <3>2. data.token \in cache[d].version .. lastRemote
        <4>1. cache[d].version <= readTime[d]
          BY DEF ExactInv, CacheTrue
        <4>2. cache[d].version \in Nat /\ readTime[d] \in Nat
          BY SyncedParts DEF ExactInv, Entry
        <4> QED
          BY <1>6, <1>7, <4>1, <4>2
      <3> QED
        BY <1>1, <1>7, <3>1, <3>2 DEF PassedOver, Matching, DocAt
    <2> QED
      BY <1>6, <2>1, <2>2
  <1>8. ShownInv'
    <2>1. \A d : LocalDoc(cache, queue, d)' = LocalDoc(cache, queue, d)
      BY <1>1 DEF LocalDoc
    <2> QED
      BY <1>4, <1>7, <2>1 DEF ShownInv
  <1> QED
    BY <1>2, <1>3, <1>5, <1>8 DEF ExactInv

-----------------------------------------------------------------------------
(* The snapshots of the watch stream.                                      *)

LEMMA SentMatching ==
    ASSUME HistoryInv, NEW v \in 1 .. Now, NEW limbo, NEW s \in Sent(v, limbo),
           NEW d \in Matching(v)
    PROVE  /\ d \in Doc
           /\ s[d] = v \/ (s[d] = 0 /\ DocAt(position, d) = DocAt(v, d))
           /\ s[d] = v => Update(s, d) = [val |-> DocAt(v, d).val,
                                          committed |-> FALSE,
                                          version |-> DocAt(v, d).version]
  <1>1. d \in Doc /\ DocAt(v, d).val # None
    BY HistoryType DEF Matching, Matches
  <1>2. s[d] \in (IF d \in limbo THEN {v} ELSE Sendable(d, v))
    BY <1>1 DEF Sent
  <1>3. Sendable(d, v) = {IF DocAt(position, d) = DocAt(v, d) THEN 0 ELSE v}
    BY DEF Sendable
  <1>4. s[d] = v => Update(s, d) = [val |-> DocAt(v, d).val,
                                    committed |-> FALSE,
                                    version |-> DocAt(v, d).version]
    BY <1>1 DEF Update
  <1>5. s[d] = v \/ (s[d] = 0 /\ DocAt(position, d) = DocAt(v, d))
    <2>1. CASE d \in limbo
      BY <1>2, <2>1
    <2>2. CASE d \notin limbo
      <3>1. s[d] = IF DocAt(position, d) = DocAt(v, d) THEN 0 ELSE v
        BY <1>2, <1>3, <2>2
      <3> QED
        BY <3>1
    <2> QED
      BY <2>1, <2>2
  <1> QED
    BY <1>1, <1>4, <1>5

(* What is put into the cache is true, and nothing goes back.              *)
LEMMA PopulatedTrue ==
    ASSUME ExactInv, SyncedInv', NEW v \in 1 .. Now, NEW limbo,
           NEW s \in Sent(v, limbo), PopulateDocumentChanges(s, v),
           UNCHANGED history
    PROVE  /\ CacheTrue' /\ \A d \in Doc : MovesOn(d)
           /\ Accepted(s) \in SUBSET Doc
           /\ \A d \in Doc \ Accepted(s) :
                 cache'[d] = cache[d] /\ readTime'[d] = readTime[d]
  <1>1. /\ HistoryInv /\ Now \in Nat \ {0} /\ CacheTrue
        /\ cache \in [Doc -> Entry] /\ readTime \in [Doc -> 0 .. Now]
    BY SyncedParts DEF ExactInv
  <1>2. /\ Accepted(s) \in SUBSET Doc
        /\ \A d \in Doc :
              IF d \in Accepted(s)
              THEN /\ cache'[d] = Update(s, d)
                   /\ readTime'[d] = Max({readTime[d], v})
              ELSE cache'[d] = cache[d] /\ readTime'[d] = readTime[d]
    BY DEF PopulateDocumentChanges, Accepted
  <1>3. ASSUME NEW d \in Accepted(s)
        PROVE  /\ TrueVersion(Update(s, d).version, d)
               /\ Update(s, d).version <= Max({readTime[d], v})
               /\ MovesOn(d)
    <2>1. d \in Doc /\ s[d] \in 1 .. v
      <3>1. d \in Doc /\ s[d] # 0
        BY DEF Accepted
      <3> QED
        BY <1>1, <3>1, SentBelow
    <2> DEFINE x == Update(s, d).version
    <2>2. x \in 1 .. s[d] /\ TrueVersion(x, d)
      <3>1. /\ s[d] \in 1 .. Now
            /\ DocAt(s[d], d).version \in 1 .. s[d]
            /\ DocAt(DocAt(s[d], d).version, d) = DocAt(s[d], d)
        BY <1>1, <2>1, HistoryType
      <3>2. CASE DocAt(s[d], d).val = None
        <4>1. x = s[d]
          BY <3>2 DEF Update
        <4> QED
          BY <2>1, <3>2, <4>1 DEF TrueVersion
      <3>3. CASE DocAt(s[d], d).val # None
        <4>1. x = DocAt(s[d], d).version
          BY <3>3 DEF Update
        <4> QED
          BY <3>1, <4>1 DEF TrueVersion
      <3> QED
        BY <3>2, <3>3
    <2>3. readTime[d] \in Nat /\ v \in Nat
      BY <1>1, <2>1
    <2>4. Max({readTime[d], v}) \in Nat /\ Max({readTime[d], v}) >= v
      BY <2>3, LargerOfTwo
    <2>5. x <= Max({readTime[d], v})
      BY <2>1, <2>2, <2>3, <2>4
    <2>6. MovesOn(d)
      <3>1. \/ cache[d].version = 0 \/ x > cache[d].version
            \/ x = cache[d].version /\ cache[d].committed
        BY DEF Accepted
      <3>2. cache'[d].version = x
        BY <1>2, <2>1
      <3> HIDE DEF x
      <3> QED
        BY <2>2, <3>1, <3>2 DEF MovesOn
    <2> QED
      BY <2>2, <2>5, <2>6
  <1>4. CacheTrue'
    <2>1. \A d \in Doc : /\ TrueVersion(cache'[d].version, d)
                         /\ cache'[d].version <= readTime'[d]
      BY <1>1, <1>2, <1>3 DEF CacheTrue
    <2> QED
      BY <2>1 DEF CacheTrue, TrueVersion, DocAt
  <1>5. \A d \in Doc : MovesOn(d)
    BY <1>2, <1>3 DEF MovesOn
  <1> QED
    BY <1>2, <1>4, <1>5

(* What matches is in the cache then, if the snapshot started from where   *)
(* the keys were right, or from the beginning.                             *)
LEMMA SentIsCached ==
    ASSUME ExactInv, SyncedInv', NEW v \in 1 .. Now, NEW limbo,
           NEW s \in Sent(v, limbo), PopulateDocumentChanges(s, v),
           UNCHANGED history,
           position = 0 \/ (position = target.token /\ ~target.torn),
           NEW d \in Matching(v)
    PROVE  CachedAsOf(v, d)'
  <1>1. /\ HistoryInv /\ Now \in Nat \ {0} /\ CacheTrue /\ KeysCached
        /\ cache \in [Doc -> Entry] /\ position \in 0 .. Now
    BY SyncedParts DEF ExactInv, SyncedInv, TargetsInv
  <1>2. /\ s[d] = v \/ (s[d] = 0 /\ DocAt(position, d) = DocAt(v, d))
        /\ s[d] = v => Update(s, d) = [val |-> DocAt(v, d).val,
                                       committed |-> FALSE,
                                       version |-> DocAt(v, d).version]
    BY <1>1, SentMatching
  <1>3. d \in Doc
    BY <1>1, SentMatching
  <1>4. /\ cache[d].version \in 0 .. Now /\ TrueVersion(cache[d].version, d)
        /\ DocAt(v, d).version \in 1 .. v /\ v \in Nat
    BY <1>1, <1>3, HistoryType DEF Entry, CacheTrue
  <1>5. ASSUME cache[d].version > DocAt(v, d).version
        PROVE  cache[d].version > v
    BY <1>1, <1>3, <1>4, <1>5, ChangedLater
  <1>6. \A w, e : DocAt(w, e)' = DocAt(w, e)
    BY DEF DocAt
  <1>7. cache'[d] = IF d \in Accepted(s) THEN Update(s, d) ELSE cache[d]
    BY <1>3 DEF PopulateDocumentChanges
  <1>8. CASE s[d] = v
    <2>1. /\ Update(s, d).version = DocAt(v, d).version
          /\ ~Update(s, d).committed
      BY <1>2, <1>8
    <2>2. CASE d \in Accepted(s)
      BY <1>6, <1>7, <2>1, <2>2 DEF CachedAsOf
    <2>3. CASE d \notin Accepted(s)
      <3>1. \/ cache[d].version > DocAt(v, d).version
            \/ cache[d].version = DocAt(v, d).version /\ ~cache[d].committed
        BY <1>3, <1>4, <1>8, <2>1, <2>3 DEF Accepted
      <3> QED
        BY <1>5, <1>6, <1>7, <2>3, <3>1 DEF CachedAsOf
    <2> QED
      BY <2>2, <2>3
  <1>9. CASE s[d] = 0 /\ DocAt(position, d) = DocAt(v, d)
    <2>1. d \in Matching(position) /\ position # 0
      BY <1>1, <1>3, <1>9, HistoryType DEF Matching
    <2>2. CachedAsOf(position, d)
      BY <1>1, <2>1 DEF KeysCached
    <2>3. cache'[d] = cache[d]
      BY <1>7, <1>9 DEF Accepted
    <2>4. DocAt(position, d).version <= position
      BY <1>1, <1>3, <2>1, HistoryType
    <2>5. CASE cache[d].version > position
      BY <1>1, <1>4, <1>5, <1>6, <1>9, <2>3, <2>4, <2>5 DEF CachedAsOf
    <2>6. CASE /\ cache[d].version = DocAt(position, d).version
               /\ ~cache[d].committed
      BY <1>6, <1>9, <2>3, <2>6 DEF CachedAsOf
    <2> QED
      BY <2>2, <2>5, <2>6 DEF CachedAsOf
  <1> QED
    BY <1>2, <1>8, <1>9

(* A document that was passed over and matches again is news to the cache. *)
LEMMA PassedOverIsAccepted ==
    ASSUME ExactInv, NEW v \in 1 .. Now, v >= lastRemote, NEW limbo,
           NEW s \in Sent(v, limbo), NEW d \in Matching(v), s[d] # 0,
           PassedOver(d), ~view.partial
    PROVE  d \in Accepted(s)
  <1>1. /\ HistoryInv /\ Now \in Nat \ {0} /\ lastRemote \in 0 .. Now
        /\ cache \in [Doc -> Entry]
    BY SyncedParts DEF ExactInv, SyncedInv, TargetsInv
  <1>2. /\ d \in Doc /\ s[d] = v
        /\ Update(s, d).version = DocAt(v, d).version
    BY <1>1, SentMatching
  <1>3. PICK u \in cache[d].version .. lastRemote : d \notin Matching(u)
    BY DEF PassedOver
  <1>4. cache[d].version \in 0 .. Now /\ u \in 0 .. v /\ v \in 0 .. Now
    BY <1>1, <1>2, <1>3 DEF Entry
  <1>5. DocAt(v, d).version > u /\ DocAt(v, d).version \in Nat
    BY <1>1, <1>2, <1>3, <1>4, ComesBack, HistoryType
  <1>6. Update(s, d).version > cache[d].version
    BY <1>2, <1>3, <1>4, <1>5
  <1> QED
    BY <1>2, <1>6 DEF Accepted

LEMMA ApplyRemoteEventExact ==
    ASSUME ExactInv, SyncedInv', NEW v \in 1 .. Now, NEW limbo,
           ApplyRemoteEvent(v, limbo)
    PROVE  ExactInv'
  <1> DEFINE removed == (Matching(position) \ Matching(v)) \cap view.keys
             torn    == target.torn /\ position > 0
             data    == [target EXCEPT !.token = v, !.torn = torn]
  <1>1. /\ v \in Max({lastRemote, 1}) .. Now
        /\ lastRemote' = v /\ position' = v
        /\ UNCHANGED <<history, answers, queue>>
    BY DEF ApplyRemoteEvent, server
  <1>2. PICK s \in Sent(v, limbo), old \in BOOLEAN :
         LET touched == {d \in Matching(v) : DocAt(position, d) # DocAt(v, d)}
         IN /\ PopulateDocumentChanges(s, v)
            /\ remoteKeys' = (remoteKeys \ removed) \cup touched
            /\ saved' = IF ShouldPersistTargetData(touched \cup removed, old)
                        THEN data ELSE saved
            /\ EmitNewSnapshots(Accepted(s),
                   [keys |-> (view.keys \ removed) \cup touched,
                    current |-> TRUE, data |-> data], resolving)
    BY DEF ApplyRemoteEvent
  <1> DEFINE touched == {d \in Matching(v) : DocAt(position, d) # DocAt(v, d)}
             keys    == (view.keys \ removed) \cup touched
             change  == [keys |-> keys, current |-> TRUE, data |-> data]
  <1>3. /\ PopulateDocumentChanges(s, v)
        /\ remoteKeys' = (remoteKeys \ removed) \cup touched
        /\ saved' = data \/ saved' = saved
        /\ EmitNewSnapshots(Accepted(s), change, resolving)
    BY <1>2
  <1>4. /\ HistoryInv /\ TargetsInv /\ PageInv /\ view \in View
        /\ Now \in Nat \ {0} /\ Kept /\ remoteKeys \subseteq Doc
        /\ queue \in Seq(Mutation)
    BY <1>1, SyncedParts, HistoryStays DEF ExactInv, SyncedInv
  <1>5. /\ target \in TargetData /\ target.limboFree \in Nat
        /\ target.torn \in BOOLEAN /\ target.limboFree <= target.token
        /\ target.token <= lastRemote /\ target.token \in Nat
        /\ position \in Nat /\ lastRemote \in Nat /\ v \in Nat
    BY <1>4 DEF TargetsInv, TargetData
  <1>6. v >= lastRemote
    BY <1>1, <1>5, LargerOfTwo
  <1>7. /\ data \in TargetData /\ data.token = v /\ data.torn = torn
        /\ data.limboFree = target.limboFree
    <2>1. torn \in BOOLEAN /\ v \in 0 .. Now
      BY <1>4, <1>5
    <2> HIDE DEF torn
    <2> QED
      BY <1>5, <2>1 DEF TargetData
  <1> HIDE DEF data
  <1>8. keys \in SUBSET Doc
    BY <1>4, HistoryType DEF View
  <1>9. /\ change.keys = keys /\ change.current = TRUE /\ change.data = data
    OBVIOUS
  <1> HIDE DEF change
  <1>10. \/ target' = data
         \/ target' = [data EXCEPT !.limboFree = data.token]
    BY <1>3, <1>9 DEF EmitNewSnapshots
  <1>11. /\ target'.token = v /\ target'.torn = torn
         /\ target.limboFree <= target'.limboFree
    <2> HIDE DEF torn
    <2> QED
      BY <1>5, <1>6, <1>7, <1>10 DEF TargetData
  <1>12. /\ CacheTrue' /\ \A d \in Doc : MovesOn(d)
         /\ Accepted(s) \in SUBSET Doc
         /\ \A d \in Doc \ Accepted(s) :
               cache'[d] = cache[d] /\ readTime'[d] = readTime[d]
    BY <1>1, <1>3, PopulatedTrue
  <1>13. ASSUME NEW d \in Doc \ Accepted(s)
         PROVE  /\ cache'[d] = cache[d] /\ readTime'[d] = readTime[d]
                /\ LocalDoc(cache', queue', d) = LocalDoc(cache, queue, d)
                /\ PassedOver(d) /\ ~view.partial => d \notin remoteKeys'
    <2>1. LocalDoc(cache', queue, d) = LocalDoc(cache, queue, d)
      BY <1>12, LocalDocOfSame
    <2>2. ASSUME PassedOver(d), ~view.partial
          PROVE  d \notin remoteKeys'
      <3>1. d \notin remoteKeys
        BY <2>2 DEF PassedOver
      <3>2. d \notin touched
        BY <1>4, <1>6, <1>13, <2>2, PassedOverIsAccepted, SentMatching
      <3> QED
        BY <1>3, <3>1, <3>2
    <2> QED
      BY <1>1, <1>12, <2>1, <2>2
  <1>14. /\ ShownInv'
         /\ view'.current /\ view'.partial = view.partial
         /\ view'.synced => \A d \in Doc : ~ShouldBeInLimbo(view', d)
         /\ view'.limbo \cap view'.keys = {}
    <2>1. lastRemote <= lastRemote'
      BY <1>1, <1>6
    <2> HIDE DEF keys
    <2>2. change.keys \in SUBSET Doc /\ change.current \in BOOLEAN
      BY <1>8, <1>9
    <2> QED
      BY <1>3, <1>4, <1>9, <1>11, <1>12, <1>13, <2>1, <2>2, EmitsShown
  <1>15. PageInv'
    <2>1. \A d : ShouldBeInLimbo(view, d)' <=> ShouldBeInLimbo(view', d)
      BY DEF ShouldBeInLimbo
    <2>2. torn => view.partial
      BY <1>4, <1>5 DEF PageInv
    <2> HIDE DEF torn
    <2> QED
      BY <1>1, <1>11, <1>14, <2>1, <2>2 DEF PageInv
  <1>16. KeysCached'
    <2>1. \A w : Matching(w)' = Matching(w)
      BY <1>1 DEF Matching, DocAt
    <2>2. ASSUME NEW t \in {target', saved'}, ~t.torn
          PROVE  \A d \in Matching(t.token) : CachedAsOf(t.token, d)'
      <3>1. CASE t.token = v /\ t.torn = torn
        <4>1. position = 0 \/ (position = target.token /\ ~target.torn)
          BY <1>4, <1>5, <2>2, <3>1 DEF TargetsInv
        <4>2. \A d \in Matching(v) : CachedAsOf(v, d)'
          BY <1>1, <1>3, <4>1, SentIsCached
        <4> QED
          BY <3>1, <4>2
      <3>2. CASE t = saved
        <4>1. \A d \in remoteKeys : MovesOn(d)
          BY <1>4, <1>12
        <4> QED
          BY <1>1, <1>12, <2>2, <3>2, <4>1, KeysStayCached
      <3> QED
        BY <1>3, <1>7, <1>11, <3>1, <3>2
    <2>3. ASSUME NEW t \in {target', saved'}, ~t.torn,
                 NEW d \in Matching(t.token)'
          PROVE  CachedAsOf(t.token, d)'
      BY <2>1, <2>2, <2>3
    <2> QED
      BY <2>3 DEF KeysCached, CachedAsOf, DocAt
  <1>17. AnswersTrue'
    BY <1>1 DEF ExactInv, AnswersTrue, TrueVersion, DocAt
  <1> QED
    BY <1>12, <1>14, <1>15, <1>16, <1>17 DEF ExactInv

LEMMA ResetTargetExact ==
    ASSUME ExactInv, SyncedInv', NEW v \in 1 .. Now, ResetTarget(v)
    PROVE  ExactInv'
  <1> DEFINE data == [target EXCEPT !.token = v, !.torn = TRUE]
             change == [keys |-> {}, current |-> FALSE, data |-> data]
  <1>1. PICK s \in Sent(v, {}), old \in BOOLEAN :
            /\ PopulateDocumentChanges(s, v)
            /\ lastRemote' = v /\ position' = 0
            /\ remoteKeys' = remoteKeys \ view.keys
            /\ saved' = IF ShouldPersistTargetData(view.keys, old)
                        THEN data ELSE saved
            /\ UNCHANGED <<server, queue>>
            /\ EmitNewSnapshots(Accepted(s), change, resolving)
    BY DEF ResetTarget
  <1>2. v \in lastRemote .. Now
    BY DEF ResetTarget
  <1>3. /\ UNCHANGED <<history, answers, queue>>
        /\ saved' = data \/ saved' = saved
    BY <1>1 DEF server
  <1>4. /\ HistoryInv /\ TargetsInv /\ PageInv /\ view \in View
        /\ Now \in Nat \ {0} /\ Kept /\ remoteKeys \subseteq Doc
    BY <1>3, SyncedParts, HistoryStays DEF ExactInv, SyncedInv
  <1>5. /\ target \in TargetData /\ target.limboFree \in Nat
        /\ target.limboFree <= target.token
        /\ target.token <= lastRemote /\ target.token \in Nat
        /\ lastRemote \in Nat /\ v \in Nat /\ v >= lastRemote
    BY <1>2, <1>4 DEF TargetsInv, TargetData
  <1>6. /\ data.token = v /\ data.torn /\ data.limboFree = target.limboFree
        /\ data \in TargetData
    <2>1. v \in 0 .. Now
      BY <1>4
    <2> QED
      BY <1>5, <2>1 DEF TargetData
  <1> HIDE DEF data
  <1>7. /\ change.keys = {} /\ change.current = FALSE /\ change.data = data
    OBVIOUS
  <1> HIDE DEF change
  <1>8. \/ target' = data
        \/ target' = [data EXCEPT !.limboFree = data.token]
    BY <1>1, <1>7 DEF EmitNewSnapshots
  <1>9. target'.torn /\ target.limboFree <= target'.limboFree
    BY <1>5, <1>6, <1>8 DEF TargetData
  <1>10. /\ CacheTrue' /\ \A d \in Doc : MovesOn(d)
         /\ Accepted(s) \in SUBSET Doc
         /\ \A d \in Doc \ Accepted(s) :
               cache'[d] = cache[d] /\ readTime'[d] = readTime[d]
    BY <1>1, <1>3, PopulatedTrue
  <1>11. ASSUME NEW d \in Doc \ Accepted(s)
         PROVE  /\ cache'[d] = cache[d] /\ readTime'[d] = readTime[d]
                /\ LocalDoc(cache', queue', d) = LocalDoc(cache, queue, d)
                /\ PassedOver(d) /\ ~view.partial => d \notin remoteKeys'
    <2>1. LocalDoc(cache', queue, d) = LocalDoc(cache, queue, d)
      BY <1>10, LocalDocOfSame
    <2>2. PassedOver(d) /\ ~view.partial => d \notin remoteKeys'
      BY <1>1 DEF PassedOver
    <2> QED
      BY <1>3, <1>10, <2>1, <2>2
  <1>12. /\ ShownInv'
         /\ ~view'.current /\ ~view'.synced
         /\ view'.limbo \cap view'.keys = {}
    <2>1. lastRemote <= lastRemote'
      BY <1>1, <1>5
    <2>2. change.keys \in SUBSET Doc /\ change.current \in BOOLEAN
      BY <1>7
    <2> QED
      BY <1>1, <1>4, <1>7, <1>9, <1>10, <1>11, <2>1, <2>2, EmitsShown
  <1>13. PageInv'
    BY <1>1, <1>12 DEF PageInv
  <1>14. KeysCached'
    <2>1. \A w : Matching(w)' = Matching(w)
      BY <1>3 DEF Matching, DocAt
    <2>2. ASSUME NEW t \in {target', saved'}, ~t.torn
          PROVE  \A d \in Matching(t.token) : CachedAsOf(t.token, d)'
      <3>1. t = saved
        BY <1>3, <1>6, <1>9, <2>2
      <3>2. \A d \in remoteKeys : MovesOn(d)
        BY <1>4, <1>10
      <3> QED
        BY <1>3, <1>10, <2>2, <3>1, <3>2, KeysStayCached
    <2>3. ASSUME NEW t \in {target', saved'}, ~t.torn,
                 NEW d \in Matching(t.token)'
          PROVE  CachedAsOf(t.token, d)'
      BY <2>1, <2>2, <2>3
    <2> QED
      BY <2>3 DEF KeysCached, CachedAsOf, DocAt
  <1>15. AnswersTrue'
    BY <1>3 DEF ExactInv, AnswersTrue, TrueVersion, DocAt
  <1> QED
    BY <1>10, <1>12, <1>13, <1>14, <1>15 DEF ExactInv

-----------------------------------------------------------------------------
(* The server's steps, and the first state.                                *)

LEMMA GrowthExact ==
    ASSUME ExactInv, SyncedInv', Kept, AnswersTrue',
           UNCHANGED <<queue, cache, readTime, remoteKeys, target, saved,
                       lastRemote, position, view>>
    PROVE  ExactInv'
  <1>1. /\ CacheTrue /\ KeysCached /\ PageInv /\ ShownInv /\ HistoryInv
        /\ TargetsInv /\ cache \in [Doc -> Entry] /\ Now \in Nat
    BY SyncedParts DEF ExactInv, SyncedInv
  <1>2. \A w \in 0 .. Now : /\ \A d \in Doc : DocAt(w, d)' = DocAt(w, d)
                            /\ Matching(w)' = Matching(w)
    BY DEF Kept
  <1>3. CacheTrue'
    <2>1. \A d \in Doc : cache[d].version \in 0 .. Now
      BY <1>1 DEF Entry
    <2> QED
      BY <1>1, <1>2, <2>1 DEF CacheTrue, TrueVersion
  <1>4. KeysCached'
    <2>1. \A t \in {target, saved} : t.token \in 0 .. Now
      BY <1>1 DEF TargetsInv, TargetData
    <2>2. \A w : Matching(w) \subseteq Doc
      BY <1>1, HistoryType
    <2> QED
      BY <1>1, <1>2, <2>1, <2>2 DEF KeysCached, CachedAsOf
  <1>5. PageInv'
    BY <1>1 DEF PageInv, ShouldBeInLimbo
  <1>6. ShownInv'
    <2>1. ASSUME NEW d \in Doc, PassedOver(d)
          PROVE  PassedOver(d)'
      <3>1. lastRemote \in 0 .. Now /\ cache[d].version \in 0 .. Now
        BY <1>1 DEF TargetsInv, Entry
      <3>2. \A u \in cache[d].version .. lastRemote : u \in 0 .. Now
        BY <1>1, <3>1
      <3> QED
        BY <1>2, <2>1, <3>2 DEF PassedOver
    <2> QED
      BY <1>1, <2>1 DEF ShownInv, Marked, Follows
  <1> QED
    BY <1>3, <1>4, <1>5, <1>6 DEF ExactInv

LEMMA AnswersTyped ==
    ASSUME ExactInv
    PROVE  /\ answers \in Seq(Answer) /\ queue \in Seq(Mutation)
           /\ Len(answers) \in Nat /\ Len(queue) \in Nat
           /\ Len(answers) <= Len(queue) /\ AnswersTrue
           /\ \A i \in 1 .. Len(answers) :
                 answers[i].version \in 0 .. Now /\ queue[i].doc \in Doc
  <1>1. /\ answers \in Seq(Answer) /\ queue \in Seq(Mutation)
        /\ Len(answers) <= Len(queue) /\ AnswersTrue
    BY DEF ExactInv, SyncedInv, WireInv
  <1>2. Len(answers) \in Nat /\ Len(queue) \in Nat
    BY <1>1, LenProperties
  <1>3. ASSUME NEW i \in 1 .. Len(answers)
        PROVE  answers[i].version \in 0 .. Now /\ queue[i].doc \in Doc
    <2>1. i \in 1 .. Len(queue)
      BY <1>1, <1>2
    <2>2. answers[i] \in Answer /\ queue[i] \in Mutation
      BY <1>1, <2>1, ElementOfSeq
    <2> QED
      BY <2>2 DEF Answer, Mutation
  <1> QED
    BY <1>1, <1>2, <1>3

LEMMA EditExact ==
    ASSUME ExactInv, SyncedInv', NEW d \in Doc, Edit(d)
    PROVE  ExactInv'
  <1>1. PICK val \in (Order \cup {None}) \ {DocAt(Now, d).val} :
            history' = Changed(d, val)
    BY DEF Edit
  <1>2. UNCHANGED <<answers, queue, cache, readTime, remoteKeys, target, saved,
                    lastRemote, position, view>>
    BY DEF Edit, targets
  <1>3. Kept
    BY <1>1, SyncedParts, HistoryGrows DEF ExactInv, Value
  <1>4. AnswersTrue'
    BY <1>2, <1>3, AnswersTyped DEF AnswersTrue, TrueVersion, Kept
  <1> QED
    BY <1>2, <1>3, <1>4, GrowthExact

LEMMA CommitExact ==
    ASSUME ExactInv, SyncedInv', Commit
    PROVE  ExactInv'
  <1> DEFINE m   == queue[Len(answers) + 1]
             old == DocAt(Now, m.doc)
             new == IF m.kind = "set" THEN m.val ELSE Served(old.val)
             a   == [ok |-> TRUE, commit |-> Len(history'),
                     version |-> history'[Len(history')][m.doc].version]
  <1>1. /\ Len(answers) < Len(queue)
        /\ UNCHANGED <<queue, cache, readTime, remoteKeys, target, saved,
                       lastRemote, position, view>>
        /\ \/ answers' = Append(answers, Refused) /\ UNCHANGED history
           \/ /\ ~(m.kind = "update" /\ old.val = None)
              /\ history' = IF new = old.val THEN history
                            ELSE Changed(m.doc, new)
              /\ answers' = Append(answers, a)
    BY DEF Commit, targets
  <1>2. /\ HistoryInv /\ Now \in Nat \ {0} /\ queue \in Seq(Mutation)
        /\ answers \in Seq(Answer) /\ Len(answers) \in Nat
        /\ Len(queue) \in Nat
    BY SyncedParts, LenProperties DEF ExactInv, SyncedInv, WireInv
  <1>3. m \in Mutation
    BY <1>1, <1>2, ElementOfSeq
  <1> HIDE DEF m
  <1>4. m.doc \in Doc /\ m.val \in Value /\ m.kind \in {"set", "update"}
    BY <1>3 DEF Mutation
  <1>5. old.val \in Value
    BY <1>2, <1>4, HistoryType
  <1> HIDE DEF old
  <1>6. HistoryInv' /\ Kept
    <2>1. CASE UNCHANGED history
      BY <1>2, <2>1, HistoryStays
    <2>2. CASE /\ ~(m.kind = "update" /\ old.val = None)
               /\ history' = Changed(m.doc, new)
      <3>1. new \in Value
        BY <1>4, <1>5, <2>2, OrderIsServed DEF Value
      <3> HIDE DEF new
      <3> QED
        BY <1>2, <1>4, <2>2, <3>1, HistoryGrows
    <2> QED
      BY <1>1, <2>1, <2>2
  <1>7. /\ a.version <= a.commit /\ a.version # 0
        /\ history'[a.version][m.doc].version = a.version
    <2>1. Now' \in Nat \ {0} /\ Now' = Len(history')
      BY <1>2, <1>6 DEF Kept, Now
    <2>2. /\ history'[Now'][m.doc].version \in 1 .. Now'
          /\ \A w \in history'[Now'][m.doc].version .. Now' :
                history'[w][m.doc] = history'[Now'][m.doc]
      BY <1>4, <1>6, <2>1 DEF HistoryInv
    <2> DEFINE x == history'[Now'][m.doc].version
    <2>3. x \in x .. Now' /\ x <= Now' /\ x # 0
      BY <2>1, <2>2
    <2>4. history'[x][m.doc].version = x
      BY <2>2, <2>3
    <2> QED
      BY <2>1, <2>3, <2>4
  <1> HIDE DEF a
  <1>8. PICK x : /\ answers' = Append(answers, x)
                 /\ x.ok => /\ x.version <= x.commit /\ x.version # 0
                            /\ history'[x.version][m.doc].version = x.version
    BY <1>1, <1>7 DEF Refused
  <1>9. /\ Len(answers') = Len(answers) + 1
        /\ \A i \in 1 .. Len(answers) : answers'[i] = answers[i]
        /\ answers'[Len(answers) + 1] = x
    <2> DEFINE all == Answer \cup {x}
    <2>1. x \in all /\ \A y \in Answer : y \in all
      OBVIOUS
    <2> HIDE DEF all
    <2>2. answers \in Seq(all)
      BY <1>2, <2>1, ElementOfSeq, IsASeq, LenProperties
    <2> QED
      BY <1>2, <1>8, <2>1, <2>2, AppendProperties
  <1>10. AnswersTrue'
    <2>1. ASSUME NEW i \in 1 .. Len(answers'), answers'[i].ok
          PROVE  /\ TrueVersion(answers[i].version, queue[i].doc)'
                 /\ answers'[i].version <= answers'[i].commit
      <3>1. CASE i \in 1 .. Len(answers)
        <4>1. answers'[i] = answers[i] /\ queue'[i] = queue[i]
          BY <1>1, <1>9, <3>1
        <4> QED
          BY <1>6, <2>1, <3>1, <4>1, AnswersTyped
             DEF AnswersTrue, TrueVersion, Kept
      <3>2. CASE i = Len(answers) + 1
        <4>1. answers'[i] = x /\ queue'[i] = m
          BY <1>1, <1>9, <3>2 DEF m
        <4> QED
          BY <1>8, <2>1, <4>1 DEF TrueVersion, DocAt
      <3> QED
        BY <1>2, <1>9, <3>1, <3>2
    <2> QED
      BY <2>1 DEF AnswersTrue
  <1> QED
    BY <1>1, <1>6, <1>10, GrowthExact

LEMMA ExactInit ==
    ASSUME Init
    PROVE  ExactInv
  <1>1. /\ queue = << >> /\ answers = << >>
        /\ cache = [d \in Doc |-> NoEntry]
        /\ readTime = [d \in Doc |-> 0] /\ remoteKeys = {}
        /\ target = [token |-> 0, limboFree |-> 0, torn |-> FALSE]
        /\ saved = target /\ lastRemote = 0 /\ position = 0
        /\ view.docs = [d \in Doc |-> Absent] /\ view.mutated = {}
        /\ ~view.current /\ view.limbo = {} /\ ~view.synced
    BY DEF Init, FreshView
  <1>2. SyncedInv /\ HistoryInv
    BY SyncedInit DEF SyncedInv
  <1>3. AnswersTrue
    BY <1>1, EmptySeq DEF AnswersTrue
  <1>4. CacheTrue
    BY <1>1, <1>2, HistoryType DEF CacheTrue, TrueVersion, NoEntry
  <1>5. KeysCached
    BY <1>1, <1>2, HistoryType DEF KeysCached
  <1>6. PageInv
    BY <1>1 DEF PageInv
  <1>7. ShownInv
    <2>1. ASSUME NEW d \in Doc
          PROVE  Follows(view, d, LocalDoc(cache, queue, d))
      <3>1. cache[d].val = None /\ cache[d].val \in Value
        BY <1>1 DEF NoEntry, Value
      <3>2. queue \in Seq(Mutation) /\ Len(queue) = 0
        BY <1>1, EmptySeq
      <3>3. LocalDoc(cache, queue, d) = Cached(cache, d)
        <4>1. \A i \in 1 .. Len(queue) : queue[i].doc # d
          BY <3>2
        <4> QED
          BY <3>1, <3>2, <4>1, LocalDocUntouched
      <3>4. view.docs[d].val = None
        BY <1>1 DEF Absent
      <3> QED
        BY <3>1, <3>3, <3>4 DEF Follows, Cached, Matches
    <2>2. Marked(view)
      BY <1>1 DEF Marked, Absent
    <2> QED
      BY <2>1, <2>2 DEF ShownInv
  <1> QED
    BY <1>2, <1>3, <1>4, <1>5, <1>6, <1>7 DEF ExactInv

LEMMA ExactNext ==
    ASSUME ExactInv, [Next]_vars
    PROVE  ExactInv'
  <1>1. SyncedInv'
    BY SyncedNext DEF ExactInv
  <1>2. CASE \E d \in Doc : WriteMutations(d)
    BY <1>1, <1>2, WriteMutationsExact
  <1>3. CASE HandleSuccessfulWrite
    BY <1>1, <1>3, HandleSuccessfulWriteExact
  <1>4. CASE HandleRejectedWrite
    BY <1>1, <1>4, HandleRejectedWriteExact
  <1>5. CASE WatchSnapshot
    BY <1>1, <1>5, ApplyRemoteEventExact DEF WatchSnapshot
  <1>6. CASE \E v \in 1 .. Now : ResetTarget(v)
    BY <1>1, <1>6, ResetTargetExact
  <1>7. CASE \E d \in Doc : HandleRejectedListen(d)
    BY <1>1, <1>7, HandleRejectedListenExact
  <1>8. CASE ApplyOnlineStateChange
    BY <1>1, <1>8, ApplyOnlineStateChangeExact
  <1>9. CASE LoseAnswers
    BY <1>1, <1>9, LoseAnswersExact
  <1>10. CASE Relisten
    <2>1. Listen(target) /\ UNCHANGED <<answers, history, queue>>
      BY <1>10 DEF Relisten, Listen
    <2>2. AnswersTrue'
      BY <2>1 DEF ExactInv, AnswersTrue, TrueVersion, DocAt
    <2> QED
      BY <1>1, <2>1, <2>2, ListenExact
  <1>11. CASE Restart
    <2>1. Listen(saved) /\ answers' = << >>
      BY <1>11 DEF Restart, AnswersLost
    <2> QED
      BY <1>1, <2>1, NoAnswers, ListenExact
  <1>12. CASE Commit
    BY <1>1, <1>12, CommitExact
  <1>13. CASE \E d \in Doc : Edit(d)
    BY <1>1, <1>13, EditExact
  <1>14. CASE UNCHANGED vars
    <2>1. UNCHANGED <<history, answers, queue, cache, readTime, remoteKeys,
                      target, saved, lastRemote, position, view>>
      BY <1>14 DEF vars, server, targets
    <2>2. Kept
      BY <2>1, SyncedParts, HistoryStays DEF ExactInv
    <2>3. AnswersTrue'
      BY <2>1 DEF ExactInv, AnswersTrue, TrueVersion, DocAt
    <2> QED
      BY <1>1, <2>1, <2>2, <2>3, GrowthExact
  <1> QED
    BY <1>2, <1>3, <1>4, <1>5, <1>6, <1>7, <1>8, <1>9, <1>10, <1>11, <1>12,
       <1>13, <1>14 DEF Next

LEMMA ExactAlways == Spec => []ExactInv
  <1>1. Init => ExactInv
    BY ExactInit
  <1>2. ExactInv /\ [Next]_vars => ExactInv'
    BY ExactNext
  <1> QED
    BY <1>1, <1>2, PTL DEF Spec

-----------------------------------------------------------------------------
(* The view, kept up to date change by change, is what the query gives     *)
(* when it is run on all that is in LevelDB, but for the documents whose   *)
(* answered write the watch stream has not sent and those that the         *)
(* index-free query passed over, whatever is written, lost and restarted.  *)
THEOREM ViewFollowsCache == Spec => []ViewIsLocal
  <1>1. ASSUME ExactInv, NEW d \in Doc
        PROVE  LET local == LocalDoc(cache, queue, d)
                   shown == view.docs[d].val
               IN IF Matches(local.val)
                  THEN \/ shown = local.val
                       \/ /\ shown # None /\ d \in view.mutated
                          /\ local.flag = "committed"
                       \/ /\ shown = None
                          /\ d \notin remoteKeys \/ view.partial
                          /\ local.flag # "local"
                          /\ readTime[d] <= target.limboFree
                  ELSE shown = None
    <2>1. Follows(view, d, LocalDoc(cache, queue, d)) \/ PassedOver(d)
      BY <1>1 DEF ExactInv, ShownInv
    <2> QED
      BY <2>1 DEF Follows, PassedOver
  <1>2. ExactInv => ViewIsLocal
    BY <1>1 DEF ViewIsLocal
  <1> QED
    BY <1>2, ExactAlways, PTL

(* A snapshot that is not from the cache shows of each document what the   *)
(* server had when it last sent a snapshot, the phone's own writes apart,  *)
(* unless the page was built again after a filter that did not fit.        *)
THEOREM SyncedSnapshotsAreExact == Spec => []SyncedSnapshotIsExact
  <1>1. ASSUME ExactInv, view.synced, ~view.partial, NEW d \in Doc,
               d \notin {m.doc : m \in ToSet(queue)},
               ~(cache[d].version > lastRemote), d \notin view.mutated
        PROVE  view.docs[d].val = IF Matches(DocAt(lastRemote, d).val)
                                  THEN DocAt(lastRemote, d).val ELSE None
    <2>1. /\ HistoryInv /\ TargetsInv /\ PageInv /\ ShownInv /\ KeysCached
          /\ CacheIsHistory /\ queue \in Seq(Mutation)
          /\ \A e \in Doc : cache[e].val \in Value
      BY <1>1, SyncedParts DEF ExactInv, SyncedInv, CacheInv
    <2>2. /\ view.current /\ ~ShouldBeInLimbo(view, d)
          /\ position = lastRemote /\ target.token = lastRemote
      BY <1>1, <2>1 DEF PageInv
    <2>3. ~target.torn
      <3>1. CASE target.torn
        <4>1. target.token > 0 /\ position = 0
          BY <1>1, <2>1, <3>1 DEF TargetsInv, PageInv
        <4> QED
          BY <2>2, <4>1
      <3> QED
        BY <3>1
    <2>4. /\ remoteKeys = Matching(lastRemote) /\ view.keys = remoteKeys
          /\ lastRemote \in 0 .. Now
      BY <2>1, <2>2, <2>3 DEF TargetsInv, KeysAreOf
    <2>5. CASE d \in Matching(lastRemote)
      <3>1. lastRemote \in 1 .. Now
        BY <2>1, <2>4, <2>5, HistoryType
      <3>2. /\ DocAt(lastRemote, d).version \in 1 .. lastRemote
            /\ DocAt(DocAt(lastRemote, d).version, d) = DocAt(lastRemote, d)
        BY <2>1, <3>1, HistoryType
      <3>3. /\ cache[d].version = DocAt(lastRemote, d).version
            /\ ~cache[d].committed
        BY <1>1, <2>1, <2>2, <2>3, <2>5 DEF KeysCached, CachedAsOf
      <3>4. cache[d].val = DocAt(lastRemote, d).val
        BY <2>1, <3>2, <3>3 DEF CacheIsHistory
      <3>5. \A i \in 1 .. Len(queue) : queue[i].doc # d
        <4>1. \A i \in 1 .. Len(queue) : queue[i] \in ToSet(queue)
          BY <2>1, LenProperties DEF ToSet
        <4> QED
          BY <1>1, <4>1
      <3>6. LocalDoc(cache, queue, d) = Cached(cache, d)
        BY <2>1, <3>5, LocalDocUntouched
      <3>7. Matches(DocAt(lastRemote, d).val)
        BY <2>5 DEF Matching
      <3>8. Follows(view, d, LocalDoc(cache, queue, d))
        BY <1>1, <2>1, <2>4, <2>5 DEF ShownInv, PassedOver
      <3> QED
        BY <1>1, <3>4, <3>6, <3>7, <3>8 DEF Follows, Cached
    <2>6. CASE d \notin Matching(lastRemote)
      <3>1. ~Matches(DocAt(lastRemote, d).val)
        BY <2>6 DEF Matching
      <3>2. view.docs[d].val = None
        BY <1>1, <2>1, <2>2, <2>4, <2>6
           DEF ShouldBeInLimbo, ShownInv, Marked
      <3> QED
        BY <3>1, <3>2
    <2> QED
      BY <2>5, <2>6
  <1>2. ExactInv => SyncedSnapshotIsExact
    BY <1>1 DEF SyncedSnapshotIsExact
  <1> QED
    BY <1>2, ExactAlways, PTL
=============================================================================
