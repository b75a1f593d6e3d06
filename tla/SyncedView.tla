----------------------------- MODULE SyncedView -----------------------------
(***************************************************************************)
(* How a phone's Firestore client keeps the snapshots of one query: the    *)
(* cache of remote documents and the phone's own mutations in LevelDB      *)
(* (local/local_store.cc, local/local_documents_view.cc), the view that is *)
(* kept up to date from both (core/view.cc, core/sync_engine.cc) and the   *)
(* changes that the watch stream sends (remote/remote_event.cc).  All      *)
(* paths are under macos/Pods/FirebaseFirestore/Firestore/core/src.        *)
(*                                                                         *)
(* The query is that of the Pending tab: orders whose isServed is false.   *)
(* A mutation is an order's set() or the check mark's update() of it.  How *)
(* mutations travel is the subject of WritePipeline: here the server       *)
(* carries them out in order and its answers arrive or are lost.  Each     *)
(* handler is a task of the client's serial queue and one transaction of   *)
(* LevelDB, hence one action.  The server is not in the repository: its    *)
(* clock counts its changes, and a snapshot of the watch stream brings the *)
(* client from the version of its resume token to any later one.           *)
(* Limits, transforms, bundles and garbage collection are left out.        *)
(*                                                                         *)
(* A definition used nowhere that stands right before another one is a     *)
(* mutation of it (README.md, Mutations).                                  *)
(***************************************************************************)
EXTENDS Naturals, FiniteSets, Sequences, SequencesExt

CONSTANTS Doc,
          Content,       \* what an order may say besides isServed
          None,          \* no document
          MaxWrites,     \* bound: mutations that the phone makes
          MaxEdits,      \* bound: changes made by others
          MaxLosses,     \* bound: times that answers are lost
          MaxMismatches, \* bound: existence filters that do not fit
          MaxRejections  \* bound: limbo documents the server keeps to itself

Order == [what : Content, served : BOOLEAN]

ASSUME SyncedViewAssumption ==
    /\ None \notin Order
    /\ MaxWrites \in Nat /\ MaxEdits \in Nat /\ MaxLosses \in Nat
    /\ MaxMismatches \in Nat /\ MaxRejections \in Nat

VARIABLES
    history,     \* the server's documents after each change
    queue,       \* LevelDB: the mutations that are not answered
    answers,     \* the server's answers that are under way
    cache,       \* LevelDB: the remote documents
    readTime,    \* LevelDB: when each of them was read, at the latest
    remoteKeys,  \* LevelDB: the documents the server said match
    target,      \* resume token and last limbo-free version of the query,
                 \* and, as history, whether its keys were dropped since the
                 \* query was last listened to from zero
    saved,       \* LevelDB: the same as of when they were last written
    lastRemote,  \* LevelDB: the last snapshot of the watch stream
    position,    \* the resume token of the watch stream's target
    view,        \* the view of the query
    resolving,   \* the documents in limbo that the client asks about
    writes, edits, losses, mismatches, rejections   \* so many so far

server == <<history, answers>>
targets == <<remoteKeys, target, saved, lastRemote, position>>
bounds == <<writes, edits, losses, mismatches, rejections>>
vars == <<server, queue, cache, readTime, targets, view, resolving, bounds>>

Now == Len(history)
DocAt(v, d) == IF v = 0 THEN [val |-> None, version |-> 0] ELSE history[v][d]

Matches(val) == val # None /\ ~val.served
Matching(v) == {d \in Doc : Matches(DocAt(v, d).val)}

Served(val) == [val EXCEPT !.served = TRUE]

-----------------------------------------------------------------------------
(* Documents: the one in the cache (a version of 0 is none at all), and    *)
(* what the phone's own mutations make of it.                              *)

NoEntry == [val |-> None, version |-> 0, committed |-> FALSE]
Absent == [val |-> None, flag |-> "synced"]

ApplyToLocalView(doc, m) ==
    CASE m.kind = "set" -> [val |-> m.val, flag |-> "local"]
      [] m.kind = "update" /\ doc.val # None ->
            [val |-> Served(doc.val), flag |-> "local"]
      [] OTHER -> doc

LocalDoc(c, q, d) ==
    LET after[i \in 0 .. Len(q)] ==
            IF i = 0
            THEN [val |-> c[d].val,
                  flag |-> IF c[d].committed THEN "committed" ELSE "synced"]
            ELSE IF q[i].doc = d THEN ApplyToLocalView(after[i - 1], q[i])
            ELSE after[i - 1]
    IN after[Len(q)]

(* A mutation that the server has carried out, on the cached document.  If *)
(* the update's document is not there, the server knows one we do not.     *)
ApplyToRemoteDocumentClean(entry, m, version) ==
    [val |-> CASE m.kind = "set" -> m.val
               [] m.kind = "update" /\ entry.val # None ->
                     Served(entry.val)
               [] OTHER -> None,
     version |-> version, committed |-> FALSE]
ApplyToRemoteDocument(entry, m, version) ==
    [val |-> CASE m.kind = "set" -> m.val
               [] m.kind = "update" /\ entry.val # None ->
                     Served(entry.val)
               [] OTHER -> None,
     version |-> version, committed |-> TRUE]

-----------------------------------------------------------------------------
(* The view.                                                               *)

(* partial is history: the query was run with its keys dropped, so that    *)
(* documents that match may have been passed over.                         *)
FreshView(keys, partial) ==
    [docs |-> [d \in Doc |-> Absent], mutated |-> {}, keys |-> keys,
     current |-> FALSE, limbo |-> {}, synced |-> FALSE, partial |-> partial]

ShouldWaitForSyncedDocument(new, old) ==
    old.flag = "local" /\ new.flag = "committed"

(* The changed documents whose change the view takes over.                 *)
Applied(w, changed, local) ==
    {d \in changed :
        LET old == w.docs[d]
            new == local[d]
            pending == \/ new.flag = "local"
                       \/ d \in w.mutated /\ new.flag = "committed"
        IN IF old.val # None /\ Matches(new.val)
           THEN IF old.val # new.val
                THEN ~ShouldWaitForSyncedDocument(new, old)
                ELSE (d \in w.mutated) # pending
           ELSE old.val # None \/ Matches(new.val)}

ComputeDocumentChanges(w, applied, local) ==
    LET shown == {d \in applied : Matches(local[d].val)}
        mine  == {d \in shown : local[d].flag = "local"}
    IN [w EXCEPT !.docs = [d \in Doc |-> CASE d \in shown -> local[d]
                                           [] d \in applied \ shown -> Absent
                                           [] OTHER -> @[d]],
                 !.mutated = (@ \ applied) \cup mine]

ShouldBeInLimbo(w, d) ==
    d \notin w.keys /\ w.docs[d].val # None /\ w.docs[d].flag # "local"

UpdateLimboSyncedAnyway(w) ==
    LET limbo == IF w.current THEN {d \in Doc : ShouldBeInLimbo(w, d)}
                 ELSE w.limbo
    IN [w EXCEPT !.limbo = limbo, !.synced = w.current]
UpdateLimboDocuments(w) ==
    LET limbo == IF w.current THEN {d \in Doc : ShouldBeInLimbo(w, d)}
                 ELSE w.limbo
    IN [w EXCEPT !.limbo = limbo, !.synced = w.current /\ limbo = {}]

(* What a handler does once it knows the changed documents and what the    *)
(* watch stream says of the target (its keys, whether it is current, its   *)
(* data): the view, the limbo documents to ask about, and, if the app is   *)
(* given a snapshot that is not from the cache, the limbo-free version.    *)
(* The handler has set cache' and queue'.                                  *)
NoChange == [keys |-> view.keys, current |-> view.current, data |-> target]

EmitNewSnapshots(changed, change, asked) ==
    LET local   == [d \in changed |-> LocalDoc(cache', queue', d)]
        applied == Applied(view, changed, local)
        new     == UpdateLimboDocuments(
                       [ComputeDocumentChanges(view, applied, local)
                           EXCEPT !.keys = change.keys,
                                  !.current = change.current])
        emitted == applied # {} \/ new.synced # view.synced
    IN /\ view' = new
       /\ resolving' = (asked \ (view.limbo \ new.limbo))
                          \cup (new.limbo \ view.limbo)
       /\ target' = IF emitted /\ new.synced
                    THEN [change.data EXCEPT !.limboFree = change.data.token]
                    ELSE change.data

-----------------------------------------------------------------------------
(* A query is run when its listener starts.  The documents it looks at are *)
(* those that matched before, those read since the last limbo-free         *)
(* snapshot, and those with mutations.                                     *)
ConsideredUnread(since) ==
    IF since = 0 THEN Doc
    ELSE remoteKeys \cup {m.doc : m \in ToSet(queue)}
Considered(since) ==
    IF since = 0 THEN Doc
    ELSE remoteKeys \cup {d \in Doc : readTime[d] > since}
             \cup {m.doc : m \in ToSet(queue)}

InitializeView(data) ==
    LET found == [d \in Considered(data.limboFree) |->
                     LocalDoc(cache, queue, d)]
        w == FreshView(remoteKeys, data.torn)
    IN ComputeDocumentChanges(w, Applied(w, DOMAIN found, found), found)

Init ==
    /\ \E f \in [Doc -> Order \cup {None}] :
          history = <<[d \in Doc |-> [val |-> f[d], version |-> 1]]>>
    /\ queue = << >> /\ answers = << >>
    /\ cache = [d \in Doc |-> NoEntry]
    /\ readTime = [d \in Doc |-> 0]
    /\ remoteKeys = {}
    /\ target = [token |-> 0, limboFree |-> 0, torn |-> FALSE]
    /\ saved = target
    /\ lastRemote = 0 /\ position = 0
    /\ view = FreshView({}, FALSE) /\ resolving = {}
    /\ writes = 0 /\ edits = 0 /\ losses = 0
    /\ mismatches = 0 /\ rejections = 0

-----------------------------------------------------------------------------
(* The app writes.                                                         *)
WriteMutations(d) ==
    /\ writes < MaxWrites
    /\ writes' = writes + 1
    /\ \E m \in [doc : {d}, kind : {"set"},
                 val : {o \in Order : ~o.served}]
                \cup {[doc |-> d, kind |-> "update", val |-> None]} :
          queue' = Append(queue, m)
    /\ UNCHANGED <<server, cache, readTime, remoteKeys, saved, lastRemote,
                   position, edits, losses, mismatches, rejections>>
    /\ EmitNewSnapshots({d}, NoChange, resolving)

(* An answer to the oldest mutation.                                       *)
HandleSuccessfulWrite ==
    /\ answers # << >> /\ Head(answers).ok
    /\ LET m == Head(queue)
           d == m.doc
           v == Head(answers).version
       IN /\ IF cache[d].version < v
             THEN /\ cache' = [cache EXCEPT ![d] =
                                   ApplyToRemoteDocument(@, m, v)]
                  /\ readTime' = [readTime EXCEPT ![d] =
                                   Max({@, Head(answers).commit})]
             ELSE UNCHANGED <<cache, readTime>>
          /\ queue' = Tail(queue) /\ answers' = Tail(answers)
          /\ UNCHANGED <<history, remoteKeys, saved, lastRemote, position,
                         bounds>>
          /\ EmitNewSnapshots({d}, NoChange, resolving)

HandleRejectedWrite ==
    /\ answers # << >> /\ ~Head(answers).ok
    /\ queue' = Tail(queue) /\ answers' = Tail(answers)
    /\ UNCHANGED <<history, cache, readTime, remoteKeys, saved, lastRemote,
                   position, bounds>>
    /\ EmitNewSnapshots({Head(queue).doc}, NoChange, resolving)

-----------------------------------------------------------------------------
(* A snapshot of the watch stream at version v.  sent[d] is the version at *)
(* which document d is sent, 0 if it is not.  A document that left the     *)
(* query comes as it is now or only as removed; one that was in it only    *)
(* between the two versions may come as it was then, as it is, or not.     *)
Sendable(d, v) ==
    LET between == {u \in position + 1 .. v - 1 :
                       position > 0 /\ d \in Matching(u)}
    IN CASE d \in Matching(v) ->
                {IF DocAt(position, d) = DocAt(v, d) THEN 0 ELSE v}
         [] d \in Matching(position) \ Matching(v) -> {0, v}
         [] OTHER -> IF between = {} THEN {0} ELSE between \cup {0, v}

Sent(v, limbo) ==
    {s \in [Doc -> 0 .. v] :
        \A d \in Doc : s[d] \in (IF d \in limbo THEN {v} ELSE Sendable(d, v))}

(* A document that is not there is sent as deleted, as of the snapshot.    *)
Update(s, d) == LET doc == DocAt(s[d], d) IN
    [val |-> doc.val, committed |-> FALSE,
     version |-> IF doc.val = None THEN s[d] ELSE doc.version]

(* The updates the cache takes: what is older than it has is left.         *)
AcceptedAny(s) == {d \in Doc : s[d] # 0}
AcceptedNewer(s) ==
    {d \in Doc : s[d] # 0 /\ (\/ cache[d].version = 0
                             \/ Update(s, d).version > cache[d].version)}
Accepted(s) ==
    {d \in Doc : /\ s[d] # 0
                 /\ \/ cache[d].version = 0
                    \/ Update(s, d).version > cache[d].version
                    \/ /\ Update(s, d).version = cache[d].version
                       /\ cache[d].committed}

PopulateDocumentChanges(s, v) ==
    /\ cache' = [d \in Doc |-> IF d \in Accepted(s) THEN Update(s, d)
                               ELSE cache[d]]
    /\ readTime' = [d \in Doc |-> IF d \in Accepted(s)
                                  THEN Max({readTime[d], v}) ELSE readTime[d]]

(* A resume token is not worth a write to LevelDB if nothing has changed,  *)
(* unless the last one is old.                                             *)
ShouldPersistOldTargetData(changes, old) == target.token = 0 \/ old
ShouldPersistTargetData(changes, old) ==
    target.token = 0 \/ changes # {} \/ old

(* touched is what the query's own target is sent: the answer about a      *)
(* document in limbo comes on a target of its own and adds no key here.    *)
ApplyRemoteEvent(v, limbo) ==
    /\ v \in Max({lastRemote, 1}) .. Now /\ v >= position
    /\ lastRemote' = v /\ position' = v
    /\ \E s \in Sent(v, limbo), old \in BOOLEAN :
         LET touched == {d \in Matching(v) : DocAt(position, d) # DocAt(v, d)}
             removed == (Matching(position) \ Matching(v)) \cap view.keys
             data    == [target EXCEPT !.token = v,
                                       !.torn = @ /\ position > 0]
         IN /\ PopulateDocumentChanges(s, v)
            /\ remoteKeys' = (remoteKeys \ removed) \cup touched
            /\ saved' = IF ShouldPersistTargetData(touched \cup removed, old)
                        THEN data ELSE saved
            /\ UNCHANGED <<server, queue, bounds>>
            /\ EmitNewSnapshots(Accepted(s),
                   [keys |-> (view.keys \ removed) \cup touched,
                    current |-> TRUE, data |-> data], resolving)

(* The server does not send what has left the query but how many documents *)
(* match.  If the client counts otherwise it drops the keys, takes over    *)
(* the snapshot's resume token, and listens again without one.             *)
ResetTarget(v) ==
    /\ mismatches < MaxMismatches
    /\ position > 0 /\ v \in lastRemote .. Now
    /\ \E s \in Sent(v, {}), old \in BOOLEAN :
         LET data == [target EXCEPT !.token = v, !.torn = TRUE]
         IN /\ \A d \in Doc \ Matching(v) : s[d] = 0
            /\ view.keys \cup {d \in Doc : s[d] # 0} # Matching(v)
            /\ PopulateDocumentChanges(s, v)
            /\ lastRemote' = v /\ position' = 0
            /\ mismatches' = mismatches + 1
            /\ remoteKeys' = remoteKeys \ view.keys
            /\ saved' = IF ShouldPersistTargetData(view.keys, old)
                        THEN data ELSE saved
            /\ UNCHANGED <<server, queue, writes, edits, losses, rejections>>
            /\ EmitNewSnapshots(Accepted(s),
                   [keys |-> {}, current |-> FALSE, data |-> data], resolving)

(* The server will not say what a limbo document is: the client forgets it.*)
HandleRejectedListen(d) ==
    /\ d \in resolving /\ rejections < MaxRejections
    /\ rejections' = rejections + 1
    /\ cache' = [cache EXCEPT ![d] = NoEntry]
    /\ UNCHANGED <<server, queue, readTime, remoteKeys, saved, lastRemote,
                   position, writes, edits, losses, mismatches>>
    /\ EmitNewSnapshots({d}, NoChange, resolving \ {d})

-----------------------------------------------------------------------------
(* The connection is given up for now: snapshots are from the cache.       *)
ApplyOnlineStateChange ==
    /\ view.current
    /\ view' = [view EXCEPT !.current = FALSE, !.synced = FALSE]
    /\ UNCHANGED <<server, queue, cache, readTime, targets, resolving, bounds>>

(* The answers under way are lost, so that the mutations are sent again.   *)
AnswersLost ==
    /\ answers' = << >>
    /\ losses' = IF answers = << >> THEN losses ELSE losses + 1
    /\ losses' <= MaxLosses
    /\ UNCHANGED <<writes, edits, mismatches, rejections>>

(* The connection breaks and is back.                                      *)
LoseAnswers ==
    /\ answers # << >> /\ AnswersLost
    /\ UNCHANGED <<history, queue, cache, readTime, targets, view, resolving>>

(* A query is listened to from what LevelDB has of it.                     *)
ListenKeepsLimbo(data) ==
    /\ target' = data /\ saved' = data
    /\ position' = data.token
    /\ view' = InitializeView(data)
    /\ UNCHANGED <<history, queue, cache, readTime, remoteKeys, lastRemote,
                   resolving>>
Listen(data) ==
    /\ target' = data /\ saved' = data
    /\ position' = data.token
    /\ view' = InitializeView(data)
    /\ resolving' = {}
    /\ UNCHANGED <<history, queue, cache, readTime, remoteKeys, lastRemote>>

(* The page is built again: releasing the target saves what is in memory.  *)
Relisten == Listen(target) /\ UNCHANGED <<answers, bounds>>

(* The process is killed and started again.                                *)
Restart == Listen(saved) /\ AnswersLost

-----------------------------------------------------------------------------
(* The server.                                                             *)

Changed(d, val) ==
    Append(history, [history[Now] EXCEPT ![d] = [val |-> val,
                                                 version |-> Now + 1]])

Refused == [ok |-> FALSE, version |-> 0, commit |-> 0]

(* It carries out the next mutation it has not answered.  One that changes *)
(* nothing keeps the document's version; an update of no document fails,   *)
(* and with it the stream.                                                 *)
Commit ==
    /\ Len(answers) < Len(queue)
    /\ answers # << >> => Last(answers).ok
    /\ LET m   == queue[Len(answers) + 1]
           old == DocAt(Now, m.doc)
           new == IF m.kind = "set" THEN m.val ELSE Served(old.val)
       IN IF m.kind = "update" /\ old.val = None
          THEN /\ answers' = Append(answers, Refused)
               /\ UNCHANGED history
          ELSE /\ history' = IF new = old.val THEN history
                             ELSE Changed(m.doc, new)
               /\ answers' = Append(answers,
                     [ok |-> TRUE, commit |-> Len(history'),
                      version |-> history'[Len(history')][m.doc].version])
    /\ UNCHANGED <<queue, cache, readTime, targets, view, resolving,
                   bounds>>

Edit(d) ==
    /\ edits < MaxEdits
    /\ edits' = edits + 1
    /\ \E val \in (Order \cup {None}) \ {DocAt(Now, d).val} :
          history' = Changed(d, val)
    /\ UNCHANGED <<answers, queue, cache, readTime, targets, view, resolving,
                   writes, losses, mismatches, rejections>>

-----------------------------------------------------------------------------
WatchSnapshot ==
    \E v \in 1 .. Now, limbo \in SUBSET resolving : ApplyRemoteEvent(v, limbo)

(* The snapshot the server gets to in the end.                             *)
WatchCatchesUp == ApplyRemoteEvent(Now, resolving)

Next ==
    \/ \E d \in Doc : WriteMutations(d)
    \/ HandleSuccessfulWrite \/ HandleRejectedWrite
    \/ WatchSnapshot
    \/ \E v \in 1 .. Now : ResetTarget(v)
    \/ \E d \in Doc : HandleRejectedListen(d)
    \/ ApplyOnlineStateChange \/ LoseAnswers \/ Relisten \/ Restart
    \/ Commit \/ \E d \in Doc : Edit(d)

Spec == Init /\ [][Next]_vars

(* The client handles every answer, and the server answers and sends its   *)
(* newest snapshot.  Nobody has to write, edit, leave or come back.        *)
FairSpec == /\ Spec
            /\ WF_vars(Commit) /\ WF_vars(WatchCatchesUp)
            /\ WF_vars(HandleSuccessfulWrite) /\ WF_vars(HandleRejectedWrite)

-----------------------------------------------------------------------------
(* Properties.                                                             *)

(* Every variable has its type, the server is asked only about documents   *)
(* in limbo, and LevelDB never knows more of the query than memory.        *)
TypeOK ==
    /\ history \in Seq([Doc -> [val : Order \cup {None}, version : Nat]])
    /\ queue \in Seq([doc : Doc, kind : {"set", "update"},
                      val : Order \cup {None}])
    /\ answers \in Seq([ok : BOOLEAN, version : Nat, commit : Nat])
    /\ Len(answers) <= Len(queue)
    /\ cache \in [Doc -> [val : Order \cup {None}, version : 0 .. Now,
                          committed : BOOLEAN]]
    /\ readTime \in [Doc -> 0 .. Now]
    /\ remoteKeys \subseteq Doc /\ resolving \subseteq view.limbo
    /\ {target, saved} \subseteq [token : 0 .. Now, limboFree : 0 .. Now,
                                torn : BOOLEAN]
    /\ saved.token <= target.token /\ saved.limboFree <= target.limboFree
    /\ lastRemote \in 0 .. Now /\ position \in 0 .. Now
    /\ view \in [docs : [Doc -> [val : Order \cup {None},
                                 flag : {"synced", "committed", "local"}]],
                 mutated : SUBSET Doc, keys : SUBSET Doc, current : BOOLEAN,
                 limbo : SUBSET Doc, synced : BOOLEAN, partial : BOOLEAN]
    /\ writes \in Nat /\ edits \in Nat /\ losses \in Nat
    /\ mismatches \in Nat /\ rejections \in Nat

(* The view, kept up to date change by change, is what the query gives     *)
(* when it is run on all that is in LevelDB, except that a document whose  *)
(* write was answered may show the phone's own version until the watch     *)
(* stream sends it, and that the index-free query may have passed over a   *)
(* document that was not among the target's keys.  The server sends it, if *)
(* it matches, unless the keys had been dropped: then it may become one of *)
(* the keys without its coming to the view, as it is no news to the cache. *)
ViewIsLocal ==
    \A d \in Doc :
        LET local == LocalDoc(cache, queue, d)
            shown == view.docs[d].val
        IN IF Matches(local.val)
           THEN \/ shown = local.val
                \/ /\ shown # None /\ d \in view.mutated
                   /\ local.flag = "committed"
                \/ /\ shown = None /\ (d \notin remoteKeys \/ view.partial)
                   /\ local.flag # "local" /\ readTime[d] <= target.limboFree
           ELSE shown = None

(* A snapshot that is not from the cache shows of each document what the   *)
(* server had when it last sent a snapshot, its own writes apart, unless   *)
(* the page was built again between a filter that did not fit and the      *)
(* listening from zero that makes up for it.                               *)
SyncedSnapshotIsExact ==
    view.synced /\ ~view.partial =>
        \A d \in Doc :
            LET then == DocAt(lastRemote, d).val IN
            \/ view.docs[d].val = IF Matches(then) THEN then ELSE None
            \/ d \in {m.doc : m \in ToSet(queue)}
            \/ cache[d].version > lastRemote
            \/ d \in view.mutated

KeysAreOf(t) == remoteKeys = Matching(t.token)

(* The keys in LevelDB are those that matched at the version of the resume *)
(* token, in memory and in LevelDB, though the token is not always         *)
(* written, except after a filter that did not fit.                        *)
KeysMatchToken ==
    /\ view.keys = remoteKeys
    /\ \A t \in {target, saved} : t.torn \/ KeysAreOf(t)

(* "This ensures that we persist the updated target data along with the    *)
(* updated assignment" (local_store.cc:269-271): also then, the keys in    *)
(* LevelDB go with the resume token next to them.                          *)
SavedWithItsKeys == KeysAreOf(saved)

(* A cached document without unconfirmed changes is one the server had.    *)
CacheIsHistory ==
    \A d \in Doc : cache[d].version # 0 /\ ~cache[d].committed =>
        cache[d].val = DocAt(cache[d].version, d).val

(* Whatever order answers and snapshots come in, what the phone has of a   *)
(* document is never replaced by what the server had before, so that no    *)
(* acknowledged write is undone on the screen.                             *)
NeverGoesBack ==
    [][\A d \in Doc : \/ cache'[d].version >= cache[d].version
                      \/ cache'[d] = NoEntry /\ d \in resolving]_vars

RightlyShown(d) ==
    LET now == DocAt(Now, d).val
    IN view.docs[d].val = IF Matches(now) THEN now ELSE None

(* From some time on nobody writes, edits or leaves, and nothing fails.    *)
Undisturbed ==
    <>[][WatchSnapshot \/ HandleSuccessfulWrite \/ HandleRejectedWrite
           \/ Commit]_vars

(* Once nothing changes any more every mutation is answered and the app    *)
(* has a snapshot that is not from the cache and shows what the server     *)
(* has, none of it as pending; but what is shown as pending may stay.      *)
Converges ==
    Undisturbed =>
        <>[](/\ queue = << >> /\ view.synced
             /\ \A d \in Doc : \/ RightlyShown(d) /\ d \notin view.mutated
                              \/ d \in view.mutated \ Matching(Now))
=============================================================================
