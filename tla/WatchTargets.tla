---------------------------- MODULE WatchTargets ----------------------------
(***************************************************************************)
(* How a phone's Firestore client listens: the targets that RemoteStore    *)
(* asks for on the watch stream (remote/remote_store.cc), the aggregator   *)
(* that gathers the stream's messages into snapshots and counts the        *)
(* answers that are due (remote/remote_event.cc), and the online state     *)
(* that decides how long the app waits for the first snapshot of a query   *)
(* (remote/online_state_tracker.cc, core/query_listener.cc).  All paths    *)
(* are under macos/Pods/FirebaseFirestore/Firestore/core/src.              *)
(*                                                                         *)
(* A target is one query of the app; SyncedView has what becomes of the    *)
(* documents of one, and asks about its limbo documents.  Here only which  *)
(* documents match is kept, and a view has documents if its target has.    *)
(* Every handler is a task of the client's serial queue.  The server is    *)
(* not in the repository: it takes requests in order, acknowledges each,   *)
(* and sends in one go what brings its targets to a consistent version,    *)
(* with a resume token for all of them.                                    *)
(*                                                                         *)
(* A definition used nowhere that stands right before another one is a     *)
(* mutation of it (README.md, Mutations).                                  *)
(***************************************************************************)
EXTENDS Naturals, Integers, FiniteSets, Sequences, SequencesExt, Stream

CONSTANTS Target, Doc,
          MaxListens,   \* bound: times that a query is listened to
          MaxEdits,     \* bound: changes of what matches
          MaxBreaks,    \* bound: failures and restarts of the stream
          MaxResets,    \* bound: filters and resets that the server sends
          MaxRefusals   \* bound: listens that the server refuses

ASSUME WatchTargetsAssumption ==
    /\ {MaxListens, MaxEdits, MaxBreaks, MaxResets, MaxRefusals} \subseteq Nat
    /\ IsFiniteSet(Target) /\ IsFiniteSet(Doc)

VARIABLES
    history,    \* which documents match each target, after each change
    enabled,    \* is_network_enabled_
    stream,     \* the watch stream and its timers
    up, down,   \* requests and messages that are under way
    serving,    \* what the server has sent of each target on this stream
    listening,  \* listen_targets_
    held,       \* the resume tokens in listen_targets_
    states,     \* target_states_ of the aggregator
    resets,     \* pending_target_resets_
    lastRemote, \* LocalStore: the last snapshot
    keys,       \* LocalStore and view: the documents of each target
    token,      \* LocalStore: the resume token of each target
    current,    \* per target, whether its view is current
    shown,      \* the targets whose listener had its first snapshot
    online,     \* the online state
    failed,     \* watch_stream_failures_ > 0
    timer,      \* online_state_timer_
    since, torn, hurried, miscounted,            \* history, see Properties
    listens, edits, breaks, serverResets, refusals   \* so many so far

serverVars == <<history, serving>>
streamVars == <<enabled, stream>>
storeVars == <<lastRemote, keys, token>>
onlineVars == <<online, failed, timer>>
viewVars == <<current, shown>>
targetVars == <<listening, held, states, resets>>
pastVars == <<since, torn, hurried, miscounted>>
bounds == <<listens, edits, breaks, serverResets, refusals>>
vars == <<serverVars, streamVars, up, down, storeVars, onlineVars, viewVars,
          targetVars, pastVars, bounds>>

Now == Len(history)
Matching(t, v) == IF v = 0 THEN {} ELSE history[v][t]

NoState == [out |-> 0, added |-> {}, removed |-> {}, current |-> FALSE]

(* Target states are made when they are asked for (EnsureTargetState).     *)
State(t) == IF t \in DOMAIN states THEN states[t] ELSE NoState
Put(t, state) == [x \in DOMAIN states \cup {t} |->
                     IF x = t THEN state ELSE states[x]]
RemoveTarget(t) == Restrict(states, DOMAIN states \ {t})
RecordFirstRequest(t) == Put(t, [State(t) EXCEPT !.out = 1])
RecordRequest(t) == Put(t, [State(t) EXCEPT !.out = @ + 1])

Unserved == [t \in Target |-> [on |-> FALSE, at |-> 0, caught |-> FALSE]]

Watch(t, v) == [kind |-> "watch", target |-> t, v |-> v]
Unwatch(t) == [kind |-> "unwatch", target |-> t, v |-> 0]

(* A message about some targets, or about all of them if there are none.   *)
Message(kind, ts) == [kind |-> kind, targets |-> ts, add |-> {},
                      remove |-> {}, v |-> 0]

\* One request or message for each target of a set.
ForEach(ts, Sent(_)) ==
    [i \in 1 .. Cardinality(ts) |-> Sent(SetToSeq(ts)[i])]

Init ==
    /\ history \in {<<f>> : f \in [Target -> SUBSET Doc]}
    /\ enabled = TRUE /\ stream = IdleStream
    /\ up = << >> /\ down = << >> /\ serving = Unserved
    /\ listening = {} /\ held = [t \in Target |-> 0]
    /\ states = << >> /\ resets = {}
    /\ lastRemote = 0
    /\ keys = [t \in Target |-> {}] /\ token = [t \in Target |-> 0]
    /\ current = [t \in Target |-> FALSE] /\ shown = {}
    /\ online = "Unknown" /\ failed = FALSE /\ timer = FALSE
    /\ since = [t \in Target |-> 0]
    /\ torn = {} /\ hurried = {} /\ miscounted = {}
    /\ listens = 0 /\ edits = 0 /\ breaks = 0
    /\ serverResets = 0 /\ refusals = 0

-----------------------------------------------------------------------------
(* The online state.  When it becomes Offline the views are no longer      *)
(* current, and listeners that had nothing yet get what there is.          *)

SetAndBroadcast(state) ==
    /\ online' = state
    /\ IF state = "Offline" /\ online # "Offline"
       THEN current' = [t \in Target |-> FALSE] /\ shown' = listening
       ELSE UNCHANGED viewVars

UpdateState(state) ==
    /\ SetAndBroadcast(state)
    /\ timer' = FALSE /\ failed' = FALSE

(* The backend has not answered for ten seconds.                           *)
OnlineStateTimeout ==
    /\ timer
    /\ SetAndBroadcast("Offline") /\ timer' = FALSE
    /\ UNCHANGED <<serverVars, streamVars, up, down, storeVars, failed,
                   targetVars, pastVars, bounds>>

-----------------------------------------------------------------------------
(* The stream starts with a new aggregator, and everything that was under  *)
(* way on the one before is gone.                                          *)

NewStream ==
    /\ states' = << >> /\ resets' = {} /\ miscounted' = {}
    /\ up' = << >> /\ down' = << >> /\ serving' = Unserved

(* HandleWatchStreamStart, after a graceful end or none.                   *)
StartOrUnknown(s, starts) ==
    /\ stream' = IF starts THEN Start(s) ELSE s
    /\ online' = "Unknown" /\ failed' = FALSE /\ timer' = starts
    /\ UNCHANGED viewVars

HandleWatchStreamFailureKeepsTimer ==
    /\ stream' = Start(Close(stream, "Error"))
    /\ IF online = "Online"
       THEN /\ online' = "Unknown" /\ timer' = TRUE
            /\ UNCHANGED <<failed, viewVars>>
       ELSE SetAndBroadcast("Offline") /\ failed' = TRUE /\ UNCHANGED timer
HandleWatchStreamFailure ==
    /\ stream' = Start(Close(stream, "Error"))
    /\ IF online = "Online"
       THEN /\ online' = "Unknown" /\ timer' = TRUE
            /\ UNCHANGED <<failed, viewVars>>
       ELSE SetAndBroadcast("Offline") /\ failed' = TRUE /\ timer' = FALSE

(* The call fails, or no token is to be had.                               *)
OnWatchStreamClose ==
    /\ IsOpen(stream) \/ stream.credentials
    /\ breaks < MaxBreaks /\ breaks' = breaks + 1
    /\ NewStream
    /\ IF listening # {} THEN HandleWatchStreamFailure
       ELSE stream' = Close(stream, "Error") /\ UpdateState("Unknown")
    /\ UNCHANGED <<history, enabled, storeVars, listening, held, since, torn,
                   hurried, listens, edits, serverResets, refusals>>

IdleTimeout ==
    /\ stream.idle
    /\ NewStream
    /\ StartOrUnknown(Close(stream, "Initial"), FALSE)
    /\ UNCHANGED <<history, enabled, storeVars, listening, held, since, torn,
                   hurried, bounds>>

(* The watches that are restored when the stream opens.                    *)
RestoredNever == << >>
Restored == ForEach(listening, LAMBDA t : Watch(t, held[t]))

ResumeStartWithCredentials ==
    /\ stream.credentials
    /\ stream' = Opened(stream)
    /\ up' = Restored
    /\ states' = [t \in listening |-> [NoState EXCEPT !.out = 1]]
    /\ UNCHANGED <<serverVars, enabled, down, storeVars, onlineVars, viewVars,
                   listening, held, resets, pastVars, bounds>>

BackoffElapsed ==
    /\ stream.retry
    /\ stream' = Retried(stream)
    /\ UNCHANGED <<serverVars, enabled, up, down, storeVars, onlineVars,
                   viewVars, targetVars, pastVars, bounds>>

(* The network is back or the user's token was renewed.                    *)
RestartNetwork ==
    /\ enabled
    /\ breaks < MaxBreaks /\ breaks' = breaks + 1
    /\ NewStream
    /\ StartOrUnknown(IdleStream, listening # {})
    /\ UNCHANGED <<history, enabled, storeVars, listening, held, since, torn,
                   hurried, listens, edits, serverResets, refusals>>

DisableNetwork ==
    /\ enabled
    /\ breaks < MaxBreaks /\ breaks' = breaks + 1
    /\ enabled' = FALSE
    /\ NewStream
    /\ stream' = IF IsStarted(stream) THEN Close(stream, "Initial") ELSE stream
    /\ UpdateState("Offline")
    /\ UNCHANGED <<history, storeVars, listening, held, since, torn, hurried,
                   listens, edits, serverResets, refusals>>

EnableNetwork ==
    /\ ~enabled
    /\ enabled' = TRUE
    /\ StartOrUnknown(stream, listening # {})
    /\ UNCHANGED <<serverVars, up, down, storeVars, targetVars, pastVars,
                   bounds>>

-----------------------------------------------------------------------------
(* The app listens to a query and stops listening.                         *)

Listen(t) ==
    /\ t \notin listening /\ listens < MaxListens
    /\ listens' = listens + 1
    /\ listening' = listening \cup {t}
    /\ held' = [held EXCEPT ![t] = token[t]]
    /\ current' = [current EXCEPT ![t] = FALSE]
    /\ shown' = IF keys[t] # {} \/ online = "Offline" THEN shown \cup {t}
                ELSE shown
    /\ since' = [since EXCEPT ![t] = Now]
    /\ hurried' = IF IsOpen(stream) /\ State(t).current THEN hurried \cup {t}
                  ELSE hurried \ {t}
    /\ IF enabled /\ ~IsStarted(stream)
       THEN /\ stream' = Start(stream)
            /\ online' = "Unknown" /\ timer' = TRUE
            /\ UNCHANGED <<up, states>>
       ELSE IF IsOpen(stream)
       THEN /\ up' = Append(up, Watch(t, token[t]))
            /\ states' = RecordRequest(t)
            /\ stream' = [stream EXCEPT !.idle = FALSE]
            /\ UNCHANGED <<online, timer>>
       ELSE UNCHANGED <<up, states, stream, online, timer>>
    /\ UNCHANGED <<serverVars, enabled, down, storeVars, failed, resets, torn,
                   miscounted, edits, breaks, serverResets, refusals>>

DropKeepsView(t) == listening' = listening \ {t} /\ UNCHANGED viewVars
Drop(t) ==
    /\ listening' = listening \ {t}
    /\ current' = [current EXCEPT ![t] = FALSE] /\ shown' = shown \ {t}

StopListening(t) ==
    /\ t \in listening
    /\ Drop(t)
    /\ IF IsOpen(stream)
       THEN /\ up' = Append(up, Unwatch(t))
            /\ states' = RecordRequest(t)
            /\ stream' = [stream EXCEPT !.idle = listening' = {}]
       ELSE UNCHANGED <<up, states, stream>>
    /\ IF listening' = {} /\ ~IsOpen(stream) /\ enabled
       THEN online' = "Unknown" /\ timer' = FALSE /\ failed' = FALSE
       ELSE UNCHANGED onlineVars
    /\ UNCHANGED <<serverVars, enabled, down, storeVars, held, resets,
                   pastVars, bounds>>

-----------------------------------------------------------------------------
(* Messages of the watch stream, each of which shows that it is online.    *)

OnWatchStreamChange(kind) ==
    /\ IsOpen(stream) /\ down # << >> /\ Head(down).kind = kind
    /\ down' = Tail(down)
    /\ online' = "Online" /\ timer' = FALSE /\ failed' = FALSE
    /\ UNCHANGED <<serverVars, streamVars, since, bounds>>

About == CHOOSE t \in Head(down).targets : TRUE

IsListenedTo(t) == t \in listening
IsActiveTarget(t) == t \in listening /\ State(t).out = 0

(* Only the target's state changes, and only if the target is active.      *)
IfActive(state) ==
    /\ states' = IF IsActiveTarget(About) THEN Put(About, state) ELSE states
    /\ UNCHANGED <<up, listening, held, storeVars, viewVars, torn, hurried,
                   miscounted>>

HandleAddedKeepsChanges ==
    /\ OnWatchStreamChange("added")
    /\ states' = Put(About, [State(About) EXCEPT !.out = @ - 1])
    /\ UNCHANGED <<up, listening, held, resets, storeVars, viewVars, torn,
                   hurried, miscounted>>
HandleAdded ==
    /\ OnWatchStreamChange("added")
    /\ states' = Put(About,
           IF State(About).out = 1
           THEN [NoState EXCEPT !.current = State(About).current]
           ELSE [State(About) EXCEPT !.out = @ - 1])
    /\ UNCHANGED <<up, listening, held, resets, storeVars, viewVars, torn,
                   hurried, miscounted>>

HandleRemoved ==
    /\ OnWatchStreamChange("removed")
    /\ states' = IF State(About).out = 1 THEN RemoveTarget(About)
                 ELSE Put(About, [State(About) EXCEPT !.out = @ - 1])
    /\ UNCHANGED <<up, listening, held, resets, storeVars, viewVars, torn,
                   hurried, miscounted>>

HandleCurrent ==
    /\ OnWatchStreamChange("current")
    /\ IfActive([State(About) EXCEPT !.current = TRUE])
    /\ UNCHANGED resets

HandleDocumentChange ==
    /\ OnWatchStreamChange("docs")
    /\ LET m == Head(down)
           own == keys[About]
       IN IfActive([State(About) EXCEPT
              !.added = (@ \cup (m.add \ own)) \ m.remove,
              !.removed = (@ \ m.add) \cup (m.remove \cap own)])
    /\ UNCHANGED resets

(* All of the target's documents are taken to be removed.                  *)
ResetState(t) == [NoState EXCEPT !.removed = keys[t]]

HandleReset ==
    /\ OnWatchStreamChange("reset")
    /\ IfActive(ResetState(About))
    /\ UNCHANGED resets

DocumentCount(t) == Cardinality(keys[t]) + Cardinality(State(t).added)
                        - Cardinality(State(t).removed)

HandleExistenceFilter ==
    /\ OnWatchStreamChange("filter")
    /\ LET fits == DocumentCount(About) = Head(down).v
       IN /\ IfActive(IF fits THEN State(About) ELSE ResetState(About))
          /\ resets' = IF IsActiveTarget(About) /\ ~fits
                       THEN resets \cup {About} ELSE resets

(* A snapshot of all targets: what was gathered of the active ones is      *)
(* taken over, and those whose count did not fit are listened to from      *)
(* zero, in RemoteStore alone.                                             *)
IgnoreSnapshot ==
    /\ OnWatchStreamChange("snapshot")
    /\ Head(down).v < lastRemote
    /\ UNCHANGED <<up, targetVars, storeVars, viewVars, torn, hurried,
                   miscounted>>

RaiseWatchSnapshot ==
    LET v == Head(down).v
        active == {t \in DOMAIN states : IsActiveTarget(t)}
        again  == resets \cap listening
        whole  == {t \in active : held[t] = 0 /\ keys[t] = {}}
    IN /\ OnWatchStreamChange("snapshot")
       /\ v >= lastRemote /\ lastRemote' = v
       /\ keys' = [t \in Target |->
                      IF t \in active
                      THEN (keys[t] \ states[t].removed) \cup states[t].added
                      ELSE keys[t]]
       /\ token' = [t \in Target |-> IF t \in active THEN v ELSE token[t]]
       /\ current' = [t \in Target |-> IF t \in active THEN states[t].current
                                       ELSE current[t]]
       /\ shown' = shown \cup {t \in active : current'[t] \/ keys'[t] # {}}
       /\ held' = [t \in Target |-> CASE t \in again -> 0
                                      [] t \in active \ again -> v
                                      [] OTHER -> held[t]]
       /\ up' = up \o [i \in 1 .. 2 * Cardinality(again) |->
                           LET t == SetToSeq(again)[(i + 1) \div 2]
                           IN IF i % 2 = 1 THEN Unwatch(t) ELSE Watch(t, 0)]
       /\ states' = [t \in DOMAIN states |->
              LET st == IF t \in active
                        THEN [states[t] EXCEPT !.added = {}, !.removed = {}]
                        ELSE states[t]
              IN IF t \in again THEN [st EXCEPT !.out = @ + 2] ELSE st]
       /\ resets' = {}
       /\ torn' = (torn \ whole) \cup again \cup (active \cap miscounted)
       /\ hurried' = hurried \cup (active \cap miscounted)
       /\ UNCHANGED <<listening, miscounted>>

(* The server refuses a query: its listener gets an error.                 *)
ProcessTargetError ==
    /\ OnWatchStreamChange("refused")
    /\ miscounted' = IF About \in listening /\ State(About).out = 1
                     THEN miscounted ELSE miscounted \cup {About}
    /\ IF About \in listening
       THEN Drop(About) /\ states' = RemoveTarget(About)
       ELSE UNCHANGED <<listening, states, viewVars>>
    /\ UNCHANGED <<up, held, resets, storeVars, torn, hurried>>

-----------------------------------------------------------------------------
(* The server.                                                             *)

ServerTakes ==
    /\ up # << >> /\ up' = Tail(up)
    /\ LET r == Head(up)
           t == r.target
           on == r.kind = "watch"
       IN \/ /\ serving' = [serving EXCEPT ![t] =
                               [on |-> on, at |-> r.v, caught |-> FALSE]]
             /\ down' = Append(down, Message(IF on THEN "added" ELSE "removed",
                                             {t}))
             /\ UNCHANGED refusals
          \/ /\ on /\ refusals < MaxRefusals
             /\ refusals' = refusals + 1
             /\ down' = Append(down, Message("refused", {t}))
             /\ UNCHANGED serving
    /\ UNCHANGED <<history, streamVars, storeVars, onlineVars, viewVars,
                   targetVars, pastVars, listens, edits, breaks, serverResets>>

(* What it sends to bring its targets to version v: of each all changes;   *)
(* or no removals but how many documents match; or everything.             *)
ServerSends(v, how, caught) ==
    LET on == {t \in Target : serving[t].on}
        old(t) == IF how[t] = "all" THEN {} ELSE Matching(t, serving[t].at)
        add(t) == Matching(t, v) \ old(t)
        remove(t) == IF how[t] = "changes" THEN old(t) \ Matching(t, v) ELSE {}
        changed == {t \in on : add(t) \cup remove(t) # {}}
    IN /\ v \in 1 .. Now /\ \A t \in on : serving[t].at <= v
       /\ caught => v = Now
       /\ \E t \in on : serving[t].at < v \/ (caught /\ ~serving[t].caught)
       /\ \A t \in Target : how[t] # "changes" => t \in on /\ serving[t].at > 0
       /\ serving' = [t \in Target |->
              IF t \in on
              THEN [on |-> TRUE, at |-> v, caught |-> caught \/
                       (serving[t].caught /\ how[t] # "all")]
              ELSE serving[t]]
       /\ down' = down
              \o ForEach({t \in on : how[t] = "all"},
                         LAMBDA t : Message("reset", {t}))
              \o ForEach(changed, LAMBDA t : [Message("docs", {t}) EXCEPT
                                    !.add = add(t), !.remove = remove(t)])
              \o ForEach({t \in on : how[t] = "filter"},
                         LAMBDA t : [Message("filter", {t}) EXCEPT
                                    !.v = Cardinality(Matching(t, v))])
              \o ForEach(IF caught THEN on ELSE {},
                         LAMBDA t : Message("current", {t}))
              \o <<[Message("snapshot", {}) EXCEPT !.v = v]>>
       /\ UNCHANGED <<history, streamVars, up, storeVars, onlineVars, viewVars,
                      targetVars, pastVars, listens, edits, breaks, refusals>>

Plainly == [t \in Target |-> "changes"]

ServerSendsSome ==
    \/ /\ \E v \in 1 .. Now, caught \in BOOLEAN :
             ServerSends(v, Plainly, caught)
       /\ UNCHANGED serverResets
    \/ /\ serverResets < MaxResets /\ serverResets' = serverResets + 1
       /\ \E v \in 1 .. Now, caught \in BOOLEAN, t \in Target,
             how \in {"filter", "all"} :
             ServerSends(v, [Plainly EXCEPT ![t] = how], caught)

ServerCatchesUp == ServerSends(Now, Plainly, TRUE) /\ UNCHANGED serverResets

Edit(t, d) ==
    /\ edits < MaxEdits /\ edits' = edits + 1
    /\ history' = Append(history,
           [history[Now] EXCEPT ![t] =
               IF d \in @ THEN @ \ {d} ELSE @ \cup {d}])
    /\ UNCHANGED <<serving, streamVars, up, down, storeVars, onlineVars,
                   viewVars, targetVars, pastVars, listens, breaks,
                   serverResets, refusals>>

-----------------------------------------------------------------------------
HandleMessage ==
    \/ HandleAdded \/ HandleRemoved \/ HandleCurrent \/ HandleDocumentChange
    \/ HandleReset \/ HandleExistenceFilter
    \/ IgnoreSnapshot \/ RaiseWatchSnapshot \/ ProcessTargetError

Next ==
    \/ \E t \in Target : Listen(t) \/ StopListening(t)
    \/ ResumeStartWithCredentials \/ BackoffElapsed \/ IdleTimeout
    \/ OnWatchStreamClose \/ OnlineStateTimeout
    \/ RestartNetwork \/ DisableNetwork \/ EnableNetwork
    \/ HandleMessage
    \/ ServerTakes \/ ServerSendsSome
    \/ \E t \in Target, d \in Doc : Edit(t, d)

Spec == Init /\ [][Next]_vars

(* The serial queue runs every task that is due, timers included.  Nobody  *)
(* has to listen, and the backend need not answer.                         *)
ClientFairness ==
    /\ WF_vars(ResumeStartWithCredentials) /\ WF_vars(BackoffElapsed)
    /\ WF_vars(OnlineStateTimeout) /\ WF_vars(HandleMessage)

ClientSpec == Spec /\ ClientFairness

(* The backend answers.                                                    *)
FairSpec == ClientSpec /\ WF_vars(ServerTakes) /\ WF_vars(ServerCatchesUp)

-----------------------------------------------------------------------------
(* Properties.  History: since is the version that was there when a query  *)
(* was listened to; miscounted has the targets that were refused when      *)
(* another request for them was under way; torn those whose count of       *)
(* documents did not fit, or of which a snapshot was taken over while they *)
(* were miscounted, until they are listened to from zero; hurried those    *)
(* listened to again on a stream where they were current, or taken over    *)
(* while they were miscounted.                                             *)

(* Every variable has its type, and no view is shown or current without a  *)
(* listener.                                                               *)
TypeOK ==
    /\ history \in Seq([Target -> SUBSET Doc])
    /\ enabled \in BOOLEAN /\ stream \in StreamState
    /\ up \in Seq([kind : {"watch", "unwatch"}, target : Target, v : 0 .. Now])
    /\ down \in Seq([kind : {"added", "removed", "current", "docs", "reset",
                             "filter", "snapshot", "refused"},
                     targets : SUBSET Target, add : SUBSET Doc,
                     remove : SUBSET Doc, v : Nat])
    /\ serving \in [Target -> [on : BOOLEAN, at : 0 .. Now, caught : BOOLEAN]]
    /\ listening \subseteq Target /\ resets \subseteq Target
    /\ DOMAIN states \subseteq Target
    /\ \A t \in DOMAIN states : states[t] \in
           [out : Int, added : SUBSET Doc, removed : SUBSET Doc,
            current : BOOLEAN]
    /\ lastRemote \in 0 .. Now
    /\ {held, token, since} \subseteq [Target -> 0 .. Now]
    /\ keys \in [Target -> SUBSET Doc]
    /\ current \in [Target -> BOOLEAN]
    /\ shown \subseteq listening
    /\ \A t \in Target : current[t] => t \in listening
    /\ online \in {"Unknown", "Online", "Offline"}
    /\ failed \in BOOLEAN /\ timer \in BOOLEAN
    /\ torn \cup hurried \cup miscounted \subseteq Target
    /\ {listens, edits, breaks, serverResets, refusals} \subseteq Nat

(* The assertions of RemoteStore and of the tracker: the stream's timers   *)
(* find the stream that set them, it is not stopped as idle while it is    *)
(* needed, the online timer runs only in state Unknown and is not set when *)
(* a stream starts, and Online means an open stream without failures.      *)
AssertionsHold ==
    /\ TimersFindTheirState(stream)
    /\ stream.idle => listening = {}
    /\ listening # {} /\ enabled => IsStarted(stream)
    /\ timer => online = "Unknown" /\ ~failed /\ IsStarted(stream)
    /\ online = "Online" => IsOpen(stream) /\ ~failed
    /\ failed => IsStarted(stream) /\ online = "Offline"

DueTo(t) ==
    Cardinality({i \in DOMAIN up : up[i].target = t})
        + Cardinality({i \in DOMAIN down :
              /\ down[i].targets = {t}
              /\ down[i].kind \in {"added", "removed", "refused"}})

(* "The number of outstanding responses (adds or removes) that we are      *)
(* waiting on" (remote_event.h:208-209): as many answers are due as are    *)
(* counted, so that no message of an earlier listen of a query is taken    *)
(* for one of the present listen, and none is waited for in vain; but a    *)
(* refusal upsets the count if another request was under way.              *)
OutstandingIsDue ==
    IsOpen(stream) =>
        \A t \in Target : t \in miscounted \/ State(t).out = DueTo(t)

(* The documents of a target are those that matched at the version of its  *)
(* resume token, however listens, answers and snapshots interleave; but a  *)
(* target whose documents or answers were counted wrong has neither its    *)
(* documents nor a token that says so until it was listened to from zero.  *)
KeysMatchToken ==
    \A t \in Target : t \in torn \/ keys[t] = Matching(t, token[t])

(* "All changes up to the point at which the target was added"             *)
(* (remote_event.h:158-161): a view that is current is at least as new as  *)
(* the listen, unless the aggregator's state was that of an earlier one or *)
(* a refusal upset its count.                                              *)
CurrentIsCaughtUp ==
    \A t \in Target :
        current[t] => token[t] >= since[t] \/ t \in hurried

(* A query that is listened to becomes current or offline, is refused or   *)
(* left, if the backend answers and its requests were counted right.       *)
ListenIsAnswered ==
    \A t \in Target :
        t \in listening ~> \/ t \notin listening \/ current[t]
                           \/ online = "Offline" \/ t \in miscounted

(* "If the timeout is reached, we transition to Offline rather than        *)
(* waiting indefinitely" (online_state_tracker.cc:47-48), also if the      *)
(* backend does not answer at all.                                         *)
OnlineStateSettles ==
    (listening # {} /\ online = "Unknown")
        ~> (listening = {} \/ online # "Unknown")
=============================================================================
