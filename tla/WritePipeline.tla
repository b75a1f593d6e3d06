--------------------------- MODULE WritePipeline ---------------------------
(***************************************************************************)
(* How a phone's Firestore client gets the writes of its app to the        *)
(* server: the queue of mutation batches in LevelDB                        *)
(* (local/leveldb_mutation_queue.cc), the pipeline that RemoteStore fills  *)
(* from it (remote/remote_store.cc), and the write stream with its         *)
(* credentials, handshake, back-off and idle timer (remote/stream.cc,      *)
(* remote/write_stream.cc) on a gRPC call (remote/grpc_stream.cc).  All    *)
(* paths are under macos/Pods/FirebaseFirestore/Firestore/core/src.        *)
(*                                                                         *)
(* Everything the client does is a task of one serial queue: each is an    *)
(* action.  A batch is one write, and the writes of a user all set one     *)
(* document, so that their order shows.  The server is not in the          *)
(* repository: it takes the requests of a stream in order and answers      *)
(* them in order, and what it has not taken when a stream ends is lost.    *)
(* The stream token, which the server gives out and the client sends back  *)
(* unread, and answers that cannot be parsed are left out.                 *)
(*                                                                         *)
(* A definition used nowhere that stands right before another one is a     *)
(* mutation of it (README.md, Mutations).                                  *)
(***************************************************************************)
EXTENDS Naturals, FiniteSets, Sequences, SequencesExt, Stream

CONSTANTS User,               \* the users that sign in on the phone
          MaxWrites,          \* bound: how many writes the app makes
          Bad,                \* the writes that the server refuses
          kMaxPendingWrites   \* how many batches the pipeline holds

Write == 1 .. MaxWrites

ASSUME WritePipelineAssumption ==
    /\ MaxWrites \in Nat \ {0}
    /\ Bad \subseteq Write
    /\ kMaxPendingWrites \in Nat \ {0}

VARIABLES
    running,    \* the app's process is alive
    user,       \* the user that is signed in
    queue,      \* in LevelDB: each user's batches in the order of their ids
    nextBatchId,
    callbacks,  \* per user, the batches whose writer is to be told
    enabled,    \* is_network_enabled_
    pipeline,   \* write_pipeline_: the batches that are sent or about to be
    stream,     \* the write stream and its timers
    wire,       \* the gRPC call: requests, answers, and how it ended
    committed,  \* the writes that the server has carried out
    doc,        \* the write that left each user's document as it is
    issued,     \* the writes that each user has made
    told,       \* what the writer of each write was told
    calm        \* from now on nothing fails and nobody leaves

clientVars == <<queue, callbacks, pipeline, stream, wire>>
serverVars == <<committed, doc>>
vars == <<running, user, nextBatchId, enabled, clientVars, serverVars,
          issued, told, calm>>

NoBatch == [id |-> 0, write |-> 0]
Hello == NoBatch   \* the handshake, a request without a write

NoWire == [up |-> << >>, down |-> << >>, status |-> "none", due |-> FALSE]

(* The answer that is read; and the call with nothing but these answers,   *)
(* of which the first is due: the read that is pending has it already.     *)
Read(w) == [w EXCEPT !.down = Tail(@), !.due = FALSE]
Ended(w, status, down) ==
    [w EXCEPT !.status = status, !.down = down, !.due = down # << >>]

Init ==
    /\ running = TRUE
    /\ user \in User
    /\ queue = [u \in User |-> << >>]
    /\ nextBatchId = 1
    /\ callbacks = [u \in User |-> {}]
    /\ enabled = TRUE
    /\ pipeline = << >>
    /\ stream = IdleStream
    /\ wire = NoWire
    /\ committed = {}
    /\ doc = [u \in User |-> 0]
    /\ issued = [u \in User |-> {}]
    /\ told = [w \in Write |-> "nothing"]
    /\ calm = FALSE

-----------------------------------------------------------------------------
(* The mutation queue: a table of LevelDB whose rows are kept in the order *)
(* of their keys, the batch ids.                                           *)

BatchesBefore(q, id) ==
    SubSeq(q, 1, Cardinality({i \in DOMAIN q : q[i].id < id}))
BatchesAfter(q, id) ==
    SubSeq(q, Cardinality({i \in DOMAIN q : q[i].id <= id}) + 1, Len(q))

AddMutationBatch(q, b) ==
    BatchesBefore(q, b.id) \o <<b>> \o BatchesAfter(q, b.id)
RemoveMutationBatch(q, b) == BatchesBefore(q, b.id) \o BatchesAfter(q, b.id)

(* The ids go on after the highest of any user that is in the table, so    *)
(* that the ids of batches that are gone are given out again.              *)
NextIdFresh(q) == 1
LoadNextBatchId(q) ==
    LET ids == UNION {{b.id : b \in ToSet(q[u])} : u \in User}
    IN IF ids = {} THEN 1 ELSE Max(ids) + 1

-----------------------------------------------------------------------------
ShouldStartWriteStream(p, s) == enabled' /\ ~IsStarted(s) /\ p # << >>

-----------------------------------------------------------------------------
(* FillWritePipeline takes over what a handler has made of the pipeline,   *)
(* the stream and the call; the handler has set queue', user' and enabled'.*)

Room(p) == IF enabled' THEN kMaxPendingWrites - Len(p) ELSE 0
FirstOf(s, n) == SubSeq(s, 1, Min({n, Len(s)}))

NextBatchesFromStart(p) == FirstOf(queue'[user'], Room(p))
NextBatches(p) ==
    LET last == IF p = << >> THEN 0 ELSE Last(p).id
    IN FirstOf(BatchesAfter(queue'[user'], last), Room(p))

FillWritePipeline(p, s, w) ==
    LET more  == NextBatches(p)
        full  == p \o more
        sends == IsOpen(s) /\ s.handshake
        quiet == enabled' /\ full = << >> /\ IsOpen(s)
        s1    == [s EXCEPT !.idle = quiet \/ (@ /\ ~(sends /\ more # << >>))]
    IN /\ pipeline' = full
       /\ wire' = IF sends THEN [w EXCEPT !.up = @ \o more] ELSE w
       /\ stream' = IF ShouldStartWriteStream(full, s1) THEN Start(s1) ELSE s1

(* What EnableNetwork does once the streams and the pipeline are empty.    *)
EnableStreams == FillWritePipeline(<< >>, IdleStream, NoWire)

-----------------------------------------------------------------------------
(* The app.                                                                *)

WriteMutations ==
    LET w == Cardinality(UNION {issued[u] : u \in User}) + 1
        b == [id |-> nextBatchId, write |-> w]
    IN /\ running /\ w \in Write
       /\ queue' = [queue EXCEPT ![user] = AddMutationBatch(@, b)]
       /\ nextBatchId' = nextBatchId + 1
       /\ callbacks' = [callbacks EXCEPT ![user] =
                           IF \E c \in @ : c.id = b.id THEN @ ELSE @ \cup {b}]
       /\ issued' = [issued EXCEPT ![user] = @ \cup {w}]
       /\ UNCHANGED <<running, user, enabled, serverVars, told, calm>>
       /\ FillWritePipeline(pipeline, stream, wire)

-----------------------------------------------------------------------------
(* The stream opens.  A callback with a token for a stream that was closed *)
(* since finds another close_count_ and does nothing.                      *)

ResumeStartWithCredentials ==
    /\ running /\ stream.credentials
    /\ stream' = Opened(stream)
    /\ wire' = [NoWire EXCEPT !.up = <<Hello>>]
    /\ UNCHANGED <<running, user, queue, nextBatchId, callbacks, enabled,
                   pipeline, serverVars, issued, told, calm>>

BackoffElapsed ==
    /\ running /\ stream.retry
    /\ stream' = Retried(stream)
    /\ UNCHANGED <<running, user, queue, nextBatchId, callbacks, enabled,
                   pipeline, wire, serverVars, issued, told, calm>>

(* Nothing to send for a while: a graceful stop.                           *)
IdleTimeout ==
    /\ running /\ stream.idle
    /\ stream' = Close(stream, "Initial")
    /\ wire' = NoWire
    /\ UNCHANGED <<running, user, queue, nextBatchId, callbacks, enabled,
                   pipeline, serverVars, issued, told, calm>>

-----------------------------------------------------------------------------
(* Answers.  The first one is for the handshake, each further one for the  *)
(* front of the pipeline.                                                  *)

HandshakeComplete ==
    /\ running /\ wire.down # << >> /\ ~stream.handshake
    /\ stream' = [stream EXCEPT !.handshake = TRUE,
                                !.idle = @ /\ pipeline = << >>]
    /\ wire' = [Read(wire) EXCEPT !.up = @ \o pipeline]
    /\ UNCHANGED <<running, user, queue, nextBatchId, callbacks, enabled,
                   pipeline, serverVars, issued, told, calm>>

(* NotifyUser: a batch read from LevelDB at the start has no callback.     *)
Tells(b, what) ==
    told' = IF \E c \in callbacks[user] : c.id = b.id
            THEN LET c == CHOOSE c \in callbacks[user] : c.id = b.id
                 IN [told EXCEPT ![c.write] = what]
            ELSE told

(* The front of the pipeline leaves it and the queue.                      *)
Settles(b, what) ==
    /\ Tells(b, what)
    /\ callbacks' = [callbacks EXCEPT ![user] = {c \in @ : c.id # b.id}]
    /\ queue' = [queue EXCEPT ![user] = RemoveMutationBatch(@, b)]

OnWriteStreamMutationResult ==
    /\ running /\ wire.down # << >> /\ stream.handshake /\ pipeline # << >>
    /\ Settles(Head(pipeline), "done")
    /\ UNCHANGED <<running, user, nextBatchId, enabled, serverVars, issued,
                   calm>>
    /\ FillWritePipeline(Tail(pipeline), stream, Read(wire))

-----------------------------------------------------------------------------
(* The end of the call, as the client sees it: a read fails once every     *)
(* answer is read, a write fails at once, though after the read that was   *)
(* pending then, and either ends the call and drops what was not read.     *)

CallFails == /\ running /\ wire.status # "none"
             /\ wire.down = << >> \/ (wire.up # << >> /\ ~wire.due)

(* A permanent error after the handshake is put down to the front of the   *)
(* pipeline, and the stream starts again without waiting.                  *)
HandleAnyWriteError ==
    /\ CallFails
    /\ stream.handshake /\ pipeline # << >>
    /\ Settles(Head(pipeline), "refused")
    /\ UNCHANGED <<running, user, nextBatchId, enabled, serverVars, issued,
                   calm>>
    /\ FillWritePipeline(Tail(pipeline), Close(stream, "Initial"), NoWire)
HandleWriteError ==
    /\ CallFails
    /\ wire.status = "permanent" /\ stream.handshake /\ pipeline # << >>
    /\ Settles(Head(pipeline), "refused")
    /\ UNCHANGED <<running, user, nextBatchId, enabled, serverVars, issued,
                   calm>>
    /\ FillWritePipeline(Tail(pipeline), Close(stream, "Initial"), NoWire)

RestartedNever(p) == Close(stream, "Error")
Restarted(p) == LET s == Close(stream, "Error")
                IN IF ShouldStartWriteStream(p, s) THEN Start(s) ELSE s

(* Any other error: what is in the pipeline is sent again.                 *)
RetryAfterError ==
    /\ \/ /\ CallFails
          /\ ~(/\ wire.status = "permanent" /\ stream.handshake
               /\ pipeline # << >>)
       \/ /\ running /\ stream.credentials /\ ~calm   \* no token to be had
    /\ wire' = NoWire
    /\ UNCHANGED <<running, user, queue, nextBatchId, callbacks, enabled,
                   pipeline, serverVars, issued, told, calm>>
    /\ stream' = Restarted(pipeline)

-----------------------------------------------------------------------------
(* The network and the user.                                               *)

(* The network is back, or the user's token was renewed.                   *)
RestartNetwork ==
    /\ running /\ enabled /\ ~calm
    /\ UNCHANGED <<running, user, queue, nextBatchId, callbacks, enabled,
                   serverVars, issued, told, calm>>
    /\ EnableStreams

(* Another user: the mutation queue is swapped, then the streams restart.  *)
HandleCredentialChange(u) ==
    /\ running /\ u # user /\ ~calm
    /\ user' = u
    /\ nextBatchId' = LoadNextBatchId(queue)
    /\ UNCHANGED <<running, queue, callbacks, enabled, serverVars, issued,
                   told, calm>>
    /\ IF enabled THEN EnableStreams ELSE UNCHANGED <<pipeline, stream, wire>>

DisableNetwork ==
    /\ running /\ enabled /\ ~calm
    /\ enabled' = FALSE
    /\ pipeline' = << >>
    /\ stream' = IF IsStarted(stream) THEN Close(stream, "Initial") ELSE stream
    /\ wire' = NoWire
    /\ UNCHANGED <<running, user, queue, nextBatchId, callbacks, serverVars,
                   issued, told, calm>>

EnableNetwork ==
    /\ running /\ ~enabled
    /\ enabled' = TRUE
    /\ UNCHANGED <<running, user, queue, nextBatchId, callbacks, serverVars,
                   issued, told, calm>>
    /\ FillWritePipeline(pipeline, stream, wire)

-----------------------------------------------------------------------------
(* The process is killed, at worst after the writer was told and before    *)
(* the transaction that takes the batch out of LevelDB.                    *)

Killed ==
    /\ running /\ ~calm
    /\ running' = FALSE
    /\ callbacks' = [u \in User |-> {}]
    /\ pipeline' = << >> /\ stream' = IdleStream /\ wire' = NoWire
    /\ UNCHANGED <<user, queue, nextBatchId, enabled, serverVars, issued,
                   calm>>

Kill == Killed /\ UNCHANGED told

KillAfterNotifyUser ==
    /\ wire.down # << >> /\ stream.handshake /\ pipeline # << >>
    /\ Killed
    /\ Tells(Head(pipeline), "done")

Launch ==
    /\ ~running
    /\ running' = TRUE /\ enabled' = TRUE
    /\ nextBatchId' = LoadNextBatchId(queue)
    /\ UNCHANGED <<user, queue, callbacks, serverVars, issued, told, calm>>
    /\ EnableStreams

-----------------------------------------------------------------------------
(* The server and the connection.                                          *)

ServerTakes ==
    /\ wire.up # << >> /\ wire.status = "none"
    /\ LET r == Head(wire.up) IN
       IF r.write \in Bad
       THEN /\ wire' = Ended([wire EXCEPT !.up = Tail(@)], "permanent",
                            wire.down)
            /\ UNCHANGED serverVars
       ELSE /\ wire' = [wire EXCEPT !.up = Tail(@), !.down = Append(@, r)]
            /\ committed' = committed \cup ({r.write} \ {0})
            /\ doc' = [u \in User |-> IF r.write \in issued[u] THEN r.write
                                                             ELSE doc[u]]
    /\ UNCHANGED <<running, user, queue, nextBatchId, callbacks, enabled,
                   pipeline, stream, issued, told, calm>>

(* The connection is lost with some of the answers, or the server will not *)
(* have the handshake.                                                     *)
CallBreaks ==
    /\ IsOpen(stream) /\ wire.status # "transient" /\ ~calm
    /\ \/ \E n \in 0 .. Len(wire.down) :
            wire' = Ended(wire, "transient", SubSeq(wire.down, 1, n))
       \/ /\ wire.up # << >> /\ Head(wire.up) = Hello /\ wire.status = "none"
          /\ wire' = Ended(wire, "permanent", << >>)
    /\ UNCHANGED <<running, user, queue, nextBatchId, callbacks, enabled,
                   pipeline, stream, serverVars, issued, told, calm>>

CalmDown ==
    /\ running /\ enabled /\ ~calm
    /\ calm' = TRUE
    /\ UNCHANGED <<running, user, nextBatchId, enabled, clientVars,
                   serverVars, issued, told>>

-----------------------------------------------------------------------------
Next ==
    \/ WriteMutations \/ ResumeStartWithCredentials \/ BackoffElapsed
    \/ IdleTimeout \/ HandshakeComplete \/ OnWriteStreamMutationResult
    \/ HandleWriteError \/ RetryAfterError \/ RestartNetwork
    \/ \E u \in User : HandleCredentialChange(u)
    \/ DisableNetwork \/ EnableNetwork
    \/ Kill \/ KillAfterNotifyUser \/ Launch
    \/ ServerTakes \/ CallBreaks \/ CalmDown

Spec == Init /\ [][Next]_vars

(* The serial queue runs every task that is due, and the server answers.   *)
(* Nobody has to write, sign in, leave or come back.                       *)
Fairness ==
    /\ WF_vars(ResumeStartWithCredentials) /\ WF_vars(BackoffElapsed)
    /\ WF_vars(HandshakeComplete) /\ WF_vars(OnWriteStreamMutationResult)
    /\ WF_vars(HandleWriteError) /\ WF_vars(RetryAfterError)
    /\ WF_vars(ServerTakes)

FairSpec == Spec /\ Fairness

-----------------------------------------------------------------------------
(* Properties.                                                             *)

Batch == [id : Nat \ {0}, write : Write]

(* Every variable has its type, and a process that is dead keeps nothing   *)
(* but LevelDB.  As the stream asserts, a token or a timer that is still   *)
(* to come finds the stream in the state that asked for it, and the stream *)
(* is not stopped as idle while there is something to send.                *)
TypeOK ==
    /\ running \in BOOLEAN /\ enabled \in BOOLEAN /\ calm \in BOOLEAN
    /\ user \in User
    /\ queue \in [User -> Seq(Batch)]
    /\ nextBatchId \in Nat \ {0}
    /\ callbacks \in [User -> SUBSET Batch]
    /\ pipeline \in Seq(Batch)
    /\ stream \in StreamState
    /\ wire \in [up : Seq(Batch \cup {Hello}), down : Seq(Batch \cup {Hello}),
                 status : {"none", "transient", "permanent"}, due : BOOLEAN]
    /\ committed \subseteq Write
    /\ doc \in [User -> Write \cup {0}]
    /\ issued \in [User -> SUBSET Write]
    /\ told \in [Write -> {"nothing", "done", "refused"}]
    /\ ~running => pipeline = << >> /\ stream = IdleStream /\ wire = NoWire
    /\ TimersFindTheirState(stream)
    /\ stream.idle => pipeline = << >>
    /\ pipeline # << >> => IsStarted(stream)

(* The pipeline is the front of the signed-in user's queue, as much of it  *)
(* as there is room for: no handler leaves a batch out, takes one twice or *)
(* one of another user, whatever ids LevelDB gives out again.              *)
PipelineIsQueueFront ==
    running => pipeline = IF enabled THEN FirstOf(queue[user],
                                                  kMaxPendingWrites)
                          ELSE << >>

(* "This is a response to a write containing mutations and should be       *)
(* correlated to the first write in our write pipeline": once the          *)
(* handshake is done the answers and the requests of the call are the      *)
(* pipeline, in its order, also while the call breaks.                     *)
AnswersMatchPipeline ==
    stream.handshake =>
        /\ IsPrefix(wire.down, pipeline)
        /\ wire.status = "none" => wire.down \o wire.up = pipeline

(* A callback is that of a batch in the queue, so that an id that is given *)
(* out again never meets the callback of the batch that had it before, and *)
(* whoever was told that a write is done can rely on it.                   *)
CallbacksMatchQueue ==
    /\ \A u \in User : callbacks[u] \subseteq ToSet(queue[u])
    /\ \A w \in Write : told[w] = "done" => w \in committed

(* "If this was a permanent error, the request itself was the problem"     *)
(* (remote_store.cc:513): a write is reported as refused only if the       *)
(* server refused it; or it was carried out, and a later write of the same *)
(* user, on the way by then, was refused before the answer was read.       *)
RefusedHasCause ==
    \A u \in User : \A w \in issued[u] : told[w] = "refused" =>
        w \in Bad \/ (w \in committed /\ \E b \in issued[u] \cap Bad : b > w)

(* What the server has carried out of the user's queue in this call.       *)
doneOf == [u \in User |->
             IF u = user /\ stream.handshake
             THEN Len(wire.down) + (IF wire.status = "permanent" THEN 1 ELSE 0)
             ELSE 0]

waitingOf == [u \in User |-> [i \in DOMAIN queue[u] |-> queue[u][i].write]]

Box == INSTANCE Outbox WITH waiting <- waitingOf, done <- doneOf

(* The client and the server together are the outbox that the app counts   *)
(* on, across lost connections, changes of user and kills.                 *)
ImplementsOutbox == Box!Spec

(* When nothing fails any more, every write of the user is answered.       *)
EveryWriteSettles == \A u \in User : calm /\ user = u ~> queue[u] = << >>
=============================================================================
