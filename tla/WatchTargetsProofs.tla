-------------------------- MODULE WatchTargetsProofs --------------------------
(***************************************************************************)
(* Proofs about the watch targets of WatchTargets, for any finite sets of  *)
(* queries and documents and any bounds.  The assertions of the stream, of *)
(* RemoteStore and of the online state tracker hold (OnlineInv); every     *)
(* variable keeps its type (TypeInv); as many answers are due as the       *)
(* aggregator counts (CountInv); and so what it gathers between the answer *)
(* to the last listen and a snapshot makes the documents of a query into   *)
(* those that matched at the snapshot's version (GatherInv).               *)
(***************************************************************************)
EXTENDS WatchTargets, FiniteSetTheorems, SequenceTheorems, TLAPS

-----------------------------------------------------------------------------
(* The stream and the online state.                                        *)

(* A stream that is not wanted is not started, besides the assertions.     *)
OnlineInv ==
    /\ stream \in StreamState /\ enabled \in BOOLEAN
    /\ online \in {"Unknown", "Online", "Offline"}
    /\ failed \in BOOLEAN /\ timer \in BOOLEAN
    /\ ~enabled => ~IsStarted(stream)
    /\ AssertionsHold

(* What starting and closing do to a stream.                               *)
LEMMA StreamMoves ==
    ASSUME NEW s \in StreamState, TimersFindTheirState(s)
    PROVE  /\ \A e \in {"Initial", "Error"} :
                  /\ Close(s, e) \in StreamState
                  /\ TimersFindTheirState(Close(s, e))
                  /\ ~IsStarted(Close(s, e)) /\ ~Close(s, e).idle
           /\ ~IsStarted(s) => /\ Start(s) \in StreamState
                               /\ TimersFindTheirState(Start(s))
                               /\ IsStarted(Start(s)) /\ ~Start(s).idle
           /\ s.credentials => /\ Opened(s) \in StreamState
                               /\ TimersFindTheirState(Opened(s))
                               /\ IsOpen(Opened(s)) /\ ~Opened(s).idle
           /\ s.retry => /\ Retried(s) \in StreamState
                         /\ TimersFindTheirState(Retried(s))
                         /\ IsStarted(Retried(s)) /\ ~Retried(s).idle
  <1> USE DEF StreamState, IdleStream, IsOpen, IsStarted, TimersFindTheirState
  <1>1. \A e \in {"Initial", "Error"} :
            /\ Close(s, e) \in StreamState
            /\ TimersFindTheirState(Close(s, e))
            /\ ~IsStarted(Close(s, e)) /\ ~Close(s, e).idle
    BY DEF Close
  <1>2. ~IsStarted(s) => /\ Start(s) \in StreamState
                         /\ TimersFindTheirState(Start(s))
                         /\ IsStarted(Start(s)) /\ ~Start(s).idle
    BY DEF Start, StartNow
  <1>3. s.credentials => /\ Opened(s) \in StreamState
                         /\ TimersFindTheirState(Opened(s))
                         /\ IsOpen(Opened(s)) /\ ~Opened(s).idle
    BY DEF Opened
  <1>4. s.retry => /\ Retried(s) \in StreamState
                   /\ TimersFindTheirState(Retried(s))
                   /\ IsStarted(Retried(s)) /\ ~Retried(s).idle
    BY DEF Retried, StartNow
  <1> QED
    BY <1>1, <1>2, <1>3, <1>4

LEMMA IdleStreamRests ==
    /\ IdleStream \in StreamState /\ TimersFindTheirState(IdleStream)
    /\ ~IsStarted(IdleStream) /\ ~IdleStream.idle
  BY DEF IdleStream, StreamState, TimersFindTheirState, IsStarted

LEMMA OnlineInit == Init => OnlineInv
  BY IdleStreamRests DEF Init, OnlineInv, AssertionsHold, IsOpen

(* A stream that closes for good, with the tracker reset.                  *)
LEMMA OnlineAfterStop ==
    ASSUME OnlineInv, stream' \in StreamState, TimersFindTheirState(stream'),
           ~IsStarted(stream'), ~stream'.idle, enabled' \in BOOLEAN,
           listening' = {} \/ ~enabled',
           online' \in {"Unknown", "Offline"}, timer' = FALSE, failed' = FALSE
    PROVE  OnlineInv'
  BY DEF OnlineInv, AssertionsHold

(* A stream that starts.                                                   *)
LEMMA OnlineAfterStart ==
    ASSUME OnlineInv, stream' \in StreamState, TimersFindTheirState(stream'),
           IsStarted(stream'), ~stream'.idle, enabled',  enabled' \in BOOLEAN,
           timer' \in BOOLEAN, failed' \in BOOLEAN,
           \/ online' = "Unknown" /\ ~failed'
           \/ online' = "Offline" /\ ~timer'
    PROVE  OnlineInv'
  BY DEF OnlineInv, AssertionsHold

(* A message of the stream.                                                *)
LEMMA OnlineAfterMessage ==
    ASSUME OnlineInv, IsOpen(stream), UNCHANGED streamVars,
           online' = "Online", timer' = FALSE, failed' = FALSE,
           listening' \subseteq listening
    PROVE  OnlineInv'
  BY DEF OnlineInv, AssertionsHold, streamVars, IsOpen, IsStarted

(* A step that is not about the stream.                                    *)
LEMMA OnlineAfterQuiet ==
    ASSUME OnlineInv, UNCHANGED <<enabled, stream, online, failed, timer>>,
           listening' \subseteq listening
    PROVE  OnlineInv'
  BY DEF OnlineInv, AssertionsHold

(* The server sends to some version.                                       *)
LEMMA ServerSendsWhat ==
    ASSUME ServerSendsSome
    PROVE  /\ \E v \in 1 .. Now, caught \in BOOLEAN,
                 how \in [Target -> {"changes", "filter", "all"}] :
                 ServerSends(v, how, caught)
           /\ UNCHANGED <<history, streamVars, up, storeVars, onlineVars,
                          viewVars, targetVars, pastVars, listens, edits,
                          breaks, refusals>>
           /\ serverResets \in Nat => serverResets' \in Nat
  <1>1. PICK v \in 1 .. Now, caught \in BOOLEAN,
             how \in [Target -> {"changes", "filter", "all"}] :
             ServerSends(v, how, caught)
    BY DEF ServerSendsSome, Plainly
  <1>2. UNCHANGED <<history, streamVars, up, storeVars, onlineVars, viewVars,
                    targetVars, pastVars, listens, edits, breaks, refusals>>
    BY <1>1 DEF ServerSends
  <1>3. serverResets \in Nat => serverResets' \in Nat
    BY DEF ServerSendsSome
  <1> QED
    BY <1>1, <1>2, <1>3

LEMMA OnlineStep == OnlineInv /\ [Next]_vars => OnlineInv'
  <1> SUFFICES ASSUME OnlineInv, [Next]_vars
               PROVE  OnlineInv'
    OBVIOUS
  <1> USE DEF streamVars, onlineVars, targetVars
  <1>0. /\ stream \in StreamState /\ TimersFindTheirState(stream)
        /\ enabled \in BOOLEAN
    BY DEF OnlineInv, AssertionsHold
  <1>1. ASSUME NEW t \in Target, Listen(t)
        PROVE  OnlineInv'
    <2>1. CASE enabled /\ ~IsStarted(stream)
      <3>1. /\ stream' = Start(stream) /\ online' = "Unknown" /\ timer' = TRUE
            /\ UNCHANGED <<enabled, failed>>
        BY <1>1, <2>1 DEF Listen
      <3>2. failed = FALSE
        BY <2>1 DEF OnlineInv, AssertionsHold
      <3> QED
        BY <1>0, <2>1, <3>1, <3>2, StreamMoves, OnlineAfterStart
    <2>2. CASE ~(enabled /\ ~IsStarted(stream)) /\ IsOpen(stream)
      <3>1. /\ stream' = [stream EXCEPT !.idle = FALSE]
            /\ UNCHANGED <<enabled, online, failed, timer>>
        BY <1>1, <2>2 DEF Listen
      <3>2. /\ stream' \in StreamState /\ TimersFindTheirState(stream')
            /\ IsOpen(stream') /\ ~stream'.idle
        BY <1>0, <2>2, <3>1 DEF StreamState, TimersFindTheirState, IsOpen
      <3> QED
        BY <2>2, <3>1, <3>2 DEF OnlineInv, AssertionsHold, IsOpen, IsStarted
    <2>3. CASE ~(enabled /\ ~IsStarted(stream)) /\ ~IsOpen(stream)
      <3>1. /\ UNCHANGED <<enabled, stream, online, failed, timer>>
        BY <1>1, <2>3 DEF Listen
      <3>2. ~stream.idle
        BY <2>3 DEF OnlineInv, AssertionsHold, TimersFindTheirState, IsOpen
      <3> QED
        BY <2>3, <3>1, <3>2 DEF OnlineInv, AssertionsHold
    <2> QED
      BY <2>1, <2>2, <2>3
  <1>2. ASSUME NEW t \in Target, StopListening(t)
        PROVE  OnlineInv'
    <2>0. listening' \subseteq listening /\ UNCHANGED enabled
      BY <1>2 DEF StopListening, Drop
    <2>1. CASE IsOpen(stream)
      <3>1. /\ stream' = [stream EXCEPT !.idle = listening' = {}]
            /\ UNCHANGED <<online, failed, timer>>
        BY <1>2, <2>1 DEF StopListening
      <3>2. /\ stream' \in StreamState /\ TimersFindTheirState(stream')
            /\ IsOpen(stream') /\ stream'.idle = (listening' = {})
        BY <1>0, <2>1, <3>1 DEF StreamState, TimersFindTheirState, IsOpen
      <3> QED
        BY <2>0, <2>1, <3>1, <3>2 DEF OnlineInv, AssertionsHold, IsOpen,
                                      IsStarted
    <2>2. CASE ~IsOpen(stream) /\ ~(listening' = {} /\ enabled)
      <3>1. UNCHANGED <<stream, online, failed, timer>>
        BY <1>2, <2>2 DEF StopListening
      <3> QED
        BY <2>0, <3>1, OnlineAfterQuiet
    <2>3. CASE ~IsOpen(stream) /\ listening' = {} /\ enabled
      <3>1. /\ UNCHANGED stream /\ online' = "Unknown"
            /\ timer' = FALSE /\ failed' = FALSE
        BY <1>2, <2>3 DEF StopListening
      <3> QED
        BY <2>0, <2>3, <3>1 DEF OnlineInv, AssertionsHold
    <2> QED
      BY <2>1, <2>2, <2>3
  <1>3. CASE ResumeStartWithCredentials
    <2>1. /\ stream.credentials /\ stream' = Opened(stream)
          /\ UNCHANGED <<enabled, onlineVars, listening>>
      BY <1>3 DEF ResumeStartWithCredentials
    <2>2. IsStarted(stream) /\ ~IsOpen(stream)
      BY <1>0, <2>1 DEF TimersFindTheirState, IsStarted, IsOpen
    <2>3. /\ stream' \in StreamState /\ TimersFindTheirState(stream')
          /\ IsOpen(stream') /\ ~stream'.idle
      BY <1>0, <2>1, StreamMoves
    <2> QED
      BY <2>1, <2>2, <2>3 DEF OnlineInv, AssertionsHold, IsOpen, IsStarted
  <1>4. CASE BackoffElapsed
    <2>1. /\ stream.retry /\ stream' = Retried(stream)
          /\ UNCHANGED <<enabled, onlineVars, listening>>
      BY <1>4 DEF BackoffElapsed
    <2>2. IsStarted(stream) /\ ~IsOpen(stream)
      BY <1>0, <2>1 DEF TimersFindTheirState, IsStarted, IsOpen
    <2>3. /\ stream' \in StreamState /\ TimersFindTheirState(stream')
          /\ IsStarted(stream') /\ ~stream'.idle
      BY <1>0, <2>1, StreamMoves
    <2> QED
      BY <2>1, <2>2, <2>3 DEF OnlineInv, AssertionsHold
  <1>5. CASE IdleTimeout
    <2>1. /\ stream.idle /\ stream' = Close(stream, "Initial")
          /\ online' = "Unknown" /\ failed' = FALSE /\ timer' = FALSE
          /\ UNCHANGED <<enabled, listening>>
      BY <1>5 DEF IdleTimeout, StartOrUnknown
    <2>2. listening' = {}
      BY <2>1 DEF OnlineInv, AssertionsHold
    <2> QED
      BY <1>0, <2>1, <2>2, StreamMoves, OnlineAfterStop
  <1>6. CASE OnWatchStreamClose
    <2>0. UNCHANGED <<enabled, listening>>
      BY <1>6 DEF OnWatchStreamClose
    <2>1. IsStarted(stream) /\ enabled
      BY <1>0, <1>6 DEF OnWatchStreamClose, TimersFindTheirState, IsStarted,
                        IsOpen, OnlineInv
    <2>2. CASE listening = {}
      <3>1. /\ stream' = Close(stream, "Error") /\ online' = "Unknown"
            /\ timer' = FALSE /\ failed' = FALSE
        BY <1>6, <2>2 DEF OnWatchStreamClose, UpdateState, SetAndBroadcast
      <3> QED
        BY <1>0, <2>0, <2>2, <3>1, StreamMoves, OnlineAfterStop
    <2>3. CASE listening # {}
      <3>1. /\ stream' = Start(Close(stream, "Error"))
            /\ \/ online' = "Unknown" /\ online = "Online" /\ timer' = TRUE
                  /\ failed' = failed
               \/ online' = "Offline" /\ failed' = TRUE /\ timer' = FALSE
        BY <1>6, <2>3 DEF OnWatchStreamClose, HandleWatchStreamFailure,
                          SetAndBroadcast
      <3>2. online = "Online" => ~failed
        BY DEF OnlineInv, AssertionsHold
      <3>3. /\ stream' \in StreamState /\ TimersFindTheirState(stream')
            /\ IsStarted(stream') /\ ~stream'.idle
        <4>1. /\ Close(stream, "Error") \in StreamState
              /\ TimersFindTheirState(Close(stream, "Error"))
              /\ ~IsStarted(Close(stream, "Error"))
          BY <1>0, StreamMoves
        <4> QED
          BY <3>1, <4>1, StreamMoves
      <3>4. timer' \in BOOLEAN /\ failed' \in BOOLEAN
        BY <3>1 DEF OnlineInv
      <3> QED
        BY <1>0, <2>0, <2>1, <3>1, <3>2, <3>3, <3>4, OnlineAfterStart
    <2> QED
      BY <2>2, <2>3
  <1>7. CASE OnlineStateTimeout
    <2>1. /\ timer /\ online' = "Offline" /\ timer' = FALSE
          /\ UNCHANGED <<enabled, stream, failed, listening>>
      BY <1>7 DEF OnlineStateTimeout, SetAndBroadcast
    <2> QED
      BY <2>1 DEF OnlineInv, AssertionsHold
  <1>8. CASE RestartNetwork
    <2>1. /\ enabled /\ UNCHANGED <<enabled, listening>>
          /\ online' = "Unknown" /\ failed' = FALSE
          /\ timer' = (listening # {})
          /\ stream' = IF listening # {} THEN Start(IdleStream) ELSE IdleStream
      BY <1>8 DEF RestartNetwork, StartOrUnknown
    <2>2. CASE listening # {}
      BY <1>0, <2>1, <2>2, IdleStreamRests, StreamMoves, OnlineAfterStart
    <2>3. CASE listening = {}
      BY <1>0, <2>1, <2>3, IdleStreamRests, OnlineAfterStop
    <2> QED
      BY <2>2, <2>3
  <1>9. CASE DisableNetwork
    <2>1. /\ ~enabled' /\ enabled' \in BOOLEAN /\ online' = "Offline"
          /\ timer' = FALSE /\ failed' = FALSE
          /\ stream' = IF IsStarted(stream) THEN Close(stream, "Initial")
                       ELSE stream
      BY <1>9 DEF DisableNetwork, UpdateState, SetAndBroadcast
    <2>2. ~IsStarted(stream) => ~stream.idle
      BY <1>0 DEF TimersFindTheirState, IsStarted
    <2>3. /\ stream' \in StreamState /\ TimersFindTheirState(stream')
          /\ ~IsStarted(stream') /\ ~stream'.idle
      BY <1>0, <2>1, <2>2, StreamMoves
    <2> QED
      BY <2>1, <2>3, OnlineAfterStop
  <1>10. CASE EnableNetwork
    <2>1. /\ ~enabled /\ enabled' /\ enabled' \in BOOLEAN
          /\ UNCHANGED listening
          /\ online' = "Unknown" /\ failed' = FALSE
          /\ timer' = (listening # {})
          /\ stream' = IF listening # {} THEN Start(stream) ELSE stream
      BY <1>10 DEF EnableNetwork, StartOrUnknown
    <2>2. ~IsStarted(stream) /\ ~stream.idle
      BY <1>0, <2>1 DEF OnlineInv, TimersFindTheirState, IsStarted
    <2>3. CASE listening # {}
      BY <1>0, <2>1, <2>2, <2>3, StreamMoves, OnlineAfterStart
    <2>4. CASE listening = {}
      BY <1>0, <2>1, <2>2, <2>4, OnlineAfterStop
    <2> QED
      BY <2>3, <2>4
  <1>11. CASE HandleMessage
    <2>1. /\ IsOpen(stream) /\ UNCHANGED streamVars
          /\ online' = "Online" /\ timer' = FALSE /\ failed' = FALSE
      BY <1>11 DEF HandleMessage, HandleAdded, HandleRemoved, HandleCurrent,
         HandleDocumentChange, HandleReset, HandleExistenceFilter,
         IgnoreSnapshot, RaiseWatchSnapshot, ProcessTargetError,
         OnWatchStreamChange
    <2>2. listening' \subseteq listening
      BY <1>11 DEF HandleMessage, HandleAdded, HandleRemoved, HandleCurrent,
         HandleDocumentChange, HandleReset, HandleExistenceFilter,
         IgnoreSnapshot, RaiseWatchSnapshot, ProcessTargetError, IfActive, Drop
    <2> QED
      BY <2>1, <2>2, OnlineAfterMessage
  <1>12. CASE UNCHANGED <<enabled, stream, online, failed, timer, listening>>
    BY <1>12, OnlineAfterQuiet
  <1>13. ASSUME ServerTakes \/ \E t \in Target, d \in Doc : Edit(t, d)
         PROVE  UNCHANGED <<enabled, stream, online, failed, timer, listening>>
    BY <1>13 DEF ServerTakes, Edit
  <1>14. ASSUME ServerSendsSome
         PROVE  UNCHANGED <<enabled, stream, online, failed, timer, listening>>
    BY <1>14, ServerSendsWhat
  <1> QED
    BY <1>1, <1>2, <1>3, <1>4, <1>5, <1>6, <1>7, <1>8, <1>9, <1>10, <1>11,
       <1>12, <1>13, <1>14 DEF Next, vars

LEMMA OnlineInvariant == Spec => []OnlineInv
  BY OnlineInit, OnlineStep, PTL DEF Spec

(* The assertions of RemoteStore, of the stream and of the online state    *)
(* tracker hold in every state (remote_store.cc, stream.cc,                *)
(* online_state_tracker.cc), however failures, restarts, timers, listens   *)
(* and messages interleave.                                                *)
THEOREM AssertionsNeverFail == Spec => []AssertionsHold
  <1>1. OnlineInv => AssertionsHold
    BY DEF OnlineInv
  <1> QED
    BY <1>1, OnlineInvariant, PTL
-----------------------------------------------------------------------------
(* The sequences and functions that the actions build.                     *)

(* Each element of a finite set has one place in SetToSeq.                 *)
LEMMA SetAsSequence ==
    ASSUME NEW S, IsFiniteSet(S)
    PROVE  /\ Cardinality(S) \in Nat
           /\ \A i \in 1 .. Cardinality(S) : SetToSeq(S)[i] \in S
           /\ \A i, j \in 1 .. Cardinality(S) :
                 SetToSeq(S)[i] = SetToSeq(S)[j] => i = j
           /\ \A x \in S : \E i \in 1 .. Cardinality(S) : SetToSeq(S)[i] = x
  <1>1. Cardinality(S) \in Nat /\ ExistsBijection(1 .. Cardinality(S), S)
    BY FS_CardinalityType
  <1>2. PICK f \in Bijection(1 .. Cardinality(S), S) : TRUE
    BY <1>1 DEF ExistsBijection
  <1>3. f \in [1 .. Cardinality(S) -> S] /\ IsInjective(f)
    BY <1>2 DEF Bijection, Injection, IsInjective
  <1>4. /\ SetToSeq(S) \in [1 .. Cardinality(S) -> S]
        /\ IsInjective(SetToSeq(S))
    BY <1>3 DEF SetToSeq
  <1>5. SetToSeq(S) \in Injection(1 .. Cardinality(S), S)
    BY <1>4 DEF Injection, IsInjective
  <1>6. IsFiniteSet(1 .. Cardinality(S))
        /\ Cardinality(1 .. Cardinality(S)) = Cardinality(S)
    BY <1>1, FS_Interval
  <1>7. SetToSeq(S) \in Surjection(1 .. Cardinality(S), S)
    BY <1>5, <1>6, FS_Injection
  <1> QED
    BY <1>1, <1>4, <1>7 DEF IsInjective, Surjection

LEMMA FiniteTargets ==
    ASSUME NEW S \in SUBSET Target
    PROVE  IsFiniteSet(S)
  BY WatchTargetsAssumption, FS_Subset

(* The aggregator's states after one was put or removed.                   *)
LEMMA PutEffect ==
    ASSUME NEW t, NEW s, states' = Put(t, s)
    PROVE  /\ DOMAIN states' = DOMAIN states \cup {t}
           /\ State(t)' = s
           /\ \A x : x # t => State(x)' = State(x)
  BY DEF Put, State

LEMMA RemoveEffect ==
    ASSUME NEW t, states' = RemoveTarget(t)
    PROVE  /\ DOMAIN states' = DOMAIN states \ {t}
           /\ State(t)' = NoState
           /\ \A x : x # t => State(x)' = State(x)
  BY DEF RemoveTarget, Restrict, State

-----------------------------------------------------------------------------
(* Types.                                                                  *)

AggState == [out : Int, added : SUBSET Doc, removed : SUBSET Doc,
             current : BOOLEAN]

StatesTyped ==
    /\ DOMAIN states \subseteq Target
    /\ \A t \in DOMAIN states : states[t] \in AggState

LEMMA ChangedState ==
    /\ NoState \in AggState
    /\ [NoState EXCEPT !.out = 1] \in AggState
    /\ \A D \in SUBSET Doc : [NoState EXCEPT !.removed = D] \in AggState
  <1>1. NoState \in AggState
    BY DEF NoState, AggState
  <1>2. ASSUME NEW x \in AggState
        PROVE  [x EXCEPT !.out = 1] \in AggState
    BY DEF AggState
  <1>3. ASSUME NEW x \in AggState, NEW D \in SUBSET Doc
        PROVE  [x EXCEPT !.removed = D] \in AggState
    BY DEF AggState
  <1> QED
    BY <1>1, <1>2, <1>3, Zenon

LEMMA StateType ==
    ASSUME StatesTyped, NEW t
    PROVE  State(t) \in AggState
  BY DEF StatesTyped, State, NoState, AggState

LEMMA StatesAfterPut ==
    ASSUME StatesTyped, NEW t \in Target, NEW s \in AggState,
           states' = Put(t, s)
    PROVE  StatesTyped'
  BY DEF StatesTyped, Put

LEMMA StatesAfterRemove ==
    ASSUME StatesTyped, NEW t, states' = RemoveTarget(t)
    PROVE  StatesTyped'
  BY DEF StatesTyped, RemoveTarget, Restrict

(* What may be under way: a snapshot has a version that was there, and     *)
(* every other message is about one target.                                *)
Request == [kind : {"watch", "unwatch"}, target : Target, v : 0 .. Now]
AnyMessage == [kind : {"added", "removed", "current", "docs", "reset",
                       "filter", "snapshot", "refused"},
               targets : SUBSET Target, add : SUBSET Doc,
               remove : SUBSET Doc, v : Nat]
SoundMessage ==
    {m \in AnyMessage : IF m.kind = "snapshot" THEN m.v \in 1 .. Now
                        ELSE \E t \in Target : m.targets = {t}}

TypeInv == TypeOK /\ down \in Seq(SoundMessage) /\ history # << >>

LEMMA FunctionIsSeq ==
    ASSUME NEW M, NEW n \in Nat, NEW f \in [1 .. n -> M]
    PROVE  f \in Seq(M) /\ Len(f) = n /\ DOMAIN f = 1 .. n
  OBVIOUS

LEMMA NowType ==
    ASSUME TypeInv
    PROVE  /\ Now \in Nat \ {0}
           /\ \A t \in Target, v \in 0 .. Now :
                 Matching(t, v) \in SUBSET Doc
  <1>1. history \in Seq([Target -> SUBSET Doc]) /\ history # << >>
    BY DEF TypeInv, TypeOK
  <1>2. Len(history) \in Nat \ {0} /\ DOMAIN history = 1 .. Len(history)
    BY <1>1, EmptySeq, LenProperties
  <1>3. \A v \in 1 .. Len(history) : history[v] \in [Target -> SUBSET Doc]
    BY <1>1, ElementOfSeq
  <1>4. ASSUME NEW t \in Target, NEW v \in 0 .. Now
        PROVE  Matching(t, v) \in SUBSET Doc
    <2>1. CASE v = 0
      BY <2>1 DEF Matching
    <2>2. CASE v # 0
      <3>1. v \in 1 .. Len(history)
        BY <1>2, <2>2 DEF Now
      <3> QED
        BY <1>3, <2>2, <3>1 DEF Matching
    <2> QED
      BY <2>1, <2>2
  <1> QED
    BY <1>2, <1>4 DEF Now

(* The message that is handled.                                            *)
LEMMA MessageType ==
    ASSUME TypeInv, NEW kind, OnWatchStreamChange(kind)
    PROVE  /\ Head(down) \in SoundMessage /\ Head(down).kind = kind
           /\ down' = Tail(down) /\ Tail(down) \in Seq(SoundMessage)
           /\ kind = "snapshot" => Head(down).v \in 1 .. Now
           /\ kind # "snapshot" =>
                 About \in Target /\ Head(down).targets = {About}
  <1>1. /\ down \in Seq(SoundMessage) /\ down # << >>
        /\ Head(down).kind = kind /\ down' = Tail(down)
    BY DEF TypeInv, OnWatchStreamChange
  <1>2. Head(down) \in SoundMessage /\ Tail(down) \in Seq(SoundMessage)
    BY <1>1, HeadTailProperties
  <1>3. kind = "snapshot" => Head(down).v \in 1 .. Now
    BY <1>1, <1>2 DEF SoundMessage
  <1>4. ASSUME kind # "snapshot"
        PROVE  About \in Target /\ Head(down).targets = {About}
    <2>1. PICK t \in Target : Head(down).targets = {t}
      BY <1>1, <1>2, <1>4 DEF SoundMessage
    <2>2. About = t
      BY <2>1 DEF About
    <2> QED
      BY <2>1, <2>2
  <1> QED
    BY <1>1, <1>2, <1>3, <1>4

(* Versions are only added.                                                *)
LEMMA HistoryStep ==
    ASSUME TypeInv, [Next]_vars
    PROVE  /\ history' \in Seq([Target -> SUBSET Doc]) /\ history' # << >>
           /\ Now \in Nat /\ Now' \in Nat /\ Now <= Now'
  <1>0. /\ history \in Seq([Target -> SUBSET Doc]) /\ history # << >>
        /\ Now \in Nat \ {0}
    BY NowType DEF TypeInv, TypeOK
  <1>1. ASSUME NEW t \in Target, NEW d \in Doc, Edit(t, d)
        PROVE  /\ history' \in Seq([Target -> SUBSET Doc])
               /\ history' # << >> /\ Len(history') = Len(history) + 1
    <2> DEFINE f == [history[Now] EXCEPT ![t] =
                        IF d \in @ THEN @ \ {d} ELSE @ \cup {d}]
    <2>1. history[Now] \in [Target -> SUBSET Doc]
      BY <1>0, ElementOfSeq DEF Now
    <2>2. f \in [Target -> SUBSET Doc]
      BY <2>1
    <2>3. history' = Append(history, f)
      BY <1>1 DEF Edit
    <2> HIDE DEF f
    <2> QED
      BY <1>0, <2>2, <2>3, AppendProperties
  <1>2. CASE UNCHANGED history
    BY <1>0, <1>2 DEF Now
  <1>3. ASSUME NEW t \in Target, Listen(t) \/ StopListening(t)
        PROVE  UNCHANGED history
    BY <1>3 DEF Listen, StopListening, serverVars
  <1>4. ASSUME \/ ResumeStartWithCredentials \/ BackoffElapsed \/ IdleTimeout
               \/ OnWatchStreamClose \/ OnlineStateTimeout
               \/ RestartNetwork \/ DisableNetwork \/ EnableNetwork
        PROVE  UNCHANGED history
    BY <1>4 DEF ResumeStartWithCredentials, BackoffElapsed, IdleTimeout,
                OnWatchStreamClose, OnlineStateTimeout, RestartNetwork,
                DisableNetwork, EnableNetwork, serverVars
  <1>5. ASSUME HandleMessage
        PROVE  UNCHANGED history
    BY <1>5 DEF HandleMessage, HandleAdded, HandleRemoved, HandleCurrent,
         HandleDocumentChange, HandleReset, HandleExistenceFilter,
         IgnoreSnapshot, RaiseWatchSnapshot, ProcessTargetError,
         OnWatchStreamChange, serverVars
  <1>6. ASSUME ServerTakes \/ ServerSendsSome
        PROVE  UNCHANGED history
    BY <1>6, ServerSendsWhat DEF ServerTakes
  <1> QED
    BY <1>0, <1>1, <1>2, <1>3, <1>4, <1>5, <1>6 DEF Next, vars, Now, serverVars


(* The targets, their states and what was reset.                           *)
TargetTypes ==
    /\ listening \subseteq Target /\ resets \subseteq Target
    /\ DOMAIN states \subseteq Target
    /\ \A t \in DOMAIN states : states[t] \in AggState

LEMMA TypedTargets ==
    ASSUME TypeInv
    PROVE  /\ TargetTypes /\ StatesTyped
           /\ \A t : State(t) \in AggState
           /\ keys \in [Target -> SUBSET Doc]
  <1>1. TargetTypes /\ StatesTyped
    BY DEF TypeInv, TypeOK, TargetTypes, StatesTyped, AggState
  <1>2. keys \in [Target -> SUBSET Doc]
    BY DEF TypeInv, TypeOK
  <1> QED
    BY <1>1, <1>2, StateType

(* The state that a handler gives the target of its message.               *)
LEMMA StateHandled ==
    ASSUME TypeInv,
           \/ HandleAdded \/ HandleRemoved \/ HandleCurrent
           \/ HandleDocumentChange \/ HandleReset \/ HandleExistenceFilter
    PROVE  /\ \/ \E s \in AggState : states' = Put(About, s)
              \/ states' = RemoveTarget(About)
              \/ UNCHANGED states
           /\ resets' \subseteq Target
           /\ About \in Target
           /\ UNCHANGED <<up, listening, held, storeVars, viewVars, torn,
                          miscounted, serverVars, streamVars, since, hurried,
                          bounds>>
  <1>1. /\ State(About) \in AggState /\ keys \in [Target -> SUBSET Doc]
        /\ resets \subseteq Target
    BY TypedTargets DEF TargetTypes
  <1>2. ASSUME HandleAdded \/ HandleRemoved
        PROVE  /\ \/ \E s \in AggState : states' = Put(About, s)
                  \/ states' = RemoveTarget(About)
               /\ UNCHANGED resets
    <2>1. /\ [NoState EXCEPT !.current = State(About).current] \in AggState
          /\ [State(About) EXCEPT !.out = @ - 1] \in AggState
      BY <1>1 DEF AggState, NoState
    <2> QED
      BY <1>2, <2>1 DEF HandleAdded, HandleRemoved
  <1>3. ASSUME HandleCurrent
        PROVE  /\ \/ \E s \in AggState : states' = Put(About, s)
                  \/ UNCHANGED states
               /\ UNCHANGED resets
    <2>1. [State(About) EXCEPT !.current = TRUE] \in AggState
      BY <1>1 DEF AggState
    <2> QED
      BY <1>3, <2>1 DEF HandleCurrent, IfActive
  <1>4. ASSUME HandleDocumentChange
        PROVE  /\ \/ \E s \in AggState : states' = Put(About, s)
                  \/ UNCHANGED states
               /\ UNCHANGED resets
    <2> DEFINE m == Head(down)
               own == keys[About]
               s == [State(About) EXCEPT
                       !.added = (@ \cup (m.add \ own)) \ m.remove,
                       !.removed = (@ \ m.add) \cup (m.remove \cap own)]
    <2>1. About \in Target /\ m \in SoundMessage
      BY <1>4, MessageType DEF HandleDocumentChange
    <2>2. m.add \in SUBSET Doc /\ m.remove \in SUBSET Doc
          /\ own \in SUBSET Doc
      BY <1>1, <2>1 DEF SoundMessage, AnyMessage
    <2>3. s \in AggState
      <3> HIDE DEF m, own
      <3> QED
        BY <1>1, <2>2 DEF AggState
    <2>4. /\ states' = IF IsActiveTarget(About) THEN Put(About, s) ELSE states
          /\ UNCHANGED resets
      BY <1>4 DEF HandleDocumentChange, IfActive
    <2> HIDE DEF s
    <2> QED
      BY <2>3, <2>4
  <1>5. ASSUME HandleReset \/ HandleExistenceFilter
        PROVE  \/ \E s \in AggState : states' = Put(About, s)
               \/ UNCHANGED states
    <2>1. About \in Target
      BY <1>5, MessageType DEF HandleReset, HandleExistenceFilter
    <2>2. ResetState(About) \in AggState
      <3>1. keys[About] \in SUBSET Doc
        BY <1>1, <2>1
      <3> QED
        BY <3>1, ChangedState, Zenon DEF ResetState
    <2> QED
      BY <1>1, <1>5, <2>2 DEF HandleReset, HandleExistenceFilter, IfActive
  <1>6. About \in Target
    BY MessageType DEF HandleAdded, HandleRemoved, HandleCurrent,
       HandleDocumentChange, HandleReset, HandleExistenceFilter
  <1>7. resets' \subseteq Target
    BY <1>1, <1>2, <1>3, <1>4, <1>6 DEF HandleReset, HandleExistenceFilter
  <1>8. UNCHANGED <<up, listening, held, storeVars, viewVars, torn, miscounted,
                    serverVars, streamVars, since, hurried, bounds>>
    BY DEF HandleAdded, HandleRemoved, HandleCurrent, HandleDocumentChange,
       HandleReset, HandleExistenceFilter, OnWatchStreamChange, IfActive
  <1> QED
    BY <1>2, <1>3, <1>4, <1>5, <1>6, <1>7, <1>8

LEMMA TargetsStep ==
    ASSUME TypeInv, [Next]_vars
    PROVE  TargetTypes'
  <1> USE DEF targetVars
  <1>0. /\ TargetTypes /\ StatesTyped /\ \A t : State(t) \in AggState
        /\ keys \in [Target -> SUBSET Doc]
    BY TypedTargets
  <1>1. ASSUME StatesTyped', listening' \subseteq Target,
               resets' \subseteq Target
        PROVE  TargetTypes'
    BY <1>1 DEF TargetTypes, StatesTyped
  <1>2. ASSUME NewStream, UNCHANGED listening
        PROVE  TargetTypes'
    <2>1. DOMAIN states' = {}
      BY <1>2 DEF NewStream
    <2> QED
      BY <1>0, <1>2, <2>1 DEF NewStream, TargetTypes
  <1>3. ASSUME NEW t \in Target, Listen(t) \/ StopListening(t)
        PROVE  TargetTypes'
    <2>1. [State(t) EXCEPT !.out = @ + 1] \in AggState
      BY <1>0 DEF AggState
    <2>2. states' = Put(t, [State(t) EXCEPT !.out = @ + 1]) \/ UNCHANGED states
      BY <1>3 DEF Listen, StopListening, RecordRequest
    <2>3. StatesTyped'
      BY <1>0, <2>1, <2>2, StatesAfterPut DEF StatesTyped
    <2>4. /\ listening' \subseteq listening \cup {t}
          /\ UNCHANGED resets
      BY <1>3 DEF Listen, StopListening, Drop
    <2> QED
      BY <1>0, <1>1, <2>3, <2>4 DEF TargetTypes
  <1>4. CASE ResumeStartWithCredentials
    <2>1. /\ states' = [t \in listening |-> [NoState EXCEPT !.out = 1]]
          /\ UNCHANGED <<listening, resets>>
      BY <1>4 DEF ResumeStartWithCredentials
    <2>2. [NoState EXCEPT !.out = 1] \in AggState
      BY ChangedState
    <2> QED
      BY <1>0, <2>1, <2>2 DEF TargetTypes
  <1>5. ASSUME \/ HandleAdded \/ HandleRemoved \/ HandleCurrent
               \/ HandleDocumentChange \/ HandleReset \/ HandleExistenceFilter
        PROVE  TargetTypes'
    <2>1. /\ \/ \E s \in AggState : states' = Put(About, s)
             \/ states' = RemoveTarget(About)
             \/ UNCHANGED states
          /\ resets' \subseteq Target /\ About \in Target
          /\ UNCHANGED listening
      BY <1>5, StateHandled
    <2>2. StatesTyped'
      BY <1>0, <2>1, StatesAfterPut, StatesAfterRemove DEF StatesTyped
    <2> QED
      BY <1>0, <1>1, <2>1, <2>2 DEF TargetTypes
  <1>6. CASE RaiseWatchSnapshot
    <2> DEFINE active == {t \in DOMAIN states : IsActiveTarget(t)}
               again  == resets \cap listening
               st(t) == IF t \in active
                        THEN [states[t] EXCEPT !.added = {}, !.removed = {}]
                        ELSE states[t]
    <2>1. /\ states' = [t \in DOMAIN states |->
                  IF t \in again THEN [st(t) EXCEPT !.out = @ + 2] ELSE st(t)]
          /\ resets' = {} /\ UNCHANGED listening
      BY <1>6 DEF RaiseWatchSnapshot
    <2>2. \A t \in DOMAIN states :
              /\ st(t) \in AggState
              /\ [st(t) EXCEPT !.out = @ + 2] \in AggState
      <3>1. ASSUME NEW x \in AggState
            PROVE  /\ [x EXCEPT !.added = {}, !.removed = {}] \in AggState
                   /\ [x EXCEPT !.out = @ + 2] \in AggState
        <4>1. [x EXCEPT !.added = {}, !.removed = {}] \in AggState
          BY DEF AggState
        <4>2. [x EXCEPT !.out = @ + 2] \in AggState
          BY DEF AggState
        <4> QED
          BY <4>1, <4>2
      <3>2. \A t \in DOMAIN states : st(t) \in AggState
        BY <1>0, <3>1 DEF TargetTypes
      <3> HIDE DEF st
      <3> QED
        BY <3>1, <3>2
    <2> HIDE DEF st, again
    <2> QED
      BY <1>0, <2>1, <2>2 DEF TargetTypes
  <1>7. CASE ProcessTargetError
    <2>1. /\ listening' \subseteq listening /\ UNCHANGED resets
          /\ states' = RemoveTarget(About) \/ UNCHANGED states
      BY <1>7 DEF ProcessTargetError, Drop
    <2>2. StatesTyped'
      BY <1>0, <2>1, StatesAfterRemove DEF StatesTyped
    <2> QED
      BY <1>0, <1>1, <2>1, <2>2 DEF TargetTypes
  <1>8. CASE UNCHANGED <<listening, states, resets>>
    BY <1>0, <1>8 DEF TargetTypes
  <1>9. ASSUME \/ IdleTimeout \/ OnWatchStreamClose \/ RestartNetwork
               \/ DisableNetwork
        PROVE  NewStream /\ UNCHANGED listening
    BY <1>9 DEF IdleTimeout, OnWatchStreamClose, RestartNetwork,
                DisableNetwork
  <1>10. ASSUME \/ BackoffElapsed \/ OnlineStateTimeout \/ EnableNetwork
                \/ IgnoreSnapshot \/ ServerTakes \/ ServerSendsSome
                \/ \E t \in Target, d \in Doc : Edit(t, d)
         PROVE  UNCHANGED <<listening, states, resets>>
    BY <1>10, ServerSendsWhat DEF BackoffElapsed, OnlineStateTimeout,
       EnableNetwork, IgnoreSnapshot, ServerTakes, Edit
  <1> QED
    BY <1>2, <1>3, <1>4, <1>5, <1>6, <1>7, <1>8, <1>9, <1>10 DEF Next,
       HandleMessage, vars

(* No view is shown or current without a listener.                         *)
ViewTypes ==
    /\ current \in [Target -> BOOLEAN]
    /\ \A t \in Target : current[t] => t \in listening
    /\ shown \subseteq listening

LEMMA ViewsAfterState ==
    ASSUME TypeInv, NEW state, SetAndBroadcast(state), UNCHANGED listening
    PROVE  ViewTypes'
  BY DEF TypeInv, TypeOK, SetAndBroadcast, ViewTypes, viewVars

LEMMA ViewsAfterDrop ==
    ASSUME TypeInv, NEW t \in Target, Drop(t)
    PROVE  ViewTypes'
  BY DEF TypeInv, TypeOK, Drop, ViewTypes

LEMMA ViewsStep ==
    ASSUME TypeInv, [Next]_vars
    PROVE  ViewTypes'
  <1> USE DEF targetVars
  <1>1. ASSUME UNCHANGED <<listening, viewVars>>
        PROVE  ViewTypes'
    BY <1>1 DEF TypeInv, TypeOK, ViewTypes, viewVars
  <1>2. ASSUME NEW t \in Target, Listen(t)
        PROVE  ViewTypes'
    <2>1. /\ listening' = listening \cup {t}
          /\ current' = [current EXCEPT ![t] = FALSE]
          /\ shown' \subseteq shown \cup {t}
      BY <1>2 DEF Listen
    <2> QED
      BY <2>1 DEF TypeInv, TypeOK, ViewTypes
  <1>3. ASSUME NEW t \in Target, StopListening(t)
        PROVE  ViewTypes'
    BY <1>3, ViewsAfterDrop DEF StopListening
  <1>4. CASE OnWatchStreamClose
    <2>1. UNCHANGED listening
      BY <1>4 DEF OnWatchStreamClose
    <2>2. \/ UNCHANGED viewVars
          \/ SetAndBroadcast("Unknown") \/ SetAndBroadcast("Offline")
      BY <1>4 DEF OnWatchStreamClose, HandleWatchStreamFailure, UpdateState
    <2> QED
      BY <1>1, <2>1, <2>2, ViewsAfterState
  <1>5. CASE OnlineStateTimeout \/ DisableNetwork
    <2>1. UNCHANGED listening /\ SetAndBroadcast("Offline")
      BY <1>5 DEF OnlineStateTimeout, DisableNetwork, UpdateState
    <2> QED
      BY <2>1, ViewsAfterState
  <1>6. CASE ProcessTargetError
    <2>1. About \in Target
      BY <1>6, MessageType DEF ProcessTargetError
    <2>2. Drop(About) \/ UNCHANGED <<listening, viewVars>>
      BY <1>6 DEF ProcessTargetError
    <2> QED
      BY <1>1, <2>1, <2>2, ViewsAfterDrop
  <1>7. CASE RaiseWatchSnapshot
    <2> DEFINE active == {t \in DOMAIN states : IsActiveTarget(t)}
    <2>1. /\ current' = [t \in Target |-> IF t \in active
                                          THEN states[t].current
                                          ELSE current[t]]
          /\ shown' \subseteq shown \cup active
          /\ UNCHANGED listening
      BY <1>7 DEF RaiseWatchSnapshot
    <2>2. /\ active \subseteq listening
          /\ \A t \in active : states[t].current \in BOOLEAN
      BY DEF IsActiveTarget, TypeInv, TypeOK
    <2> HIDE DEF active
    <2> QED
      BY <2>1, <2>2 DEF TypeInv, TypeOK, ViewTypes
  <1>8. ASSUME \/ HandleAdded \/ HandleRemoved \/ HandleCurrent
               \/ HandleDocumentChange \/ HandleReset \/ HandleExistenceFilter
               \/ IgnoreSnapshot
        PROVE  UNCHANGED <<listening, viewVars>>
    BY <1>8, StateHandled DEF IgnoreSnapshot
  <1>9. ASSUME \/ ResumeStartWithCredentials \/ BackoffElapsed \/ IdleTimeout
               \/ RestartNetwork \/ EnableNetwork
               \/ ServerTakes \/ ServerSendsSome
               \/ \E t \in Target, d \in Doc : Edit(t, d)
        PROVE  UNCHANGED <<listening, viewVars>>
    BY <1>9, ServerSendsWhat DEF ResumeStartWithCredentials, BackoffElapsed,
       IdleTimeout, RestartNetwork, EnableNetwork, StartOrUnknown,
       ServerTakes, Edit
  <1> QED
    BY <1>1, <1>2, <1>3, <1>4, <1>5, <1>6, <1>7, <1>8, <1>9 DEF Next,
       HandleMessage, vars

(* What the phone keeps of the targets, and the versions it refers to.     *)
StoreTypes ==
    /\ lastRemote \in 0 .. Now
    /\ held \in [Target -> 0 .. Now] /\ token \in [Target -> 0 .. Now]
    /\ since \in [Target -> 0 .. Now]
    /\ keys \in [Target -> SUBSET Doc]

LEMMA StoreStep ==
    ASSUME TypeInv, [Next]_vars
    PROVE  StoreTypes'
  <1> USE DEF targetVars, storeVars, pastVars
  <1>0. StoreTypes
    BY DEF TypeInv, TypeOK, StoreTypes
  <1>1. Now \in Nat \ {0} /\ Now' \in Nat /\ Now <= Now'
    BY NowType, HistoryStep
  <1>2. 0 .. Now \subseteq 0 .. Now'
    BY <1>1
  <1>3. ASSUME lastRemote' \in 0 .. Now,
               held' \in [Target -> 0 .. Now], token' \in [Target -> 0 .. Now],
               since' \in [Target -> 0 .. Now],
               keys' \in [Target -> SUBSET Doc]
        PROVE  StoreTypes'
    BY <1>2, <1>3 DEF StoreTypes
  <1>4. ASSUME UNCHANGED <<lastRemote, keys, token, held, since>>
        PROVE  StoreTypes'
    BY <1>0, <1>3, <1>4 DEF StoreTypes
  <1>5. ASSUME NEW t \in Target, Listen(t)
        PROVE  StoreTypes'
    <2>1. /\ UNCHANGED <<lastRemote, keys, token>>
          /\ held' = [held EXCEPT ![t] = token[t]]
          /\ since' = [since EXCEPT ![t] = Now]
      BY <1>5 DEF Listen
    <2>2. token[t] \in 0 .. Now /\ Now \in 0 .. Now
      BY <1>0, <1>1 DEF StoreTypes
    <2> HIDE DEF Now
    <2> QED
      BY <1>0, <1>3, <2>1, <2>2 DEF StoreTypes
  <1>6. CASE RaiseWatchSnapshot
    <2> DEFINE v == Head(down).v
               active == {t \in DOMAIN states : IsActiveTarget(t)}
               again  == resets \cap listening
    <2>1. v \in 0 .. Now
      <3>1. OnWatchStreamChange("snapshot")
        BY <1>6 DEF RaiseWatchSnapshot
      <3>2. Head(down).v \in 1 .. Now
        BY <3>1, MessageType
      <3> QED
        BY <1>1, <3>2
    <2>2. /\ lastRemote' = v
          /\ token' = [t \in Target |-> IF t \in active THEN v ELSE token[t]]
          /\ held' = [t \in Target |-> CASE t \in again -> 0
                                         [] t \in active \ again -> v
                                         [] OTHER -> held[t]]
          /\ keys' = [t \in Target |->
                IF t \in active
                THEN (keys[t] \ states[t].removed) \cup states[t].added
                ELSE keys[t]]
          /\ UNCHANGED since
      BY <1>6 DEF RaiseWatchSnapshot, OnWatchStreamChange
    <2>3. \A t \in active : states[t].added \in SUBSET Doc
      BY DEF TypeInv, TypeOK
    <2>4. keys' \in [Target -> SUBSET Doc]
      BY <1>0, <2>2, <2>3 DEF StoreTypes
    <2> HIDE DEF v, active, again, Now
    <2>5. token' \in [Target -> 0 .. Now]
      BY <1>0, <2>1, <2>2 DEF StoreTypes
    <2>6. held' \in [Target -> 0 .. Now]
      <3>1. 0 \in 0 .. Now
        BY <1>1
      <3> QED
        BY <1>0, <2>1, <2>2, <3>1 DEF StoreTypes
    <2> QED
      BY <1>0, <1>3, <2>1, <2>2, <2>4, <2>5, <2>6 DEF StoreTypes
  <1>7. ASSUME \/ HandleAdded \/ HandleRemoved \/ HandleCurrent
               \/ HandleDocumentChange \/ HandleReset \/ HandleExistenceFilter
               \/ IgnoreSnapshot \/ ProcessTargetError
        PROVE  UNCHANGED <<lastRemote, keys, token, held, since>>
    BY <1>7, StateHandled DEF IgnoreSnapshot, ProcessTargetError,
                              OnWatchStreamChange
  <1>8. ASSUME \/ ResumeStartWithCredentials \/ BackoffElapsed \/ IdleTimeout
               \/ RestartNetwork \/ EnableNetwork \/ DisableNetwork
               \/ OnWatchStreamClose \/ OnlineStateTimeout
        PROVE  UNCHANGED <<lastRemote, keys, token, held, since>>
    BY <1>8 DEF ResumeStartWithCredentials, BackoffElapsed, IdleTimeout,
       RestartNetwork, EnableNetwork, DisableNetwork, OnWatchStreamClose,
       OnlineStateTimeout
  <1>9. ASSUME \/ \E t \in Target : StopListening(t)
               \/ ServerTakes \/ ServerSendsSome
               \/ \E t \in Target, d \in Doc : Edit(t, d)
        PROVE  UNCHANGED <<lastRemote, keys, token, held, since>>
    BY <1>9, ServerSendsWhat DEF StopListening, ServerTakes, Edit
  <1> QED
    BY <1>4, <1>5, <1>6, <1>7, <1>8, <1>9 DEF Next, HandleMessage, vars

(* What is under way, and what the server has sent.                        *)
MessageTypes ==
    /\ up \in Seq(Request) /\ down \in Seq(SoundMessage)
    /\ serving \in [Target -> [on : BOOLEAN, at : 0 .. Now, caught : BOOLEAN]]

LEMMA TypedMessages == TypeInv => MessageTypes
  BY DEF TypeInv, TypeOK, MessageTypes, Request

(* Versions are only added, so what referred to one still does.            *)
LEMMA MessagesStay ==
    ASSUME TypeInv, [Next]_vars
    PROVE  /\ \A s \in Seq(Request) : s \in Seq(Request')
           /\ \A s \in Seq(SoundMessage) : s \in Seq(SoundMessage')
           /\ \A s \in [Target -> [on : BOOLEAN, at : 0 .. Now,
                                   caught : BOOLEAN]] :
                 s \in [Target -> [on : BOOLEAN, at : 0 .. Now',
                                   caught : BOOLEAN]]
  <1>1. Now \in Nat \ {0} /\ Now' \in Nat /\ Now <= Now'
    BY NowType, HistoryStep
  <1>2. 0 .. Now \subseteq 0 .. Now' /\ 1 .. Now \subseteq 1 .. Now'
    BY <1>1
  <1>3. Request \subseteq Request'
    BY <1>2 DEF Request
  <1>4. SoundMessage \subseteq SoundMessage'
    BY <1>2 DEF SoundMessage
  <1>5. (\A s \in Seq(Request) : s \in Seq(Request'))
    BY <1>3, SeqMonotonic
  <1>6. \A s \in Seq(SoundMessage) : s \in Seq(SoundMessage')
    BY <1>4, SeqMonotonic
  <1> QED
    BY <1>2, <1>5, <1>6

(* Requests and messages that are made.                                    *)
LEMMA MadeTyped ==
    ASSUME TypeInv
    PROVE  /\ \A t \in Target, v \in 0 .. Now : Watch(t, v) \in Request
           /\ \A t \in Target : Unwatch(t) \in Request
           /\ \A t \in Target, kind \in {"added", "removed", "current",
                                         "reset", "refused"} :
                 Message(kind, {t}) \in SoundMessage
           /\ \A t \in Target, D \in SUBSET Doc, E \in SUBSET Doc :
                 [Message("docs", {t}) EXCEPT !.add = D, !.remove = E]
                     \in SoundMessage
           /\ \A t \in Target, n \in Nat :
                 [Message("filter", {t}) EXCEPT !.v = n] \in SoundMessage
           /\ \A v \in 1 .. Now :
                 [Message("snapshot", {}) EXCEPT !.v = v] \in SoundMessage
  <1>0. Now \in Nat \ {0}
    BY NowType
  <1>1. ASSUME NEW t \in Target, NEW v \in 0 .. Now
        PROVE  Watch(t, v) \in Request
    BY DEF Watch, Request
  <1>2. ASSUME NEW t \in Target
        PROVE  Unwatch(t) \in Request
    BY <1>0 DEF Unwatch, Request
  <1>3. ASSUME NEW t \in Target, NEW kind \in {"added", "removed", "current",
                                               "reset", "refused"}
        PROVE  Message(kind, {t}) \in SoundMessage
    BY DEF Message, SoundMessage, AnyMessage
  <1>4. ASSUME NEW t \in Target, NEW D \in SUBSET Doc, NEW E \in SUBSET Doc
        PROVE  [Message("docs", {t}) EXCEPT !.add = D, !.remove = E]
                   \in SoundMessage
    BY DEF Message, SoundMessage, AnyMessage
  <1>5. ASSUME NEW t \in Target, NEW n \in Nat
        PROVE  [Message("filter", {t}) EXCEPT !.v = n] \in SoundMessage
    BY DEF Message, SoundMessage, AnyMessage
  <1>6. ASSUME NEW v \in 1 .. Now
        PROVE  [Message("snapshot", {}) EXCEPT !.v = v] \in SoundMessage
    BY <1>0 DEF Message, SoundMessage, AnyMessage
  <1> QED
    BY <1>1, <1>2, <1>3, <1>4, <1>5, <1>6

(* What the server sends of its own accord, rather than in answer.         *)
Answers == {"added", "removed", "refused"}
Speech == {m \in SoundMessage : m.kind \notin Answers}

LEMMA SpeechTyped ==
    ASSUME TypeInv
    PROVE  /\ \A t \in Target, kind \in {"current", "reset"} :
                 Message(kind, {t}) \in Speech
           /\ \A t \in Target, D \in SUBSET Doc, E \in SUBSET Doc :
                 [Message("docs", {t}) EXCEPT !.add = D, !.remove = E]
                     \in Speech
           /\ \A t \in Target, n \in Nat :
                 [Message("filter", {t}) EXCEPT !.v = n] \in Speech
           /\ \A v \in 1 .. Now :
                 [Message("snapshot", {}) EXCEPT !.v = v] \in Speech
  <1>1. \A t \in Target, kind \in {"current", "reset"} :
           Message(kind, {t}) \in Speech
    BY MadeTyped DEF Speech, Answers, Message
  <1>2. ASSUME NEW t \in Target, NEW D \in SUBSET Doc, NEW E \in SUBSET Doc
        PROVE  [Message("docs", {t}) EXCEPT !.add = D, !.remove = E] \in Speech
    <2>1. [Message("docs", {t}) EXCEPT !.add = D, !.remove = E].kind = "docs"
      BY DEF Message
    <2> QED
      BY <2>1, MadeTyped, Zenon DEF Speech, Answers
  <1>3. ASSUME NEW t \in Target, NEW n \in Nat
        PROVE  [Message("filter", {t}) EXCEPT !.v = n] \in Speech
    <2>1. [Message("filter", {t}) EXCEPT !.v = n].kind = "filter"
      BY DEF Message
    <2> QED
      BY <2>1, MadeTyped, Zenon DEF Speech, Answers
  <1>4. ASSUME NEW v \in 1 .. Now
        PROVE  [Message("snapshot", {}) EXCEPT !.v = v] \in Speech
    <2>1. [Message("snapshot", {}) EXCEPT !.v = v].kind = "snapshot"
      BY DEF Message
    <2> QED
      BY <2>1, MadeTyped, Zenon DEF Speech, Answers
  <1> QED
    BY <1>1, <1>2, <1>3, <1>4

-----------------------------------------------------------------------------
(* What the messages under way make of a query's documents.                *)

(* What the server counts on: message m makes the documents A of query t   *)
(* into B.  A filter that fits leaves them as they are, and a snapshot     *)
(* finds those that matched at its version.                                *)
Moves(past, t, A, m, B) ==
    IF m.kind = "snapshot" THEN B = A /\ A = past[m.v][t]
    ELSE IF m.targets # {t} THEN B = A
    ELSE IF m.kind = "docs" THEN /\ B = (A \ m.remove) \cup m.add
                                 /\ m.add \cap m.remove = {}
    ELSE IF m.kind = "reset" THEN B = {}
    ELSE IF m.kind = "filter" THEN Cardinality(A) = m.v => B = A
    ELSE B = A

\* The messages of s behind place k make A into B.
Leads(past, t, s, k, A, B) ==
    \E f \in [k .. Len(s) -> SUBSET Doc] :
        /\ f[k] = A /\ f[Len(s)] = B
        /\ \A i \in k + 1 .. Len(s) : Moves(past, t, f[i - 1], s[i], f[i])

Quiet(m, t) ==
    /\ m.kind # "snapshot"
    /\ m.targets # {t} \/ m.kind \notin {"docs", "reset", "filter"}

LEMMA QuietMoves ==
    ASSUME NEW past, NEW t, NEW m, Quiet(m, t), NEW A
    PROVE  Moves(past, t, A, m, A)
  BY DEF Quiet, Moves

LEMMA LeadsQuiet ==
    ASSUME NEW past, NEW M, NEW s \in Seq(M), NEW t, NEW A \in SUBSET Doc,
           \A i \in DOMAIN s : Quiet(s[i], t)
    PROVE  Leads(past, t, s, 0, A, A)
  <1> DEFINE f == [i \in 0 .. Len(s) |-> A]
  <1>1. Len(s) \in Nat /\ DOMAIN s = 1 .. Len(s)
    BY LenProperties
  <1>2. f \in [0 .. Len(s) -> SUBSET Doc] /\ f[0] = A /\ f[Len(s)] = A
    BY <1>1
  <1>3. ASSUME NEW i \in 0 + 1 .. Len(s)
        PROVE  Moves(past, t, f[i - 1], s[i], f[i])
    <2>1. f[i - 1] = A /\ f[i] = A /\ i \in DOMAIN s
      BY <1>1
    <2> HIDE DEF f
    <2> QED
      BY <2>1, QuietMoves
  <1> HIDE DEF f
  <1> QED
    BY <1>2, <1>3 DEF Leads

(* One message alone matters.                                              *)
LEMMA LeadsOnce ==
    ASSUME NEW past, NEW M, NEW s \in Seq(M), NEW t, NEW p \in DOMAIN s,
           NEW A \in SUBSET Doc, NEW B \in SUBSET Doc,
           Moves(past, t, A, s[p], B),
           \A i \in DOMAIN s : i # p => Quiet(s[i], t)
    PROVE  Leads(past, t, s, 0, A, B)
  <1> DEFINE f == [i \in 0 .. Len(s) |-> IF i < p THEN A ELSE B]
  <1>1. Len(s) \in Nat /\ DOMAIN s = 1 .. Len(s) /\ p \in 1 .. Len(s)
    BY LenProperties
  <1>2. f \in [0 .. Len(s) -> SUBSET Doc] /\ f[0] = A /\ f[Len(s)] = B
    BY <1>1
  <1>3. ASSUME NEW i \in 0 + 1 .. Len(s)
        PROVE  Moves(past, t, f[i - 1], s[i], f[i])
    <2>1. /\ i \in DOMAIN s
          /\ f[i - 1] = IF i - 1 < p THEN A ELSE B
          /\ f[i] = IF i < p THEN A ELSE B
      BY <1>1
    <2> HIDE DEF f
    <2>2. CASE i = p
      BY <1>1, <2>1, <2>2
    <2>3. CASE i # p
      <3>1. f[i] = f[i - 1] /\ Quiet(s[i], t)
        BY <1>1, <2>1, <2>3
      <3> QED
        BY <3>1, QuietMoves
    <2> QED
      BY <2>2, <2>3
  <1> HIDE DEF f
  <1> QED
    BY <1>2, <1>3 DEF Leads

LEMMA LeadsOn ==
    ASSUME NEW past, NEW M, NEW s \in Seq(M), NEW x \in Seq(M), NEW t,
           NEW k \in 0 .. Len(s), NEW A, NEW B, NEW C,
           Leads(past, t, s, k, A, B), Leads(past, t, x, 0, B, C)
    PROVE  Leads(past, t, s \o x, k, A, C)
  <1> DEFINE r == s \o x
             n == Len(s)
             m == Len(x)
  <1>1. /\ Len(r) = n + m /\ n \in Nat /\ m \in Nat
        /\ \A i \in 1 .. n + m : r[i] = IF i <= n THEN s[i] ELSE x[i - n]
    BY ConcatProperties, LenProperties
  <1>2. PICK f \in [k .. n -> SUBSET Doc] :
            /\ f[k] = A /\ f[n] = B
            /\ \A i \in k + 1 .. n : Moves(past, t, f[i - 1], s[i], f[i])
    BY DEF Leads
  <1>3. PICK g \in [0 .. m -> SUBSET Doc] :
            /\ g[0] = B /\ g[m] = C
            /\ \A i \in 0 + 1 .. m : Moves(past, t, g[i - 1], x[i], g[i])
    BY DEF Leads
  <1> DEFINE h == [i \in k .. n + m |-> IF i <= n THEN f[i] ELSE g[i - n]]
  <1> HIDE DEF r, n, m
  <1>4. k \in 0 .. n
    BY DEF n
  <1>5. h \in [k .. n + m -> SUBSET Doc]
    BY <1>1, <1>2, <1>3, <1>4
  <1>6. h[k] = A /\ h[n + m] = C
    <2>1. k \in k .. n + m /\ n + m \in k .. n + m /\ k <= n
          /\ (n + m) - n = m
      BY <1>1, <1>4
    <2>2. n + m <= n => m = 0 /\ n + m = n
      BY <1>1
    <2> QED
      BY <1>2, <1>3, <2>1, <2>2
  <1>7. ASSUME NEW i \in k + 1 .. n + m
        PROVE  Moves(past, t, h[i - 1], r[i], h[i])
    <2>0. i \in 1 .. n + m /\ i - 1 \in k .. n + m /\ i \in k .. n + m
      BY <1>1, <1>4
    <2>1. CASE i <= n
      <3>1. h[i - 1] = f[i - 1] /\ h[i] = f[i] /\ r[i] = s[i]
            /\ i \in k + 1 .. n
        BY <1>1, <1>4, <2>0, <2>1
      <3> QED
        BY <1>2, <3>1
    <2>2. CASE ~(i <= n)
      <3>1. /\ h[i] = g[i - n] /\ r[i] = x[i - n] /\ i - n \in 0 + 1 .. m
        BY <1>1, <1>4, <2>0, <2>2
      <3>2. h[i - 1] = g[(i - n) - 1]
        <4>1. CASE i - 1 <= n
          <5>1. i - 1 = n /\ (i - n) - 1 = 0
            BY <1>1, <2>0, <2>2, <4>1
          <5>2. h[i - 1] = f[n]
            BY <2>0, <4>1, <5>1
          <5> QED
            BY <1>2, <1>3, <5>1, <5>2
        <4>2. CASE ~(i - 1 <= n)
          <5>1. (i - 1) - n = (i - n) - 1
            BY <1>1, <2>0
          <5> QED
            BY <2>0, <4>2, <5>1
        <4> QED
          BY <4>1, <4>2
      <3> HIDE DEF h
      <3> QED
        BY <1>3, <3>1, <3>2
    <2> QED
      BY <2>1, <2>2
  <1> HIDE DEF h
  <1> QED
    BY <1>1, <1>5, <1>6, <1>7 DEF Leads, r

(* The first message is taken.                                             *)
LEMMA LeadsTail ==
    ASSUME NEW past, NEW M, NEW s \in Seq(M), s # << >>, NEW t,
           NEW k \in 1 .. Len(s), NEW A, NEW B, Leads(past, t, s, k, A, B)
    PROVE  Leads(past, t, Tail(s), k - 1, A, B)
  <1> DEFINE r == Tail(s)
  <1>1. /\ Len(r) = Len(s) - 1 /\ Len(s) \in Nat
        /\ \A i \in 1 .. Len(r) : r[i] = s[i + 1]
    BY HeadTailProperties, LenProperties
  <1>2. PICK f \in [k .. Len(s) -> SUBSET Doc] :
            /\ f[k] = A /\ f[Len(s)] = B
            /\ \A i \in k + 1 .. Len(s) : Moves(past, t, f[i - 1], s[i], f[i])
    BY DEF Leads
  <1> DEFINE h == [i \in k - 1 .. Len(r) |-> f[i + 1]]
  <1> HIDE DEF r
  <1>3. h \in [k - 1 .. Len(r) -> SUBSET Doc]
        /\ h[k - 1] = A /\ h[Len(r)] = B
    BY <1>1, <1>2
  <1>4. ASSUME NEW i \in (k - 1) + 1 .. Len(r)
        PROVE  Moves(past, t, h[i - 1], r[i], h[i])
    <2>1. /\ i + 1 \in k + 1 .. Len(s) /\ r[i] = s[i + 1]
          /\ h[i] = f[i + 1] /\ h[i - 1] = f[(i + 1) - 1]
      BY <1>1
    <2> HIDE DEF h
    <2> QED
      BY <1>2, <2>1
  <1> HIDE DEF h
  <1> QED
    BY <1>3, <1>4 DEF Leads, r

LEMMA LeadsHead ==
    ASSUME NEW past, NEW M, NEW s \in Seq(M), s # << >>, NEW t, NEW A, NEW B,
           Leads(past, t, s, 0, A, B)
    PROVE  \E C \in SUBSET Doc : /\ Moves(past, t, A, Head(s), C)
                                 /\ Leads(past, t, Tail(s), 0, C, B)
  <1>1. /\ Len(s) \in Nat \ {0} /\ Head(s) = s[1]
    BY HeadTailProperties, LenProperties, EmptySeq
  <1>2. PICK f \in [0 .. Len(s) -> SUBSET Doc] :
            /\ f[0] = A /\ f[Len(s)] = B
            /\ \A i \in 0 + 1 .. Len(s) : Moves(past, t, f[i - 1], s[i], f[i])
    BY DEF Leads
  <1>3. 1 \in 0 + 1 .. Len(s) /\ 1 - 1 = 0
    BY <1>1
  <1>4. Moves(past, t, A, Head(s), f[1]) /\ f[1] \in SUBSET Doc
    BY <1>1, <1>2, <1>3
  <1>5. Leads(past, t, s, 1, f[1], B)
    <2> DEFINE g == [i \in 1 .. Len(s) |-> f[i]]
    <2>1. g \in [1 .. Len(s) -> SUBSET Doc] /\ g[1] = f[1] /\ g[Len(s)] = B
      BY <1>1, <1>2
    <2>2. ASSUME NEW i \in 1 + 1 .. Len(s)
          PROVE  Moves(past, t, g[i - 1], s[i], g[i])
      <3>1. g[i - 1] = f[i - 1] /\ g[i] = f[i] /\ i \in 0 + 1 .. Len(s)
        BY <1>1
      <3> HIDE DEF g
      <3> QED
        BY <1>2, <3>1
    <2> HIDE DEF g
    <2> QED
      BY <2>1, <2>2 DEF Leads
  <1>6. Leads(past, t, Tail(s), 0, f[1], B)
    <2>1. 1 \in 1 .. Len(s) /\ 1 - 1 = 0
      BY <1>1
    <2>2. Leads(past, t, Tail(s), 1 - 1, f[1], B)
      BY <1>5, <2>1, LeadsTail
    <2> QED
      BY <2>1, <2>2
  <1> QED
    BY <1>4, <1>6

(* What the server sends of its own accord is one message for each query   *)
(* of some, several times, and the snapshot.                               *)
ByQuery(S, g) == [i \in 1 .. Cardinality(S) |-> g[SetToSeq(S)[i]]]

LEMMA ByQueryLeads ==
    ASSUME NEW past, NEW S \in SUBSET Target, NEW g,
           \A u \in S : /\ g[u] \in Speech /\ g[u].kind # "snapshot"
                        /\ g[u].targets = {u}
    PROVE  /\ ByQuery(S, g) \in Seq(Speech)
           /\ \A i \in DOMAIN ByQuery(S, g) :
                 \E u \in S : ByQuery(S, g)[i] = g[u]
           /\ \A t \in S, A \in SUBSET Doc, B \in SUBSET Doc :
                 Moves(past, t, A, g[t], B) =>
                     Leads(past, t, ByQuery(S, g), 0, A, B)
           /\ \A t \in Target \ S, A \in SUBSET Doc :
                 Leads(past, t, ByQuery(S, g), 0, A, A)
  <1> DEFINE s == ByQuery(S, g)
             n == Cardinality(S)
             e == SetToSeq(S)
  <1>1. /\ n \in Nat /\ \A i \in 1 .. n : e[i] \in S
        /\ \A i, j \in 1 .. n : e[i] = e[j] => i = j
        /\ \A x \in S : \E i \in 1 .. n : e[i] = x
    BY FiniteTargets, SetAsSequence
  <1>2. s = [i \in 1 .. n |-> g[e[i]]]
    BY DEF ByQuery
  <1> HIDE DEF n, e, s
  <1>3. s \in [1 .. n -> Speech]
    BY <1>1, <1>2
  <1>4. s \in Seq(Speech) /\ DOMAIN s = 1 .. n
    BY <1>1, <1>3, FunctionIsSeq
  <1>5. \A i \in DOMAIN s : e[i] \in S /\ s[i] = g[e[i]]
    BY <1>1, <1>2, <1>4
  <1>6. ASSUME NEW t \in Target, NEW i \in DOMAIN s, e[i] # t
        PROVE  Quiet(s[i], t)
    BY <1>5, <1>6 DEF Quiet
  <1>8. ASSUME NEW t \in S, NEW A \in SUBSET Doc, NEW B \in SUBSET Doc,
               Moves(past, t, A, g[t], B)
        PROVE  Leads(past, t, s, 0, A, B)
    <2>1. PICK p \in 1 .. n : e[p] = t
      BY <1>1
    <2>2. p \in DOMAIN s /\ Moves(past, t, A, s[p], B)
      BY <1>4, <1>5, <1>8, <2>1
    <2>3. \A i \in DOMAIN s : i # p => Quiet(s[i], t)
      BY <1>1, <1>4, <1>6, <2>1
    <2> QED
      BY <1>4, <2>2, <2>3, LeadsOnce
  <1>9. ASSUME NEW t \in Target \ S, NEW A \in SUBSET Doc
        PROVE  Leads(past, t, s, 0, A, A)
    <2>1. \A i \in DOMAIN s : Quiet(s[i], t)
      BY <1>5, <1>6
    <2> QED
      BY <1>4, <2>1, LeadsQuiet
  <1>7. \A i \in DOMAIN s : \E u \in S : s[i] = g[u]
    BY <1>5
  <1> QED
    BY <1>4, <1>7, <1>8, <1>9 DEF s

(* The server brings its queries to version v.                             *)
Brings(more, v) ==
    /\ more \in Seq(Speech)
    /\ \A t \in Target : serving[t].on =>
          Leads(history, t, more, 0, Matching(t, serving[t].at),
                Matching(t, v))
    /\ \A i \in DOMAIN more : /\ more[i].kind = "snapshot" => more[i].v = v
                              /\ more[i].kind = "current" => v = Now

LEMMA ServerBrings ==
    ASSUME TypeInv, NEW v \in 1 .. Now, NEW caught \in BOOLEAN,
           NEW how \in [Target -> {"changes", "filter", "all"}],
           ServerSends(v, how, caught)
    PROVE  \E more : down' = down \o more /\ Brings(more, v)
  <1> DEFINE Turns(t, s, A, B) == Leads(history, t, s, 0, A, B)
             on == {t \in Target : serving[t].on}
             old(t) == IF how[t] = "all" THEN {}
                       ELSE Matching(t, serving[t].at)
             add(t) == Matching(t, v) \ old(t)
             remove(t) == IF how[t] = "changes" THEN old(t) \ Matching(t, v)
                          ELSE {}
             resetOnes == {t \in on : how[t] = "all"}
             changed == {t \in on : add(t) \cup remove(t) # {}}
             counted == {t \in on : how[t] = "filter"}
             caughtUp == IF caught THEN on ELSE {}
             ga == [t \in resetOnes |-> Message("reset", {t})]
             gb == [t \in changed |-> [Message("docs", {t}) EXCEPT
                                   !.add = add(t), !.remove = remove(t)]]
             gc == [t \in counted |-> [Message("filter", {t}) EXCEPT
                                          !.v = Cardinality(Matching(t, v))]]
             gd == [t \in caughtUp |-> Message("current", {t})]
             a == ByQuery(resetOnes, ga)
             b == ByQuery(changed, gb)
             c == ByQuery(counted, gc)
             d == ByQuery(caughtUp, gd)
             m == [Message("snapshot", {}) EXCEPT !.v = v]
             e == <<m>>
  <1>0. /\ resetOnes \in SUBSET Target /\ changed \in SUBSET Target
        /\ counted \in SUBSET Target /\ caughtUp \in SUBSET Target
    OBVIOUS
  <1>1. /\ a = [i \in 1 .. Cardinality(resetOnes) |->
                   Message("reset", {SetToSeq(resetOnes)[i]})]
        /\ b = [i \in 1 .. Cardinality(changed) |->
                   [Message("docs", {SetToSeq(changed)[i]}) EXCEPT
                       !.add = add(SetToSeq(changed)[i]),
                       !.remove = remove(SetToSeq(changed)[i])]]
        /\ c = [i \in 1 .. Cardinality(counted) |->
                   [Message("filter", {SetToSeq(counted)[i]}) EXCEPT
                       !.v = Cardinality(Matching(SetToSeq(counted)[i], v))]]
        /\ d = [i \in 1 .. Cardinality(caughtUp) |->
                   Message("current", {SetToSeq(caughtUp)[i]})]
    <2>1. /\ \A i \in 1 .. Cardinality(resetOnes) :
                SetToSeq(resetOnes)[i] \in resetOnes
          /\ \A i \in 1 .. Cardinality(changed) :
                SetToSeq(changed)[i] \in changed
          /\ \A i \in 1 .. Cardinality(counted) :
                SetToSeq(counted)[i] \in counted
          /\ \A i \in 1 .. Cardinality(caughtUp) :
                SetToSeq(caughtUp)[i] \in caughtUp
      BY <1>0, FiniteTargets, SetAsSequence
    <2> HIDE DEF resetOnes, changed, counted, caughtUp, add, remove
    <2> QED
      BY <2>1 DEF ByQuery
  <1>2. down' = down \o a \o b \o c \o d \o e
    <2>1. down' = down \o [i \in 1 .. Cardinality(resetOnes) |->
                              Message("reset", {SetToSeq(resetOnes)[i]})]
              \o [i \in 1 .. Cardinality(changed) |->
                     [Message("docs", {SetToSeq(changed)[i]}) EXCEPT
                         !.add = add(SetToSeq(changed)[i]),
                         !.remove = remove(SetToSeq(changed)[i])]]
              \o [i \in 1 .. Cardinality(counted) |->
                     [Message("filter", {SetToSeq(counted)[i]}) EXCEPT
                         !.v = Cardinality(Matching(SetToSeq(counted)[i], v))]]
              \o [i \in 1 .. Cardinality(caughtUp) |->
                     Message("current", {SetToSeq(caughtUp)[i]})]
              \o e
      BY DEF ServerSends, ForEach
    <2> HIDE DEF a, b, c, d, e, resetOnes, changed, counted, caughtUp, add,
                 remove
    <2> QED
      BY <1>1, <2>1
  <1>3. /\ Now \in Nat \ {0} /\ \A t \in Target : serving[t].at \in 0 .. Now
        /\ \A t \in Target, n \in 0 .. Now : Matching(t, n) \in SUBSET Doc
        /\ caught => v = Now
    BY NowType DEF TypeInv, TypeOK, ServerSends
  <1>4. v \in 0 .. Now /\ \A t \in Target : Matching(t, v) \in SUBSET Doc
    BY <1>3
  <1>5. ASSUME NEW t \in Target
        PROVE  /\ old(t) \in SUBSET Doc
               /\ add(t) \in SUBSET Doc /\ remove(t) \in SUBSET Doc
               /\ Cardinality(Matching(t, v)) \in Nat
    <2>1. old(t) \in SUBSET Doc /\ Matching(t, v) \in SUBSET Doc
      BY <1>3, <1>4
    <2>2. IsFiniteSet(Matching(t, v))
      BY <2>1, WatchTargetsAssumption, FS_Subset
    <2>3. Cardinality(Matching(t, v)) \in Nat
      BY <2>2, FS_CardinalityType
    <2> HIDE DEF old
    <2> QED
      BY <2>1, <2>3
  \* What each part makes of the documents of a query.
  <1> DEFINE brought(t) == (old(t) \ remove(t)) \cup add(t)
  <1>6. /\ a \in Seq(Speech)
        /\ \A i \in DOMAIN a : a[i].kind = "reset"
        /\ \A t \in on : Turns(t, a, Matching(t, serving[t].at), old(t))
    <2>1. \A t \in resetOnes : /\ ga[t] \in Speech /\ ga[t].kind = "reset"
                               /\ ga[t].targets = {t}
      BY <1>0, SpeechTyped DEF Message
    <2>2. \A t \in resetOnes : \A A : Moves(history, t, A, ga[t], {})
      BY <2>1 DEF Moves
    <2>3. \A t \in resetOnes : old(t) = {}
      OBVIOUS
    <2>4. \A t \in on \ resetOnes : old(t) = Matching(t, serving[t].at)
      OBVIOUS
    <2>5. on \subseteq Target
      OBVIOUS
    <2>6. \A t \in Target : Matching(t, serving[t].at) \in SUBSET Doc
      BY <1>3
    <2> HIDE DEF ga, resetOnes, old, on
    <2>7. \A t \in resetOnes : ga[t].kind # "snapshot"
      BY <2>1
    <2>8. /\ a \in Seq(Speech)
          /\ \A i \in DOMAIN a : \E u \in resetOnes : a[i] = ga[u]
          /\ \A t \in resetOnes, A \in SUBSET Doc, B \in SUBSET Doc :
                Moves(history, t, A, ga[t], B) => Turns(t, a, A, B)
          /\ \A t \in Target \ resetOnes, A \in SUBSET Doc :
                Turns(t, a, A, A)
      BY <1>0, <2>1, <2>7, ByQueryLeads
    <2> HIDE DEF a
    <2>9. \A t \in resetOnes :
             Turns(t, a, Matching(t, serving[t].at), old(t))
      BY <1>0, <2>2, <2>3, <2>6, <2>8
    <2> QED
      BY <1>0, <2>1, <2>4, <2>5, <2>6, <2>8, <2>9
  <1>7. /\ b \in Seq(Speech)
        /\ \A i \in DOMAIN b : b[i].kind = "docs"
        /\ \A t \in on : Turns(t, b, old(t), brought(t))
    <2>1. ASSUME NEW t \in changed
          PROVE  /\ gb[t] \in Speech /\ gb[t].kind = "docs"
                 /\ gb[t].targets = {t}
                 /\ gb[t].add = add(t) /\ gb[t].remove = remove(t)
      <3>1. gb[t] = [Message("docs", {t}) EXCEPT !.add = add(t),
                                                 !.remove = remove(t)]
        OBVIOUS
      <3>2. t \in Target /\ add(t) \in SUBSET Doc /\ remove(t) \in SUBSET Doc
        BY <1>0, <1>5
      <3> HIDE DEF gb, add, remove, changed
      <3>3. [Message("docs", {t}) EXCEPT !.add = add(t), !.remove = remove(t)]
                \in Speech
        BY <3>2, SpeechTyped, Zenon
      <3> QED
        BY <3>1, <3>3 DEF Message
    <2>2. \A t : add(t) \cap remove(t) = {}
      OBVIOUS
    <2>3. ASSUME NEW t \in changed
          PROVE  Moves(history, t, old(t), gb[t], brought(t))
      <3> HIDE DEF gb, add, remove, old, changed
      <3> QED
        BY <2>1, <2>2 DEF Moves
    <2>4. \A t \in on \ changed : old(t) = brought(t)
      OBVIOUS
    <2>5. on \subseteq Target
      OBVIOUS
    <2>6. \A t \in Target : brought(t) \in SUBSET Doc
      BY <1>5
    <2> HIDE DEF gb, changed, old, on, brought
    <2>7. \A t \in changed : gb[t].kind # "snapshot"
      BY <2>1
    <2>8. /\ b \in Seq(Speech)
          /\ \A i \in DOMAIN b : \E u \in changed : b[i] = gb[u]
          /\ \A t \in changed, A \in SUBSET Doc, B \in SUBSET Doc :
                Moves(history, t, A, gb[t], B) => Turns(t, b, A, B)
          /\ \A t \in Target \ changed, A \in SUBSET Doc :
                Turns(t, b, A, A)
      BY <1>0, <2>1, <2>7, ByQueryLeads
    <2> HIDE DEF b
    <2>9. \A t \in changed : Turns(t, b, old(t), brought(t))
      BY <1>0, <2>3, <1>5, <2>6, <2>8
    <2>10. \A t \in on \ changed : Turns(t, b, old(t), brought(t))
      BY <2>4, <2>5, <2>6, <2>8
    <2>11. \A i \in DOMAIN b : b[i].kind = "docs"
      <3>1. \A u \in changed : gb[u].kind = "docs"
        BY <2>1
      <3> QED
        BY <2>8, <3>1, Zenon
    <2> QED
      BY <2>8, <2>9, <2>10, <2>11
  <1>8. /\ c \in Seq(Speech)
        /\ \A i \in DOMAIN c : c[i].kind = "filter"
        /\ \A t \in on : Turns(t, c, brought(t), Matching(t, v))
    <2>1. ASSUME NEW t \in counted
          PROVE  /\ gc[t] \in Speech /\ gc[t].kind = "filter"
                 /\ gc[t].targets = {t}
                 /\ gc[t].v = Cardinality(Matching(t, v))
      <3>1. gc[t] = [Message("filter", {t}) EXCEPT
                        !.v = Cardinality(Matching(t, v))]
        OBVIOUS
      <3>2. t \in Target /\ Cardinality(Matching(t, v)) \in Nat
        BY <1>0, <1>5
      <3> HIDE DEF gc, counted
      <3>3. [Message("filter", {t}) EXCEPT !.v = Cardinality(Matching(t, v))]
                \in Speech
        BY <3>2, SpeechTyped, Zenon
      <3> QED
        BY <3>1, <3>3 DEF Message
    <2>2. ASSUME NEW t \in counted
          PROVE  Moves(history, t, brought(t), gc[t], Matching(t, v))
      <3>1. Matching(t, v) \subseteq brought(t)
        BY DEF brought
      <3>2. brought(t) \in SUBSET Doc
        BY <1>0, <1>5
      <3>3. IsFiniteSet(brought(t))
        BY <3>2, WatchTargetsAssumption, FS_Subset
      <3> HIDE DEF gc, brought, counted
      <3>4. Cardinality(brought(t)) = Cardinality(Matching(t, v)) =>
                brought(t) = Matching(t, v)
        BY <3>1, <3>3, FS_Subset
      <3> QED
        BY <2>1, <3>4 DEF Moves
    <2>3. \A t \in on \ counted : brought(t) = Matching(t, v)
      <3>1. \A t \in on \ counted : how[t] \in {"changes", "all"}
        OBVIOUS
      <3> QED
        BY <3>1
    <2>4. on \subseteq Target
      OBVIOUS
    <2>5. \A t \in Target : brought(t) \in SUBSET Doc
      BY <1>5
    <2> HIDE DEF gc, counted, on, brought
    <2>7. \A t \in counted : gc[t].kind # "snapshot"
      BY <2>1
    <2>8. /\ c \in Seq(Speech)
          /\ \A i \in DOMAIN c : \E u \in counted : c[i] = gc[u]
          /\ \A t \in counted, A \in SUBSET Doc, B \in SUBSET Doc :
                Moves(history, t, A, gc[t], B) => Turns(t, c, A, B)
          /\ \A t \in Target \ counted, A \in SUBSET Doc :
                Turns(t, c, A, A)
      BY <1>0, <2>1, <2>7, ByQueryLeads
    <2> HIDE DEF c
    <2>9. \A t \in counted : Turns(t, c, brought(t), Matching(t, v))
      BY <1>0, <2>2, <1>4, <2>5, <2>8
    <2> QED
      BY <1>0, <2>1, <2>3, <2>4, <1>4, <2>5, <2>8, <2>9
  <1>9. /\ d \in Seq(Speech)
        /\ \A i \in DOMAIN d : d[i].kind = "current" /\ caught
        /\ \A t \in on : Turns(t, d, Matching(t, v), Matching(t, v))
    <2>1. \A t \in caughtUp : /\ gd[t] \in Speech /\ gd[t].kind = "current"
                              /\ gd[t].targets = {t} /\ caught
      BY <1>0, SpeechTyped DEF Message
    <2>2. \A t \in caughtUp : \A A : Moves(history, t, A, gd[t], A)
      BY <2>1 DEF Moves
    <2>3. on \subseteq Target
      OBVIOUS
    <2> HIDE DEF gd, caughtUp, on
    <2>7. \A t \in caughtUp : gd[t].kind # "snapshot"
      BY <2>1
    <2>8. /\ d \in Seq(Speech)
          /\ \A i \in DOMAIN d : \E u \in caughtUp : d[i] = gd[u]
          /\ \A t \in caughtUp, A \in SUBSET Doc, B \in SUBSET Doc :
                Moves(history, t, A, gd[t], B) => Turns(t, d, A, B)
          /\ \A t \in Target \ caughtUp, A \in SUBSET Doc :
                Turns(t, d, A, A)
      BY <1>0, <2>1, <2>7, ByQueryLeads
    <2> HIDE DEF d
    <2>9. \A t \in caughtUp : Turns(t, d, Matching(t, v), Matching(t, v))
      BY <1>0, <2>2, <1>4, <2>8
    <2> QED
      BY <1>0, <2>1, <2>3, <1>4, <2>8, <2>9
  <1>10. /\ e \in Seq(Speech)
         /\ \A i \in DOMAIN e : e[i].kind = "snapshot" /\ e[i].v = v
         /\ \A t \in on : Turns(t, e, Matching(t, v), Matching(t, v))
    <2>1. m \in Speech /\ m.kind = "snapshot" /\ m.v = v
      BY SpeechTyped DEF Message
    <2> HIDE DEF m
    <2>2. e \in Seq(Speech) /\ DOMAIN e = {1} /\ e[1] = m
      BY <2>1
    <2>3. ASSUME NEW t \in on
          PROVE  Turns(t, e, Matching(t, v), Matching(t, v))
      <3>1. Moves(history, t, Matching(t, v), e[1], Matching(t, v))
        <4>1. Matching(t, v) = history[v][t]
          BY DEF Matching
        <4> HIDE DEF e
        <4> QED
          BY <2>1, <2>2, <4>1 DEF Moves
      <3>2. Matching(t, v) \in SUBSET Doc /\ t \in Target
        BY <1>4
      <3> HIDE DEF e
      <3> QED
        BY <2>2, <3>1, <3>2, LeadsOnce
    <2> QED
      BY <2>1, <2>2, <2>3
  <1> HIDE DEF a, b, c, d, e, on, old, brought
  <1>11. \A t \in on : /\ Turns(t, a \o b, Matching(t, serving[t].at),
                                brought(t))
                       /\ Turns(t, a \o b \o c, Matching(t, serving[t].at),
                                Matching(t, v))
    <2>1. 0 \in 0 .. Len(a) /\ a \o b \in Seq(Speech)
      BY <1>6, <1>7, LenProperties, ConcatProperties
    <2>2. \A t \in on : Turns(t, a \o b, Matching(t, serving[t].at),
                              brought(t))
      BY <1>6, <1>7, <2>1, LeadsOn
    <2>3. 0 \in 0 .. Len(a \o b)
      BY <2>1, LenProperties
    <2> QED
      BY <1>8, <2>1, <2>2, <2>3, LeadsOn
  <1> DEFINE abc == a \o b \o c
             abcd == abc \o d
             more == abcd \o e
  <1>12. /\ abc \in Seq(Speech) /\ abcd \in Seq(Speech) /\ more \in Seq(Speech)
         /\ a \o b \in Seq(Speech)
    <2>1. a \o b \in Seq(Speech)
      BY <1>6, <1>7, ConcatProperties
    <2>2. abc \in Seq(Speech)
      BY <1>8, <2>1, ConcatProperties
    <2> HIDE DEF abc
    <2>3. abcd \in Seq(Speech)
      BY <1>9, <2>2, ConcatProperties
    <2> HIDE DEF abcd
    <2> QED
      BY <1>10, <2>1, <2>2, <2>3, ConcatProperties
  <1>13. \A t \in on : Turns(t, more, Matching(t, serving[t].at),
                             Matching(t, v))
    <2>1. 0 \in 0 .. Len(abc) /\ 0 \in 0 .. Len(abcd)
      BY <1>12, LenProperties
    <2> HIDE DEF abc
    <2>2. \A t \in on : Turns(t, abcd, Matching(t, serving[t].at),
                              Matching(t, v))
      BY <1>9, <1>11, <1>12, <2>1, LeadsOn DEF abc
    <2> HIDE DEF abcd
    <2> QED
      BY <1>10, <1>12, <2>1, <2>2, LeadsOn
  <1>14. \A i \in DOMAIN more : /\ more[i].kind = "snapshot" => more[i].v = v
                                /\ more[i].kind = "current" => v = Now
    <2> DEFINE Good(x) == /\ x.kind = "snapshot" => x.v = v
                          /\ x.kind = "current" => v = Now
    <2>1. ASSUME NEW x \in Seq(Speech), NEW y \in Seq(Speech),
                 \A i \in DOMAIN x : Good(x[i]),
                 \A i \in DOMAIN y : Good(y[i])
          PROVE  \A i \in DOMAIN (x \o y) : Good((x \o y)[i])
      <3>1. /\ x \o y \in Seq(Speech) /\ Len(x \o y) = Len(x) + Len(y)
            /\ \A i \in 1 .. Len(x) + Len(y) :
                  (x \o y)[i] = IF i <= Len(x) THEN x[i] ELSE y[i - Len(x)]
        BY ConcatProperties
      <3>2. /\ DOMAIN (x \o y) = 1 .. Len(x) + Len(y)
            /\ DOMAIN x = 1 .. Len(x) /\ DOMAIN y = 1 .. Len(y)
            /\ Len(x) \in Nat /\ Len(y) \in Nat
        BY <3>1, LenProperties
      <3>3. ASSUME NEW i \in 1 .. Len(x) + Len(y)
            PROVE  \/ i \in 1 .. Len(x) /\ (x \o y)[i] = x[i]
                   \/ /\ i - Len(x) \in 1 .. Len(y)
                      /\ (x \o y)[i] = y[i - Len(x)]
        BY <3>1, <3>2
      <3> HIDE DEF Good
      <3> QED
        BY <2>1, <3>2, <3>3
    <2>2. /\ \A i \in DOMAIN a : Good(a[i])
          /\ \A i \in DOMAIN b : Good(b[i])
          /\ \A i \in DOMAIN c : Good(c[i])
          /\ \A i \in DOMAIN d : Good(d[i])
          /\ \A i \in DOMAIN e : Good(e[i])
      BY <1>3, <1>6, <1>7, <1>8, <1>9, <1>10
    <2> HIDE DEF Good
    <2>3. \A i \in DOMAIN (a \o b) : Good((a \o b)[i])
      BY <1>6, <1>7, <2>1, <2>2
    <2>4. \A i \in DOMAIN abc : Good(abc[i])
      BY <1>8, <1>12, <2>1, <2>2, <2>3
    <2> HIDE DEF abc
    <2>5. \A i \in DOMAIN abcd : Good(abcd[i])
      BY <1>9, <1>12, <2>1, <2>2, <2>4
    <2> HIDE DEF abcd
    <2>6. \A i \in DOMAIN more : Good(more[i])
      BY <1>10, <1>12, <2>1, <2>2, <2>5
    <2> QED
      BY <2>6 DEF Good
  <1>15. down' = down \o more
    <2>0. Speech \subseteq SoundMessage
      BY DEF Speech
    <2>1. /\ down \in Seq(SoundMessage) /\ a \in Seq(SoundMessage)
          /\ b \in Seq(SoundMessage) /\ c \in Seq(SoundMessage)
          /\ d \in Seq(SoundMessage) /\ e \in Seq(SoundMessage)
          /\ a \o b \in Seq(SoundMessage) /\ abc \in Seq(SoundMessage)
          /\ abcd \in Seq(SoundMessage)
      BY <1>6, <1>7, <1>8, <1>9, <1>10, <1>12, <2>0, SeqMonotonic DEF TypeInv
    <2> HIDE DEF abc, abcd
    <2>3. (down \o a) \o b = down \o (a \o b)
      BY <2>1, ConcatAssociative, SMTT(60)
    <2>4. (down \o (a \o b)) \o c = down \o ((a \o b) \o c)
      BY <2>1, ConcatAssociative, SMTT(60)
    <2>5. (down \o abc) \o d = down \o (abc \o d)
      BY <2>1, ConcatAssociative, SMTT(60)
    <2>6. (down \o abcd) \o e = down \o (abcd \o e)
      <3>1. /\ down \in Seq(SoundMessage) /\ e \in Seq(SoundMessage)
            /\ abcd \in Seq(SoundMessage)
        BY <2>1
      <3> QED
        BY <3>1, ConcatAssociative, SMTT(60)
    <2> QED
      BY <1>2, <2>3, <2>4, <2>5, <2>6 DEF abc, abcd
  <1> HIDE DEF more
  <1> QED
    BY <1>12, <1>13, <1>14, <1>15 DEF Brings, on

-----------------------------------------------------------------------------
(* The types of what is sent and received.                                 *)

(* The requests that a new stream and a snapshot send.                     *)
LEMMA RestoredTyped ==
    ASSUME TypeInv
    PROVE  /\ Cardinality(listening) \in Nat
           /\ Restored \in [1 .. Cardinality(listening) -> Request]
           /\ Restored \in Seq(Request)
           /\ Len(Restored) = Cardinality(listening)
           /\ \A i \in 1 .. Cardinality(listening) :
                 Restored[i] = Watch(SetToSeq(listening)[i],
                                     held[SetToSeq(listening)[i]])
  <1>1. /\ listening \in SUBSET Target /\ held \in [Target -> 0 .. Now]
    BY DEF TypeInv, TypeOK
  <1>2. /\ Cardinality(listening) \in Nat
        /\ \A i \in 1 .. Cardinality(listening) :
              SetToSeq(listening)[i] \in Target
    BY <1>1, FiniteTargets, SetAsSequence
  <1>3. Restored = [i \in 1 .. Cardinality(listening) |->
                       Watch(SetToSeq(listening)[i],
                             held[SetToSeq(listening)[i]])]
    BY DEF Restored, ForEach
  <1>4. Restored \in [1 .. Cardinality(listening) -> Request]
    BY <1>1, <1>2, <1>3, MadeTyped
  <1>5. Restored \in Seq(Request) /\ Len(Restored) = Cardinality(listening)
    BY <1>2, <1>4, FunctionIsSeq
  <1> QED
    BY <1>2, <1>3, <1>4, <1>5

AskedAgain ==
    LET again == resets \cap listening
    IN [i \in 1 .. 2 * Cardinality(again) |->
           LET t == SetToSeq(again)[(i + 1) \div 2]
           IN IF i % 2 = 1 THEN Unwatch(t) ELSE Watch(t, 0)]

LEMMA Halves ==
    ASSUME NEW n \in Nat, NEW i \in 1 .. 2 * n
    PROVE  /\ (i + 1) \div 2 \in 1 .. n
           /\ i % 2 = 1 => i = 2 * ((i + 1) \div 2) - 1
           /\ i % 2 # 1 => i = 2 * ((i + 1) \div 2)
  OBVIOUS

LEMMA AskedAgainTyped ==
    ASSUME TypeInv
    PROVE  /\ AskedAgain \in Seq(Request)
           /\ Len(AskedAgain) = 2 * Cardinality(resets \cap listening)
  <1> DEFINE again == resets \cap listening
  <1>1. /\ again \in SUBSET Target /\ Now \in Nat \ {0}
    BY NowType DEF TypeInv, TypeOK
  <1>2. /\ Cardinality(again) \in Nat
        /\ \A j \in 1 .. Cardinality(again) : SetToSeq(again)[j] \in Target
    BY <1>1, FiniteTargets, SetAsSequence
  <1>3. 2 * Cardinality(again) \in Nat
    BY <1>2
  <1>4. ASSUME NEW i \in 1 .. 2 * Cardinality(again)
        PROVE  LET t == SetToSeq(again)[(i + 1) \div 2]
               IN (IF i % 2 = 1 THEN Unwatch(t) ELSE Watch(t, 0)) \in Request
    <2>1. SetToSeq(again)[(i + 1) \div 2] \in Target
      BY <1>2, <1>4, Halves
    <2>2. 0 \in 0 .. Now
      BY <1>1
    <2> QED
      BY <2>1, <2>2, MadeTyped
  <1>5. AskedAgain \in [1 .. 2 * Cardinality(again) -> Request]
    BY <1>4 DEF AskedAgain
  <1> HIDE DEF again
  <1> QED
    BY <1>3, <1>5, FunctionIsSeq DEF again

LEMMA MessagesStep ==
    ASSUME TypeInv, [Next]_vars
    PROVE  MessageTypes'
  <1> USE DEF serverVars
  <1>0. MessageTypes
    BY TypedMessages
  <1>1. ASSUME up' \in Seq(Request), down' \in Seq(SoundMessage),
               serving' \in [Target -> [on : BOOLEAN, at : 0 .. Now,
                                        caught : BOOLEAN]]
        PROVE  MessageTypes'
    BY <1>1, MessagesStay DEF MessageTypes
  <1>2. ASSUME UNCHANGED <<up, down, serving>>
        PROVE  MessageTypes'
    BY <1>0, <1>1, <1>2 DEF MessageTypes
  <1>3. ASSUME NewStream
        PROVE  MessageTypes'
    <2>1. << >> \in Seq(Request) /\ << >> \in Seq(SoundMessage)
      BY EmptySeq
    <2>2. Unserved \in [Target -> [on : BOOLEAN, at : 0 .. Now,
                                   caught : BOOLEAN]]
      BY NowType DEF Unserved
    <2> QED
      BY <1>1, <1>3, <2>1, <2>2 DEF NewStream
  <1>4. ASSUME NEW t \in Target, Listen(t) \/ StopListening(t)
        PROVE  MessageTypes'
    <2>1. token[t] \in 0 .. Now
      BY DEF TypeInv, TypeOK
    <2>2. Watch(t, token[t]) \in Request /\ Unwatch(t) \in Request
      BY <2>1, MadeTyped
    <2>3. /\ \/ up' = Append(up, Watch(t, token[t]))
             \/ up' = Append(up, Unwatch(t))
             \/ UNCHANGED up
          /\ UNCHANGED <<down, serving>>
      BY <1>4 DEF Listen, StopListening
    <2>4. up' \in Seq(Request)
      <3>1. \A x \in Request : Append(up, x) \in Seq(Request)
        BY <1>0, AppendProperties DEF MessageTypes
      <3> QED
        BY <1>0, <2>2, <2>3, <3>1 DEF MessageTypes
    <2> QED
      BY <1>0, <1>1, <2>3, <2>4 DEF MessageTypes
  <1>5. CASE ResumeStartWithCredentials
    <2>1. up' = Restored /\ UNCHANGED <<down, serving>>
      BY <1>5 DEF ResumeStartWithCredentials
    <2> QED
      BY <1>0, <1>1, <2>1, RestoredTyped DEF MessageTypes
  <1>6. ASSUME NEW kind, OnWatchStreamChange(kind), UNCHANGED up
        PROVE  MessageTypes'
    <2>1. down' \in Seq(SoundMessage) /\ UNCHANGED serving
      BY <1>6, MessageType DEF OnWatchStreamChange
    <2> QED
      BY <1>0, <1>1, <1>6, <2>1 DEF MessageTypes
  <1>7. CASE RaiseWatchSnapshot
    <2>1. OnWatchStreamChange("snapshot") /\ up' = up \o AskedAgain
      BY <1>7 DEF RaiseWatchSnapshot, AskedAgain
    <2>2. down' \in Seq(SoundMessage) /\ UNCHANGED serving
      BY <2>1, MessageType DEF OnWatchStreamChange
    <2>3. up' \in Seq(Request)
      BY <1>0, <2>1, AskedAgainTyped, ConcatProperties DEF MessageTypes
    <2> QED
      BY <1>0, <1>1, <2>2, <2>3 DEF MessageTypes
  <1>8. CASE ServerTakes
    <2> DEFINE r == Head(up)
    <2>1. /\ up # << >> /\ up' = Tail(up)
          /\ \/ serving' = [serving EXCEPT ![r.target] =
                   [on |-> r.kind = "watch", at |-> r.v, caught |-> FALSE]]
             \/ UNCHANGED serving
          /\ \E kind \in {"added", "removed", "refused"} :
                down' = Append(down, Message(kind, {r.target}))
      BY <1>8 DEF ServerTakes
    <2>2. r \in Request /\ Tail(up) \in Seq(Request)
      BY <1>0, <2>1, HeadTailProperties DEF MessageTypes
    <2> HIDE DEF r
    <2>3. r.target \in Target /\ r.v \in 0 .. Now
      BY <2>2 DEF Request
    <2>4. down' \in Seq(SoundMessage)
      <3>1. PICK kind \in {"added", "removed", "refused"} :
                down' = Append(down, Message(kind, {r.target}))
        BY <2>1
      <3>2. Message(kind, {r.target}) \in SoundMessage
        BY <2>3, MadeTyped
      <3> QED
        BY <1>0, <3>1, <3>2, AppendProperties DEF MessageTypes
    <2>5. serving' \in [Target -> [on : BOOLEAN, at : 0 .. Now,
                                   caught : BOOLEAN]]
      <3>1. [on |-> r.kind = "watch", at |-> r.v, caught |-> FALSE]
                \in [on : BOOLEAN, at : 0 .. Now, caught : BOOLEAN]
        BY <2>3
      <3> QED
        BY <1>0, <2>1, <3>1 DEF MessageTypes
    <2> QED
      BY <1>1, <2>1, <2>2, <2>4, <2>5
  <1>9. CASE ServerSendsSome
    <2>1. PICK v \in 1 .. Now, caught \in BOOLEAN,
               how \in [Target -> {"changes", "filter", "all"}] :
               ServerSends(v, how, caught)
      BY <1>9, ServerSendsWhat
    <2>2. PICK more \in Seq(Speech) : down' = down \o more
      BY <2>1, ServerBrings DEF Brings
    <2>3. Speech \subseteq SoundMessage
      BY DEF Speech
    <2>4. more \in Seq(SoundMessage)
      BY <2>2, <2>3, SeqMonotonic
    <2>5. down' \in Seq(SoundMessage)
      BY <1>0, <2>2, <2>4, ConcatProperties DEF MessageTypes
    <2>6. serving' = [t \in Target |->
              IF t \in {x \in Target : serving[x].on}
              THEN [on |-> TRUE, at |-> v, caught |-> caught \/
                       (serving[t].caught /\ how[t] # "all")]
              ELSE serving[t]]
          /\ UNCHANGED up
      BY <2>1 DEF ServerSends
    <2>7. v \in 0 .. Now
      BY NowType
    <2>8. serving' \in [Target -> [on : BOOLEAN, at : 0 .. Now,
                                   caught : BOOLEAN]]
      BY <1>0, <2>6, <2>7 DEF MessageTypes
    <2> QED
      BY <1>0, <1>1, <2>5, <2>6, <2>8 DEF MessageTypes
  <1>10. ASSUME \/ HandleAdded \/ HandleRemoved \/ HandleCurrent
                \/ HandleDocumentChange \/ HandleReset
                \/ HandleExistenceFilter \/ IgnoreSnapshot
                \/ ProcessTargetError
         PROVE  MessageTypes'
    <2>1. \E kind : OnWatchStreamChange(kind)
      BY <1>10 DEF HandleAdded, HandleRemoved, HandleCurrent,
         HandleDocumentChange, HandleReset, HandleExistenceFilter,
         IgnoreSnapshot, ProcessTargetError
    <2>2. UNCHANGED up
      BY <1>10, StateHandled DEF IgnoreSnapshot, ProcessTargetError
    <2> QED
      BY <1>6, <2>1, <2>2
  <1>11. ASSUME \/ IdleTimeout \/ OnWatchStreamClose \/ RestartNetwork
                \/ DisableNetwork
         PROVE  NewStream
    BY <1>11 DEF IdleTimeout, OnWatchStreamClose, RestartNetwork,
                 DisableNetwork
  <1>12. ASSUME \/ BackoffElapsed \/ OnlineStateTimeout \/ EnableNetwork
                \/ \E t \in Target, d \in Doc : Edit(t, d)
         PROVE  UNCHANGED <<up, down, serving>>
    BY <1>12 DEF BackoffElapsed, OnlineStateTimeout, EnableNetwork, Edit
  <1> QED
    BY <1>2, <1>3, <1>4, <1>5, <1>7, <1>8, <1>9, <1>10, <1>11, <1>12
       DEF Next, HandleMessage, vars

(* The history of the properties, and the bounds.                          *)
PastTypes ==
    /\ torn \subseteq Target /\ hurried \subseteq Target
    /\ miscounted \subseteq Target
    /\ listens \in Nat /\ edits \in Nat /\ breaks \in Nat
    /\ serverResets \in Nat /\ refusals \in Nat

LEMMA PastStep ==
    ASSUME TypeInv, [Next]_vars
    PROVE  PastTypes'
  <1> USE DEF pastVars, bounds
  <1>0. PastTypes
    BY DEF TypeInv, TypeOK, PastTypes
  <1>1. ASSUME UNCHANGED <<pastVars, bounds>>
        PROVE  PastTypes'
    BY <1>0, <1>1 DEF PastTypes
  <1>2. ASSUME NEW t \in Target, Listen(t)
        PROVE  PastTypes'
    <2>1. /\ listens' = listens + 1 /\ hurried' \subseteq hurried \cup {t}
          /\ UNCHANGED <<torn, miscounted, edits, breaks, serverResets,
                         refusals>>
      BY <1>2 DEF Listen
    <2> QED
      BY <1>0, <2>1 DEF PastTypes
  <1>3. ASSUME OnWatchStreamClose \/ RestartNetwork \/ DisableNetwork
        PROVE  PastTypes'
    <2>1. /\ breaks' = breaks + 1 /\ miscounted' = {}
          /\ UNCHANGED <<torn, hurried, listens, edits, serverResets,
                         refusals>>
      BY <1>3 DEF OnWatchStreamClose, RestartNetwork, DisableNetwork, NewStream
    <2> QED
      BY <1>0, <2>1 DEF PastTypes
  <1>4. CASE IdleTimeout
    <2>1. /\ miscounted' = {} /\ UNCHANGED <<torn, hurried, bounds>>
      BY <1>4 DEF IdleTimeout, NewStream
    <2> QED
      BY <1>0, <2>1 DEF PastTypes
  <1>5. CASE ProcessTargetError
    <2>1. About \in Target
      BY <1>5, MessageType DEF ProcessTargetError
    <2>2. /\ miscounted' \subseteq miscounted \cup {About}
          /\ UNCHANGED <<torn, hurried, bounds>>
      BY <1>5 DEF ProcessTargetError, OnWatchStreamChange
    <2> QED
      BY <1>0, <2>1, <2>2 DEF PastTypes
  <1>6. CASE RaiseWatchSnapshot
    <2>1. /\ torn' \subseteq torn \cup (resets \cap listening) \cup miscounted
          /\ hurried' \subseteq hurried \cup miscounted
          /\ UNCHANGED <<miscounted, bounds>>
      BY <1>6 DEF RaiseWatchSnapshot, OnWatchStreamChange
    <2>2. listening \subseteq Target
      BY DEF TypeInv, TypeOK
    <2> QED
      BY <1>0, <2>1, <2>2 DEF PastTypes
  <1>7. CASE ServerTakes
    <2>1. /\ refusals' = refusals + 1 \/ UNCHANGED refusals
          /\ UNCHANGED <<pastVars, listens, edits, breaks, serverResets>>
      BY <1>7 DEF ServerTakes
    <2> QED
      BY <1>0, <2>1 DEF PastTypes
  <1>8. CASE ServerSendsSome
    BY <1>0, <1>8, ServerSendsWhat DEF PastTypes
  <1>9. ASSUME NEW t \in Target, NEW d \in Doc, Edit(t, d)
        PROVE  PastTypes'
    <2>1. /\ edits' = edits + 1
          /\ UNCHANGED <<pastVars, listens, breaks, serverResets, refusals>>
      BY <1>9 DEF Edit
    <2> QED
      BY <1>0, <2>1 DEF PastTypes
  <1>10. ASSUME \/ HandleAdded \/ HandleRemoved \/ HandleCurrent
                \/ HandleDocumentChange \/ HandleReset
                \/ HandleExistenceFilter
         PROVE  UNCHANGED <<pastVars, bounds>>
    BY <1>10, StateHandled
  <1>11. ASSUME \/ ResumeStartWithCredentials \/ BackoffElapsed
                \/ OnlineStateTimeout \/ EnableNetwork \/ IgnoreSnapshot
                \/ \E t \in Target : StopListening(t)
         PROVE  UNCHANGED <<pastVars, bounds>>
    BY <1>11 DEF ResumeStartWithCredentials, BackoffElapsed,
       OnlineStateTimeout, EnableNetwork, IgnoreSnapshot, OnWatchStreamChange,
       StopListening
  <1> QED
    BY <1>1, <1>2, <1>3, <1>4, <1>5, <1>6, <1>7, <1>8, <1>9, <1>10, <1>11
       DEF Next, HandleMessage, vars

LEMMA TypeInvInit == Init => TypeInv
  <1> SUFFICES ASSUME Init
               PROVE  TypeInv
    OBVIOUS
  <1>1. PICK f \in [Target -> SUBSET Doc] : history = <<f>>
    BY DEF Init
  <1>2. /\ history \in Seq([Target -> SUBSET Doc]) /\ history # << >>
        /\ Now = 1
    BY <1>1 DEF Now
  <1>3. up \in Seq(Request) /\ down \in Seq(AnyMessage)
        /\ down \in Seq(SoundMessage)
    BY EmptySeq DEF Init
  <1>4. /\ serving \in [Target -> [on : BOOLEAN, at : 0 .. Now,
                                   caught : BOOLEAN]]
        /\ lastRemote \in 0 .. Now
        /\ {held, token, since} \subseteq [Target -> 0 .. Now]
    BY <1>2 DEF Init, Unserved
  <1>5. stream \in StreamState /\ DOMAIN states = {}
    BY IdleStreamRests DEF Init
  <1>6. /\ keys \in [Target -> SUBSET Doc] /\ current \in [Target -> BOOLEAN]
        /\ shown \subseteq listening
        /\ \A t \in Target : current[t] => t \in listening
        /\ online \in {"Unknown", "Online", "Offline"}
        /\ failed \in BOOLEAN /\ timer \in BOOLEAN /\ enabled \in BOOLEAN
        /\ listening \subseteq Target /\ resets \subseteq Target
    BY DEF Init
  <1>7. /\ torn \cup hurried \cup miscounted \subseteq Target
        /\ {listens, edits, breaks, serverResets, refusals} \subseteq Nat
    BY DEF Init
  <1> QED
    BY <1>2, <1>3, <1>4, <1>5, <1>6, <1>7 DEF TypeInv, TypeOK, Request,
       AnyMessage

LEMMA TypeInvStep == TypeInv /\ OnlineInv /\ [Next]_vars => TypeInv'
  <1> SUFFICES ASSUME TypeInv, OnlineInv, [Next]_vars
               PROVE  TypeInv'
    OBVIOUS
  <1>1. /\ TargetTypes' /\ ViewTypes' /\ StoreTypes' /\ MessageTypes'
        /\ PastTypes'
    BY TargetsStep, ViewsStep, StoreStep, MessagesStep, PastStep
  <1>2. OnlineInv'
    BY OnlineStep
  <1>3. history' \in Seq([Target -> SUBSET Doc]) /\ history' # << >>
    BY HistoryStep
  <1>4. down' \in Seq(AnyMessage)
    <2>1. SoundMessage' \subseteq AnyMessage
      BY DEF SoundMessage, AnyMessage
    <2>2. down' \in Seq(SoundMessage')
      BY <1>1 DEF MessageTypes
    <2> QED
      BY <2>1, <2>2, SeqMonotonic
  <1> QED
    BY <1>1, <1>2, <1>3, <1>4 DEF TypeInv, TypeOK, TargetTypes, ViewTypes,
       StoreTypes, MessageTypes, PastTypes, OnlineInv, Request, AnyMessage,
       AggState

LEMMA TypeInvariant == Spec => []TypeInv
  BY TypeInvInit, TypeInvStep, OnlineInvariant, PTL DEF Spec

(* Every variable has its type, every version that is kept or under way is *)
(* one that was there, and no view is shown or current without a listener. *)
THEOREM TypeCorrect == Spec => []TypeOK
  <1>1. TypeInv => TypeOK
    BY DEF TypeInv
  <1> QED
    BY <1>1, TypeInvariant, PTL

-----------------------------------------------------------------------------
(* Counting the members of a sequence that are in a set.                   *)

Places(s, S) == {i \in DOMAIN s : s[i] \in S}
Count(s, S) == Cardinality(Places(s, S))

LEMMA PlacesFinite ==
    ASSUME NEW M, NEW s \in Seq(M), NEW S
    PROVE  /\ IsFiniteSet(Places(s, S)) /\ Count(s, S) \in Nat
           /\ Places(s, S) \subseteq 1 .. Len(s) /\ Len(s) \in Nat
  <1>1. DOMAIN s = 1 .. Len(s) /\ Len(s) \in Nat
    BY LenProperties
  <1>2. IsFiniteSet(1 .. Len(s))
    BY <1>1, FS_Interval
  <1>3. Places(s, S) \in SUBSET (1 .. Len(s))
    BY <1>1 DEF Places
  <1>4. IsFiniteSet(Places(s, S))
    BY <1>2, <1>3, FS_Subset
  <1> QED
    BY <1>1, <1>3, <1>4, FS_CardinalityType DEF Count

LEMMA CountAppend ==
    ASSUME NEW M, NEW s \in Seq(M), NEW x \in M, NEW S
    PROVE  Count(Append(s, x), S) = Count(s, S) + (IF x \in S THEN 1 ELSE 0)
  <1> DEFINE r == Append(s, x)
             n == Len(s) + 1
  <1>1. /\ r \in Seq(M) /\ Len(r) = n /\ r[n] = x
        /\ \A i \in 1 .. Len(s) : r[i] = s[i]
    BY AppendProperties
  <1>2. /\ DOMAIN r = 1 .. n /\ DOMAIN s = 1 .. Len(s) /\ Len(s) \in Nat
    BY <1>1, LenProperties
  <1>3. /\ IsFiniteSet(Places(s, S)) /\ Count(s, S) \in Nat
        /\ n \notin Places(s, S)
    BY <1>2, PlacesFinite DEF Places
  <1> HIDE DEF r
  <1>4. Places(r, S) = IF x \in S THEN Places(s, S) \cup {n} ELSE Places(s, S)
    <2>1. \A i \in 1 .. n : i = n \/ i \in 1 .. Len(s)
      BY <1>2
    <2> QED
      BY <1>1, <1>2, <2>1 DEF Places
  <1> HIDE DEF n
  <1>5. Cardinality(Places(s, S) \cup {n}) = Cardinality(Places(s, S)) + 1
    BY <1>3, FS_AddElement
  <1> QED
    BY <1>3, <1>4, <1>5 DEF Count, r

(* Moving places keeps how many there are.                                 *)
LEMMA CountShifted ==
    ASSUME NEW I \in SUBSET Nat, IsFiniteSet(I), NEW n \in Nat
    PROVE  /\ IsFiniteSet({i + n : i \in I})
           /\ Cardinality({i + n : i \in I}) = Cardinality(I)
  <1> DEFINE J == {i + n : i \in I}
             f == [i \in I |-> i + n]
  <1>1. f \in Bijection(I, J)
    BY DEF Bijection, Injection, Surjection, IsInjective
  <1>2. ExistsBijection(I, J)
    BY <1>1 DEF ExistsBijection
  <1> HIDE DEF J
  <1>3. IsFiniteSet(J) /\ Cardinality(J) = Cardinality(I)
    BY <1>2, FS_Bijection
  <1> QED
    BY <1>3 DEF J

LEMMA CountConcat ==
    ASSUME NEW M, NEW s \in Seq(M), NEW m \in Seq(M), NEW S
    PROVE  Count(s \o m, S) = Count(s, S) + Count(m, S)
  <1> DEFINE r == s \o m
             n == Len(s)
             I == Places(s, S)
             J == Places(m, S)
             K == {i + n : i \in J}
  <1>1. /\ r \in Seq(M) /\ Len(r) = n + Len(m)
        /\ \A i \in 1 .. n + Len(m) :
              r[i] = IF i <= n THEN s[i] ELSE m[i - n]
    BY ConcatProperties
  <1>2. /\ DOMAIN r = 1 .. n + Len(m) /\ DOMAIN s = 1 .. n
        /\ DOMAIN m = 1 .. Len(m) /\ n \in Nat /\ Len(m) \in Nat
    BY <1>1, LenProperties
  <1>3. /\ IsFiniteSet(I) /\ I \subseteq 1 .. n /\ Count(s, S) \in Nat
        /\ IsFiniteSet(J) /\ J \subseteq 1 .. Len(m) /\ Count(m, S) \in Nat
    BY PlacesFinite
  <1>4. J \in SUBSET Nat
    BY <1>2, <1>3
  <1>5. IsFiniteSet(K) /\ Cardinality(K) = Cardinality(J)
    BY <1>2, <1>3, <1>4, CountShifted
  <1> HIDE DEF r, n
  <1>6. Places(r, S) = I \cup K
    <2>1. ASSUME NEW i \in Places(r, S)
          PROVE  i \in I \cup K
      <3>1. i \in 1 .. n + Len(m) /\ r[i] \in S
        BY <1>2 DEF Places
      <3>2. CASE i <= n
        BY <1>1, <1>2, <3>1, <3>2 DEF Places
      <3>3. CASE ~(i <= n)
        <4>1. i - n \in 1 .. Len(m) /\ (i - n) + n = i
          BY <1>2, <3>1, <3>3
        <4>2. i - n \in J
          BY <1>1, <1>2, <3>1, <3>3, <4>1 DEF Places
        <4> QED
          BY <4>1, <4>2
      <3> QED
        BY <3>2, <3>3
    <2>2. ASSUME NEW i \in I
          PROVE  i \in Places(r, S)
      <3>1. i \in 1 .. n /\ s[i] \in S
        BY <1>2 DEF Places
      <3>2. i \in 1 .. n + Len(m) /\ i <= n
        BY <1>2, <3>1
      <3> QED
        BY <1>1, <1>2, <3>1, <3>2 DEF Places
    <2>3. ASSUME NEW j \in J
          PROVE  j + n \in Places(r, S)
      <3>1. j \in 1 .. Len(m) /\ m[j] \in S
        BY <1>2 DEF Places
      <3>2. j + n \in 1 .. n + Len(m) /\ ~(j + n <= n) /\ (j + n) - n = j
        BY <1>2, <3>1
      <3> QED
        BY <1>1, <1>2, <3>1, <3>2 DEF Places
    <2> HIDE DEF I, J
    <2> QED
      BY <2>1, <2>2, <2>3
  <1>7. I \cap K = {}
    BY <1>2, <1>3
  <1> HIDE DEF I, K
  <1>8. Cardinality(I \cup K) = Cardinality(I) + Cardinality(K)
    <2>1. Cardinality(I \cup K)
              = Cardinality(I) + Cardinality(K) - Cardinality(I \cap K)
      BY <1>3, <1>5, FS_Union
    <2>2. Cardinality(I) \in Nat /\ Cardinality(K) \in Nat
      BY <1>3, <1>5, FS_CardinalityType
    <2>3. Cardinality(I \cap K) = 0
      BY <1>7, FS_EmptySet
    <2> QED
      BY <2>1, <2>2, <2>3
  <1> QED
    BY <1>5, <1>6, <1>8 DEF Count, I, r

(* A sequence from which the first member is taken.                        *)
LEMMA CountTail ==
    ASSUME NEW M, NEW s \in Seq(M), s # << >>, NEW S
    PROVE  Count(s, S) = Count(Tail(s), S)
                             + (IF Head(s) \in S THEN 1 ELSE 0)
  <1> DEFINE r == Tail(s)
             J == Places(r, S)
             K == {i + 1 : i \in J}
  <1>1. /\ r \in Seq(M) /\ Len(r) = Len(s) - 1
        /\ \A i \in 1 .. Len(r) : r[i] = s[i + 1]
    BY HeadTailProperties
  <1>2. /\ DOMAIN s = 1 .. Len(s) /\ Len(s) \in Nat \ {0} /\ Head(s) = s[1]
        /\ DOMAIN r = 1 .. Len(r) /\ Len(r) \in Nat
    BY <1>1, EmptySeq, LenProperties
  <1>3. /\ IsFiniteSet(J) /\ J \subseteq 1 .. Len(r) /\ Count(r, S) \in Nat
    BY <1>1, PlacesFinite
  <1>4. IsFiniteSet(K) /\ Cardinality(K) = Cardinality(J)
    <2>1. J \in SUBSET Nat
      BY <1>2, <1>3
    <2> HIDE DEF J
    <2> QED
      BY <1>3, <2>1, CountShifted
  <1> HIDE DEF r
  <1>5. Places(s, S) = IF Head(s) \in S THEN K \cup {1} ELSE K
    <2>1. ASSUME NEW i \in Places(s, S)
          PROVE  i = 1 \/ i \in K
      <3>1. i \in 1 .. Len(s) /\ s[i] \in S
        BY <1>2 DEF Places
      <3>2. CASE i # 1
        <4>1. i - 1 \in 1 .. Len(r) /\ (i - 1) + 1 = i
          BY <1>1, <1>2, <3>1, <3>2
        <4>2. i - 1 \in J
          BY <1>1, <1>2, <3>1, <4>1 DEF Places
        <4> QED
          BY <4>1, <4>2
      <3> QED
        BY <3>2
    <2>2. 1 \in Places(s, S) <=> Head(s) \in S
      BY <1>2 DEF Places
    <2>3. ASSUME NEW j \in J
          PROVE  j + 1 \in Places(s, S)
      <3>1. j \in 1 .. Len(r) /\ r[j] \in S
        BY <1>2 DEF Places
      <3>2. j + 1 \in 1 .. Len(s)
        BY <1>1, <1>2, <3>1
      <3> QED
        BY <1>1, <1>2, <3>1, <3>2 DEF Places
    <2> HIDE DEF J
    <2> QED
      BY <2>1, <2>2, <2>3
  <1>6. 1 \notin K
    BY <1>2, <1>3
  <1> HIDE DEF K
  <1>7. Cardinality(K \cup {1}) = Cardinality(K) + 1
    BY <1>4, <1>6, FS_AddElement
  <1> QED
    BY <1>3, <1>4, <1>5, <1>7 DEF Count, r

(* The requests that are under way for a target, and their answers.        *)
AnyRequest == [kind : {"watch", "unwatch"}, target : Target, v : Nat]
RequestsOf(t) == {r \in AnyRequest : r.target = t}
AnswersTo(t) == {m \in AnyMessage : m.targets = {t} /\ m.kind \in Answers}

LEMMA DueIsCount ==
    ASSUME TypeInv
    PROVE  /\ up \in Seq(AnyRequest) /\ down \in Seq(AnyMessage)
           /\ \A t : /\ DueTo(t) = Count(up, RequestsOf(t))
                                       + Count(down, AnswersTo(t))
                     /\ Count(up, RequestsOf(t)) \in Nat
                     /\ Count(down, AnswersTo(t)) \in Nat
  <1>1. up \in Seq(Request) /\ down \in Seq(AnyMessage)
    BY DEF TypeInv, TypeOK, Request, AnyMessage
  <1>2. Request \subseteq AnyRequest
    BY NowType DEF Request, AnyRequest
  <1>3. up \in Seq(AnyRequest)
    BY <1>1, <1>2, SeqMonotonic
  <1>4. ASSUME NEW t
        PROVE  /\ Places(up, RequestsOf(t))
                      = {i \in DOMAIN up : up[i].target = t}
               /\ Places(down, AnswersTo(t))
                      = {i \in DOMAIN down : /\ down[i].targets = {t}
                                             /\ down[i].kind \in Answers}
    <2>1. \A i \in DOMAIN up : up[i] \in AnyRequest
      BY <1>3
    <2>2. \A i \in DOMAIN down : down[i] \in AnyMessage
      BY <1>1
    <2> QED
      BY <2>1, <2>2 DEF Places, RequestsOf, AnswersTo
  <1>5. ASSUME NEW t
        PROVE  DueTo(t) = Count(up, RequestsOf(t)) + Count(down, AnswersTo(t))
    BY <1>4 DEF DueTo, Count, Answers
  <1> QED
    BY <1>1, <1>3, <1>5, PlacesFinite

(* The requests that are made count once for their target.                 *)
LEMMA RequestsMade ==
    ASSUME TypeInv
    PROVE  /\ \A t \in Target, v \in 0 .. Now :
                 /\ Watch(t, v) \in AnyRequest
                 /\ \A x : Watch(t, v) \in RequestsOf(x) <=> x = t
           /\ \A t \in Target :
                 /\ Unwatch(t) \in AnyRequest
                 /\ \A x : Unwatch(t) \in RequestsOf(x) <=> x = t
           /\ \A t \in Target, kind \in Answers :
                 /\ Message(kind, {t}) \in AnyMessage
                 /\ \A x : Message(kind, {t}) \in AnswersTo(x) <=> x = t
  <1>0. Now \in Nat
    BY NowType
  <1>1. ASSUME NEW t \in Target, NEW v \in 0 .. Now
        PROVE  /\ Watch(t, v) \in AnyRequest
               /\ \A x : Watch(t, v) \in RequestsOf(x) <=> x = t
    BY <1>0 DEF Watch, AnyRequest, RequestsOf
  <1>2. ASSUME NEW t \in Target
        PROVE  /\ Unwatch(t) \in AnyRequest
               /\ \A x : Unwatch(t) \in RequestsOf(x) <=> x = t
    BY <1>0 DEF Unwatch, AnyRequest, RequestsOf
  <1>3. ASSUME NEW t \in Target, NEW kind \in Answers
        PROVE  /\ Message(kind, {t}) \in AnyMessage
               /\ \A x : Message(kind, {t}) \in AnswersTo(x) <=> x = t
    BY DEF Message, AnyMessage, AnswersTo, Answers
  <1> QED
    BY <1>1, <1>2, <1>3

(* A new stream asks once for every target that is listened to.            *)
LEMMA RestoredCounts ==
    ASSUME TypeInv, NEW t
    PROVE  Count(Restored, RequestsOf(t)) = IF t \in listening THEN 1 ELSE 0
  <1> DEFINE n == Cardinality(listening)
             e == SetToSeq(listening)
  <1>1. listening \in SUBSET Target /\ held \in [Target -> 0 .. Now]
    BY DEF TypeInv, TypeOK
  <1>2. /\ n \in Nat /\ \A i \in 1 .. n : e[i] \in listening
        /\ \A i, j \in 1 .. n : e[i] = e[j] => i = j
        /\ \A x \in listening : \E i \in 1 .. n : e[i] = x
    BY <1>1, FiniteTargets, SetAsSequence
  <1>3. /\ DOMAIN Restored = 1 .. n
        /\ \A i \in 1 .. n : Restored[i] = Watch(e[i], held[e[i]])
    BY RestoredTyped
  <1>4. \A i \in 1 .. n : Restored[i] \in RequestsOf(t) <=> e[i] = t
    BY <1>1, <1>2, <1>3, RequestsMade
  <1>5. Places(Restored, RequestsOf(t)) = {i \in 1 .. n : e[i] = t}
    BY <1>3, <1>4 DEF Places
  <1> HIDE DEF n, e
  <1>6. CASE t \in listening
    <2>1. PICK i \in 1 .. n : e[i] = t
      BY <1>2, <1>6
    <2>2. Places(Restored, RequestsOf(t)) = {i}
      BY <1>2, <1>5, <2>1
    <2> QED
      BY <1>6, <2>2, FS_Singleton DEF Count
  <1>7. CASE t \notin listening
    <2>1. Places(Restored, RequestsOf(t)) = {}
      BY <1>2, <1>5, <1>7
    <2> QED
      BY <1>7, <2>1, FS_EmptySet DEF Count
  <1> QED
    BY <1>6, <1>7

(* A target whose count did not fit is asked for twice: to leave it and to *)
(* listen to it from zero.                                                 *)
LEMMA AskedAgainCounts ==
    ASSUME TypeInv, NEW t
    PROVE  Count(AskedAgain, RequestsOf(t))
               = IF t \in resets \cap listening THEN 2 ELSE 0
  <1> DEFINE again == resets \cap listening
             n == Cardinality(again)
             e == SetToSeq(again)
             half(i) == (i + 1) \div 2
  <1>1. again \in SUBSET Target /\ 0 \in 0 .. Now
    <2>1. resets \subseteq Target
      BY DEF TypeInv, TypeOK
    <2> QED
      BY <2>1, NowType
  <1>2. /\ n \in Nat /\ \A i \in 1 .. n : e[i] \in again
        /\ \A i, j \in 1 .. n : e[i] = e[j] => i = j
        /\ \A x \in again : \E i \in 1 .. n : e[i] = x
    BY <1>1, FiniteTargets, SetAsSequence
  <1>3. /\ DOMAIN AskedAgain = 1 .. 2 * n
        /\ \A i \in 1 .. 2 * n : AskedAgain[i] =
              IF i % 2 = 1 THEN Unwatch(e[half(i)]) ELSE Watch(e[half(i)], 0)
    BY DEF AskedAgain
  <1>4. \A i \in 1 .. 2 * n : /\ half(i) \in 1 .. n
                              /\ i % 2 = 1 => i = 2 * half(i) - 1
                              /\ i % 2 # 1 => i = 2 * half(i)
    BY <1>2, Halves
  <1> HIDE DEF again, n, e, half
  <1>a. \A i \in 1 .. 2 * n : e[half(i)] \in again /\ e[half(i)] \in Target
    BY <1>1, <1>2, <1>4
  <1>5. ASSUME NEW i \in 1 .. 2 * n
        PROVE  AskedAgain[i] \in RequestsOf(t) <=> e[half(i)] = t
    <2>1. e[half(i)] \in Target
      BY <1>a
    <2>2. CASE i % 2 = 1
      <3>1. AskedAgain[i] = Unwatch(e[half(i)])
        BY <1>3, <2>2
      <3> QED
        BY <2>1, <3>1, RequestsMade
    <2>3. CASE i % 2 # 1
      <3>1. AskedAgain[i] = Watch(e[half(i)], 0)
        BY <1>3, <2>3
      <3> QED
        BY <1>1, <2>1, <3>1, RequestsMade
    <2> QED
      BY <2>2, <2>3
  <1>6. Places(AskedAgain, RequestsOf(t))
            = {i \in 1 .. 2 * n : e[half(i)] = t}
    BY <1>3, <1>5 DEF Places
  <1>7. CASE t \in again
    <2>1. PICK j \in 1 .. n : e[j] = t
      BY <1>2, <1>7
    <2>2. \A i \in 1 .. 2 * n : e[half(i)] = t <=> half(i) = j
      BY <1>2, <1>4, <2>1
    <2>3. /\ 2 * j - 1 \in 1 .. 2 * n /\ half(2 * j - 1) = j
          /\ 2 * j \in 1 .. 2 * n /\ half(2 * j) = j
      BY <1>2 DEF half
    <2>4. \A i \in 1 .. 2 * n : half(i) = j => i = 2 * j - 1 \/ i = 2 * j
      BY <1>4
    <2>5. Places(AskedAgain, RequestsOf(t)) = {2 * j - 1} \cup {2 * j}
      BY <1>6, <2>2, <2>3, <2>4
    <2>6. Cardinality({2 * j - 1} \cup {2 * j}) = 2
      <3>1. IsFiniteSet({2 * j - 1}) /\ Cardinality({2 * j - 1}) = 1
        BY FS_Singleton
      <3>2. 2 * j \notin {2 * j - 1}
        OBVIOUS
      <3> QED
        BY <3>1, <3>2, FS_AddElement
    <2> QED
      BY <1>7, <2>5, <2>6 DEF Count, again
  <1>8. CASE t \notin again
    <2>0. \A i \in 1 .. 2 * n : e[half(i)] # t
      BY <1>a, <1>8
    <2>1. Places(AskedAgain, RequestsOf(t)) = {}
      BY <1>6, <2>0
    <2> QED
      BY <1>8, <2>1, FS_EmptySet DEF Count, again
  <1> QED
    BY <1>7, <1>8

-----------------------------------------------------------------------------
(* What comes after what in a sequence.                                    *)

Has(s, G) == \E j \in DOMAIN s : s[j] \in G

\* After every member in S there is one in G.
Followed(s, S, G) ==
    \A i \in DOMAIN s : s[i] \in S =>
        \E j \in DOMAIN s : i < j /\ s[j] \in G

LEMMA HasCounts ==
    ASSUME NEW M, NEW s \in Seq(M), NEW G, NEW S, G \subseteq S, Has(s, G)
    PROVE  Count(s, S) >= 1
  <1>1. PICK j \in DOMAIN s : s[j] \in G
    BY DEF Has
  <1>2. IsFiniteSet(Places(s, S)) /\ Count(s, S) \in Nat
    BY PlacesFinite
  <1>3. j \in Places(s, S)
    BY <1>1 DEF Places
  <1>4. Count(s, S) # 0
    BY <1>2, <1>3, FS_EmptySet DEF Count
  <1> QED
    BY <1>2, <1>4

LEMMA AfterTail ==
    ASSUME NEW M, NEW s \in Seq(M), s # << >>, NEW S, NEW G
    PROVE  /\ Followed(s, S, G) => Followed(Tail(s), S, G)
           /\ Followed(s, S, G) /\ Head(s) \in S => Has(Tail(s), G)
           /\ Has(s, G) /\ Head(s) \notin G => Has(Tail(s), G)
  <1> DEFINE r == Tail(s)
  <1>1. /\ r \in Seq(M) /\ Len(r) = Len(s) - 1
        /\ \A i \in 1 .. Len(r) : r[i] = s[i + 1]
    BY HeadTailProperties
  <1>2. /\ DOMAIN s = 1 .. Len(s) /\ Len(s) \in Nat \ {0} /\ Head(s) = s[1]
        /\ DOMAIN r = 1 .. Len(r) /\ Len(r) \in Nat
    BY <1>1, EmptySeq, LenProperties
  <1> HIDE DEF r
  <1>3. \A j \in DOMAIN s : j # 1 =>
            j - 1 \in DOMAIN r /\ r[j - 1] = s[j] /\ j > 1
    BY <1>1, <1>2
  <1>4. \A i \in DOMAIN r : i + 1 \in DOMAIN s /\ r[i] = s[i + 1]
    BY <1>1, <1>2
  <1>5. ASSUME Followed(s, S, G), NEW i \in DOMAIN r, r[i] \in S
        PROVE  \E j \in DOMAIN r : i < j /\ r[j] \in G
    <2>1. PICK j \in DOMAIN s : i + 1 < j /\ s[j] \in G
      BY <1>4, <1>5 DEF Followed
    <2>2. j # 1 /\ i < j - 1
      BY <1>2, <2>1
    <2> QED
      BY <1>3, <2>1, <2>2
  <1>6. ASSUME Followed(s, S, G), Head(s) \in S
        PROVE  Has(r, G)
    <2>1. 1 \in DOMAIN s
      BY <1>2
    <2>2. PICK j \in DOMAIN s : 1 < j /\ s[j] \in G
      BY <1>2, <1>6, <2>1 DEF Followed
    <2> QED
      BY <1>3, <2>2 DEF Has
  <1>7. ASSUME Has(s, G), Head(s) \notin G
        PROVE  Has(r, G)
    <2>1. PICK j \in DOMAIN s : s[j] \in G
      BY <1>7 DEF Has
    <2>2. j # 1
      BY <1>2, <1>7, <2>1
    <2> QED
      BY <1>3, <2>1, <2>2 DEF Has
  <1>8. Followed(s, S, G) => Followed(r, S, G)
    BY <1>5 DEF Followed
  <1> QED
    BY <1>6, <1>7, <1>8 DEF r

LEMMA AfterConcat ==
    ASSUME NEW M, NEW s \in Seq(M), NEW m \in Seq(M), NEW S, NEW G
    PROVE  /\ Followed(s, S, G) /\ Followed(m, S, G) =>
                 Followed(s \o m, S, G)
           /\ Has(m, G) /\ Followed(m, S, G) => Followed(s \o m, S, G)
           /\ Has(s, G) \/ Has(m, G) => Has(s \o m, G)
  <1> DEFINE r == s \o m
             n == Len(s)
  <1>1. /\ r \in Seq(M) /\ Len(r) = n + Len(m)
        /\ \A i \in 1 .. n + Len(m) :
              r[i] = IF i <= n THEN s[i] ELSE m[i - n]
    BY ConcatProperties
  <1>2. /\ DOMAIN r = 1 .. n + Len(m) /\ DOMAIN s = 1 .. n
        /\ DOMAIN m = 1 .. Len(m) /\ n \in Nat /\ Len(m) \in Nat
    BY <1>1, LenProperties
  <1> HIDE DEF r, n
  <1>3. \A i \in DOMAIN s : i \in DOMAIN r /\ r[i] = s[i] /\ i <= n
    BY <1>1, <1>2
  <1>4. \A i \in DOMAIN m : i + n \in DOMAIN r /\ r[i + n] = m[i] /\ n < i + n
    <2>1. ASSUME NEW i \in DOMAIN m
          PROVE  i + n \in DOMAIN r /\ r[i + n] = m[i] /\ n < i + n
      <3>1. i + n \in 1 .. n + Len(m) /\ ~(i + n <= n) /\ (i + n) - n = i
        BY <1>2
      <3> QED
        BY <1>1, <1>2, <3>1
    <2> QED
      BY <2>1
  <1>5. \A i \in DOMAIN r :
            \/ i \in DOMAIN s
            \/ i - n \in DOMAIN m /\ r[i] = m[i - n] /\ i = (i - n) + n
    BY <1>1, <1>2
  <1>6. Has(s, G) \/ Has(m, G) => Has(r, G)
    BY <1>3, <1>4 DEF Has
  <1>7. ASSUME Followed(s, S, G) \/ Has(m, G), Followed(m, S, G),
               NEW i \in DOMAIN r, r[i] \in S
        PROVE  \E j \in DOMAIN r : i < j /\ r[j] \in G
    <2>1. CASE i \in DOMAIN s /\ Has(m, G)
      <3>1. PICK j \in DOMAIN m : m[j] \in G
        BY <2>1 DEF Has
      <3>2. i <= n /\ n < j + n /\ i \in Int /\ j \in Int
        BY <1>2, <1>3, <1>4, <2>1, <3>1
      <3>3. i < j + n
        BY <1>2, <3>2
      <3> QED
        BY <1>4, <3>1, <3>3
    <2>2. CASE i \in DOMAIN s /\ Followed(s, S, G)
      <3>1. PICK j \in DOMAIN s : i < j /\ s[j] \in G
        BY <1>3, <1>7, <2>2 DEF Followed
      <3> QED
        BY <1>3, <3>1
    <2>3. CASE i - n \in DOMAIN m /\ r[i] = m[i - n] /\ i = (i - n) + n
      <3>1. PICK j \in DOMAIN m : i - n < j /\ m[j] \in G
        BY <1>7, <2>3 DEF Followed
      <3>2. i < j + n
        BY <1>2, <2>3, <3>1
      <3> QED
        BY <1>4, <3>1, <3>2
    <2> QED
      BY <1>5, <1>7, <2>1, <2>2, <2>3
  <1>8. Followed(s, S, G) \/ Has(m, G) =>
            (Followed(m, S, G) => Followed(r, S, G))
    BY <1>7 DEF Followed
  <1> QED
    BY <1>6, <1>8 DEF r

LEMMA AfterAppend ==
    ASSUME NEW M, NEW s \in Seq(M), NEW x \in M, NEW S, NEW G
    PROVE  /\ Followed(s, S, G) /\ x \notin S => Followed(Append(s, x), S, G)
           /\ x \in G /\ x \notin S => Followed(Append(s, x), S, G)
           /\ Has(s, G) \/ x \in G => Has(Append(s, x), G)
  <1> DEFINE m == <<x>>
  <1>1. m \in Seq(M) /\ DOMAIN m = {1} /\ m[1] = x
    OBVIOUS
  <1>2. Append(s, x) = s \o m
    BY AppendIsConcat
  <1> HIDE DEF m
  <1>3. (x \notin S => Followed(m, S, G)) /\ (x \in G => Has(m, G))
    BY <1>1 DEF Followed, Has
  <1> QED
    BY <1>1, <1>2, <1>3, AfterConcat

-----------------------------------------------------------------------------
(* The answers that are due.  A stream that is not open has nothing under  *)
(* way, and so a stream that opens starts to count from nothing.           *)

WhileClosed ==
    IsOpen(stream) \/ /\ up = << >> /\ down = << >>
                      /\ \A t \in Target : ~serving[t].on

ClosedByNewStream == NewStream /\ ~IsOpen(stream)' /\ WhileClosed'

LEMMA EndOfStream ==
    ASSUME OnlineInv,
           \/ IdleTimeout \/ OnWatchStreamClose \/ RestartNetwork
           \/ DisableNetwork
    PROVE  ClosedByNewStream
  <1> USE DEF StreamState, IsOpen
  <1>1. stream \in StreamState
    BY DEF OnlineInv
  <1>2. NewStream => WhileClosed'
    BY DEF NewStream, WhileClosed, Unserved
  <1>3. CASE IdleTimeout
    BY <1>1, <1>2, <1>3 DEF IdleTimeout, ClosedByNewStream, StartOrUnknown,
       Close, IdleStream
  <1>4. CASE OnWatchStreamClose
    <2>1. \/ stream' = Start(Close(stream, "Error"))
          \/ stream' = Close(stream, "Error")
      BY <1>4 DEF OnWatchStreamClose, HandleWatchStreamFailure
    <2>2. stream'.state \in {"Backoff", "Error"}
      BY <2>1 DEF Start, StartNow, Close, IdleStream
    <2> QED
      BY <1>2, <1>4, <2>2 DEF OnWatchStreamClose, ClosedByNewStream
  <1>5. CASE RestartNetwork
    <2>1. stream' = Start(IdleStream) \/ stream' = IdleStream
      BY <1>5 DEF RestartNetwork, StartOrUnknown
    <2>2. stream'.state \in {"Starting", "Initial"}
      <3>1. Start(IdleStream) = StartNow(IdleStream)
        BY DEF Start, IdleStream
      <3>2. StartNow(IdleStream).state = "Starting"
        BY IdleStreamRests DEF StartNow
      <3> QED
        BY <2>1, <3>1, <3>2 DEF IdleStream
    <2> QED
      BY <1>2, <1>5, <2>2 DEF RestartNetwork, ClosedByNewStream
  <1>6. CASE DisableNetwork
    <2>1. stream' = Close(stream, "Initial")
              \/ (stream' = stream /\ ~IsStarted(stream))
      BY <1>6 DEF DisableNetwork
    <2>2. stream'.state # "Open"
      BY <2>1 DEF Close, IdleStream, IsStarted
    <2> QED
      BY <1>2, <1>6, <2>2 DEF DisableNetwork, ClosedByNewStream
  <1> QED
    BY <1>3, <1>4, <1>5, <1>6

(* A stream that is open or opens: only these steps matter to what is due. *)
LEMMA StreamGoesOn ==
    ASSUME OnlineInv, WhileClosed, [Next]_vars
    PROVE  /\ WhileClosed'
           /\ IsOpen(stream)' =>
                 \/ ResumeStartWithCredentials /\ ~IsOpen(stream)
                 \/ IsOpen(stream)
  <1> USE DEF streamVars, serverVars
  <1> DEFINE Good == /\ WhileClosed'
                     /\ IsOpen(stream)' =>
                           \/ ResumeStartWithCredentials /\ ~IsOpen(stream)
                           \/ IsOpen(stream)
  <1>1. stream \in StreamState /\ TimersFindTheirState(stream)
    BY DEF OnlineInv, AssertionsHold
  <1>2. ASSUME UNCHANGED <<up, down, serving>>,
               IsOpen(stream) <=> IsOpen(stream)'
        PROVE  Good
    BY <1>2 DEF WhileClosed
  <1>3. ASSUME IsOpen(stream), IsOpen(stream)'
        PROVE  Good
    BY <1>3 DEF WhileClosed
  <1>4. ASSUME NEW t \in Target, Listen(t)
        PROVE  Good
    <2>1. CASE enabled /\ ~IsStarted(stream)
      <3>1. UNCHANGED <<up, down, serving>> /\ stream' = Start(stream)
        BY <1>4, <2>1 DEF Listen
      <3>2. ~IsOpen(stream) /\ ~IsOpen(stream)'
        BY <1>1, <2>1, <3>1 DEF Start, StartNow, IsOpen, IsStarted, StreamState
      <3> QED
        BY <1>2, <3>1, <3>2
    <2>2. CASE ~(enabled /\ ~IsStarted(stream)) /\ IsOpen(stream)
      <3>1. stream' = [stream EXCEPT !.idle = FALSE]
        BY <1>4, <2>2 DEF Listen
      <3> QED
        BY <1>1, <1>3, <2>2, <3>1 DEF IsOpen, StreamState
    <2>3. CASE ~(enabled /\ ~IsStarted(stream)) /\ ~IsOpen(stream)
      BY <1>2, <1>4, <2>3 DEF Listen
    <2> QED
      BY <2>1, <2>2, <2>3
  <1>5. ASSUME NEW t \in Target, StopListening(t)
        PROVE  Good
    <2>1. CASE IsOpen(stream)
      <3>1. stream' = [stream EXCEPT !.idle = listening' = {}]
        BY <1>5, <2>1 DEF StopListening
      <3> QED
        BY <1>1, <1>3, <2>1, <3>1 DEF IsOpen, StreamState
    <2>2. CASE ~IsOpen(stream)
      BY <1>2, <1>5, <2>2 DEF StopListening
    <2> QED
      BY <2>1, <2>2
  <1>6. CASE ResumeStartWithCredentials
    <2>1. stream.credentials /\ stream' = Opened(stream)
      BY <1>6 DEF ResumeStartWithCredentials
    <2>2. ~IsOpen(stream) /\ IsOpen(stream)'
      BY <1>1, <2>1 DEF TimersFindTheirState, IsOpen, Opened, StreamState
    <2> QED
      BY <1>6, <2>2 DEF WhileClosed
  <1>7. CASE BackoffElapsed
    <2>1. /\ stream.retry /\ stream' = Retried(stream)
          /\ UNCHANGED <<up, down, serving>>
      BY <1>7 DEF BackoffElapsed
    <2>2. ~IsOpen(stream) /\ ~IsOpen(stream)'
      BY <1>1, <2>1 DEF TimersFindTheirState, IsOpen, Retried, StartNow,
         StreamState
    <2> QED
      BY <1>2, <2>1, <2>2
  <1>8. CASE EnableNetwork
    <2>1. /\ ~IsStarted(stream) /\ UNCHANGED <<up, down, serving>>
          /\ stream' = Start(stream) \/ stream' = stream
      BY <1>8 DEF EnableNetwork, StartOrUnknown, OnlineInv
    <2>2. ~IsOpen(stream) /\ ~IsOpen(stream)'
      BY <1>1, <2>1 DEF IsOpen, IsStarted, Start, StartNow, StreamState
    <2> QED
      BY <1>2, <2>1, <2>2
  <1>9. ASSUME \/ IdleTimeout \/ OnWatchStreamClose \/ RestartNetwork
               \/ DisableNetwork
        PROVE  Good
    BY <1>9, EndOfStream DEF ClosedByNewStream
  <1>10. CASE HandleMessage
    <2>1. IsOpen(stream) /\ stream' = stream
      BY <1>10 DEF HandleMessage, HandleAdded, HandleRemoved, HandleCurrent,
         HandleDocumentChange, HandleReset, HandleExistenceFilter,
         IgnoreSnapshot, RaiseWatchSnapshot, ProcessTargetError,
         OnWatchStreamChange
    <2> QED
      BY <1>3, <2>1 DEF IsOpen
  <1>11. CASE ServerTakes
    <2>1. up # << >> /\ stream' = stream
      BY <1>11 DEF ServerTakes
    <2> QED
      BY <1>3, <2>1 DEF WhileClosed, IsOpen
  <1>12. CASE ServerSendsSome
    <2>1. (\E t \in Target : serving[t].on) /\ stream' = stream
      BY <1>12, ServerSendsWhat DEF ServerSends
    <2> QED
      BY <1>3, <2>1 DEF WhileClosed, IsOpen
  <1>13. ASSUME \/ OnlineStateTimeout \/ UNCHANGED vars
                \/ \E t \in Target, d \in Doc : Edit(t, d)
         PROVE  Good
    <2>1. UNCHANGED <<up, down, serving, stream>>
      BY <1>13 DEF OnlineStateTimeout, Edit, vars
    <2> QED
      BY <1>2, <2>1 DEF IsOpen
  <1> QED
    BY <1>4, <1>5, <1>6, <1>7, <1>8, <1>9, <1>10, <1>11, <1>12, <1>13
       DEF Next

(* The messages that bear on whether a query's last request is a listen.   *)
Asks(t) == {r \in RequestsOf(t) : r.kind = "watch"}
Leaves(t) == {r \in RequestsOf(t) : r.kind = "unwatch"}
Admissions(t) == {m \in AnswersTo(t) : m.kind # "removed"}
Removals(t) == {m \in AnswersTo(t) : m.kind = "removed"}

(* A query that is listened to has a state in the aggregator, and whatever *)
(* is under way to leave it is followed by a listen or its answer: without *)
(* it, the answer to the earlier request would take the state away, and    *)
(* RaiseWatchSnapshot would not count what it asks for again.              *)
Lasts(t) ==
    /\ t \in DOMAIN states
    /\ Followed(up, Leaves(t), Asks(t))
    /\ Followed(down, Removals(t), Admissions(t)) \/ Has(up, Asks(t))

Counted(t) == State(t).out = Count(up, RequestsOf(t))
                                 + Count(down, AnswersTo(t))

TargetInv(t) ==
    t \in miscounted \/ (Counted(t) /\ (t \in listening => Lasts(t)))

CountInv ==
    /\ WhileClosed
    /\ IsOpen(stream) => \A t \in Target : TargetInv(t)

(* What the steps need of the types.                                       *)
LEMMA CountTypes ==
    ASSUME TypeInv
    PROVE  /\ up \in Seq(AnyRequest) /\ down \in Seq(AnyMessage)
           /\ \A t : /\ Count(up, RequestsOf(t)) \in Nat
                     /\ Count(down, AnswersTo(t)) \in Nat
                     /\ State(t) \in AggState /\ State(t).out \in Int
  BY DueIsCount, TypedTargets DEF AggState

LEMMA CountsNothing ==
    ASSUME NEW S, NEW G
    PROVE  /\ Count(<< >>, S) = 0 /\ Followed(<< >>, S, G)
           /\ ~Has(<< >>, G)
  <1>1. DOMAIN << >> = {}
    OBVIOUS
  <1>2. Places(<< >>, S) = {}
    BY <1>1 DEF Places
  <1> QED
    BY <1>1, <1>2, FS_EmptySet DEF Count, Followed, Has

(* Nothing of a query is touched.                                          *)
LEMMA CountUntouched ==
    ASSUME NEW t \in Target, TargetInv(t), UNCHANGED <<up, down>>,
           State(t)' = State(t), t \in DOMAIN states => t \in DOMAIN states',
           t \in listening' => t \in listening,
           t \in miscounted => t \in miscounted'
    PROVE  TargetInv(t)'
  BY DEF TargetInv, Counted, Lasts

(* What a step appends to up is a request for one query.                   *)
LEMMA RequestAppended ==
    ASSUME TypeInv, NEW u \in Target, NEW t \in Target, NEW r \in AnyRequest,
           r.target = u
    PROVE  LET s == Append(up, r)
           IN /\ Count(s, RequestsOf(t)) = Count(up, RequestsOf(t))
                                               + (IF t = u THEN 1 ELSE 0)
              /\ t # u => /\ Followed(up, Leaves(t), Asks(t)) =>
                                Followed(s, Leaves(t), Asks(t))
                          /\ Has(up, Asks(t)) => Has(s, Asks(t))
              /\ t = u /\ r.kind = "watch" =>
                    Followed(s, Leaves(t), Asks(t)) /\ Has(s, Asks(t))
  <1>1. up \in Seq(AnyRequest)
    BY CountTypes
  <1>2. r \in RequestsOf(t) <=> t = u
    BY DEF RequestsOf
  <1>3. /\ r \in Leaves(t) <=> t = u /\ r.kind = "unwatch"
        /\ r \in Asks(t) <=> t = u /\ r.kind = "watch"
    BY <1>2 DEF Leaves, Asks
  <1>4. Count(Append(up, r), RequestsOf(t))
            = Count(up, RequestsOf(t)) + (IF t = u THEN 1 ELSE 0)
    BY <1>1, <1>2, CountAppend
  <1>5. /\ Followed(up, Leaves(t), Asks(t)) /\ r \notin Leaves(t) =>
              Followed(Append(up, r), Leaves(t), Asks(t))
        /\ r \in Asks(t) /\ r \notin Leaves(t) =>
              Followed(Append(up, r), Leaves(t), Asks(t))
        /\ Has(up, Asks(t)) \/ r \in Asks(t) => Has(Append(up, r), Asks(t))
    BY <1>1, AfterAppend
  <1> QED
    BY <1>3, <1>4, <1>5

LEMMA CountListen ==
    ASSUME TypeInv, IsOpen(stream), NEW t \in Target, TargetInv(t),
           NEW u \in Target, Listen(u)
    PROVE  TargetInv(t)'
  <1> DEFINE r == Watch(u, token[u])
  <1>1. /\ up' = Append(up, r) /\ states' = RecordRequest(u)
        /\ UNCHANGED <<down, miscounted>> /\ listening' = listening \cup {u}
    BY DEF Listen, IsStarted, IsOpen
  <1>2. r \in AnyRequest /\ r.target = u /\ r.kind = "watch"
    <2>1. token[u] \in 0 .. Now
      BY DEF TypeInv, TypeOK
    <2> QED
      BY <2>1, RequestsMade DEF Watch
  <1> HIDE DEF r
  <1>3. /\ DOMAIN states' = DOMAIN states \cup {u}
        /\ State(u)' = [State(u) EXCEPT !.out = @ + 1]
        /\ t # u => State(t)' = State(t)
    BY <1>1, PutEffect DEF RecordRequest
  <1>4. State(u)'.out = State(u).out + 1
    BY <1>3, CountTypes DEF AggState
  <1>5. Counted(t) => Counted(t)'
    <2>1. Count(up', RequestsOf(t)) = Count(up, RequestsOf(t))
                                          + (IF t = u THEN 1 ELSE 0)
      BY <1>1, <1>2, RequestAppended
    <2>2. State(t)'.out = State(t).out + (IF t = u THEN 1 ELSE 0)
      <3>1. CASE t = u
        BY <1>4, <3>1
      <3>2. CASE t # u
        <4>1. State(t)' = State(t) /\ State(t).out \in Int
          BY <1>3, <3>2, CountTypes
        <4> QED
          BY <3>2, <4>1
      <3> QED
        BY <3>1, <3>2
    <2>3. Count(down', AnswersTo(t)) = Count(down, AnswersTo(t))
      BY <1>1
    <2> QED
      BY <2>1, <2>2, <2>3, CountTypes DEF Counted
  <1>6. t = u => Lasts(t)'
    BY <1>1, <1>2, <1>3, RequestAppended DEF Lasts
  <1>7. t # u /\ Lasts(t) => Lasts(t)'
    BY <1>1, <1>2, <1>3, RequestAppended DEF Lasts
  <1> QED
    BY <1>1, <1>5, <1>6, <1>7 DEF TargetInv

LEMMA CountStop ==
    ASSUME TypeInv, IsOpen(stream), NEW t \in Target, TargetInv(t),
           NEW u \in Target, StopListening(u)
    PROVE  TargetInv(t)'
  <1> DEFINE r == Unwatch(u)
  <1>1. /\ up' = Append(up, r) /\ states' = RecordRequest(u)
        /\ UNCHANGED <<down, miscounted>> /\ listening' = listening \ {u}
    BY DEF StopListening, Drop, pastVars
  <1>2. r \in AnyRequest /\ r.target = u
    BY RequestsMade DEF Unwatch
  <1> HIDE DEF r
  <1>3. /\ DOMAIN states' = DOMAIN states \cup {u}
        /\ State(u)' = [State(u) EXCEPT !.out = @ + 1]
        /\ t # u => State(t)' = State(t)
    BY <1>1, PutEffect DEF RecordRequest
  <1>4. State(u)'.out = State(u).out + 1
    BY <1>3, CountTypes DEF AggState
  <1>5. Counted(t) => Counted(t)'
    <2>1. Count(up', RequestsOf(t)) = Count(up, RequestsOf(t))
                                          + (IF t = u THEN 1 ELSE 0)
      BY <1>1, <1>2, RequestAppended
    <2>2. State(t)'.out = State(t).out + (IF t = u THEN 1 ELSE 0)
      <3>1. CASE t = u
        BY <1>4, <3>1
      <3>2. CASE t # u
        <4>1. State(t)' = State(t) /\ State(t).out \in Int
          BY <1>3, <3>2, CountTypes
        <4> QED
          BY <3>2, <4>1
      <3> QED
        BY <3>1, <3>2
    <2>3. Count(down', AnswersTo(t)) = Count(down, AnswersTo(t))
      BY <1>1
    <2> QED
      BY <2>1, <2>2, <2>3, CountTypes DEF Counted
  <1>6. t # u /\ Lasts(t) => Lasts(t)'
    BY <1>1, <1>2, <1>3, RequestAppended DEF Lasts
  <1> QED
    BY <1>1, <1>5, <1>6 DEF TargetInv

LEMMA CountResume ==
    ASSUME TypeInv, WhileClosed, ~IsOpen(stream), NEW t \in Target,
           ResumeStartWithCredentials
    PROVE  TargetInv(t)'
  <1>1. /\ up' = Restored /\ down' = << >>
        /\ states' = [x \in listening |-> [NoState EXCEPT !.out = 1]]
        /\ UNCHANGED <<listening, miscounted>>
    BY DEF ResumeStartWithCredentials, WhileClosed, pastVars
  <1>2. /\ Count(down', AnswersTo(t)) = 0
        /\ Followed(down', Removals(t), Admissions(t))
    BY <1>1, CountsNothing
  <1>3. Count(up', RequestsOf(t)) = IF t \in listening THEN 1 ELSE 0
    BY <1>1, RestoredCounts
  <1>4. State(t)'.out = IF t \in listening THEN 1 ELSE 0
    <2>1. [NoState EXCEPT !.out = 1].out = 1 /\ NoState.out = 0
      BY DEF NoState
    <2>2. State(t)' = IF t \in listening THEN [NoState EXCEPT !.out = 1]
                      ELSE NoState
      BY <1>1 DEF State
    <2> QED
      BY <2>1, <2>2
  <1>5. Followed(up', Leaves(t), Asks(t))
    <2>1. \A i \in DOMAIN Restored : Restored[i].kind = "watch"
      BY RestoredTyped DEF Watch
    <2> QED
      BY <1>1, <2>1 DEF Followed, Leaves
  <1>6. t \in listening => t \in DOMAIN states'
    BY <1>1
  <1>7. Counted(t)'
    BY <1>2, <1>3, <1>4 DEF Counted
  <1> QED
    BY <1>1, <1>2, <1>5, <1>6, <1>7 DEF TargetInv, Lasts

(* The message that is handled is no longer due, if it is an answer.       *)
LEMMA MessageTaken ==
    ASSUME TypeInv, NEW kind, OnWatchStreamChange(kind), NEW t
    PROVE  /\ Count(down', AnswersTo(t)) \in Nat
           /\ Count(down, AnswersTo(t)) = Count(down', AnswersTo(t))
                 + (IF kind \in Answers /\ t = About THEN 1 ELSE 0)
           /\ Followed(down, Removals(t), Admissions(t)) =>
                 Followed(down', Removals(t), Admissions(t))
           /\ kind = "removed" /\ t = About
                 /\ Followed(down, Removals(t), Admissions(t)) =>
                       Count(down', AnswersTo(t)) >= 1
  <1>1. /\ Head(down) \in SoundMessage /\ Head(down).kind = kind
        /\ down' = Tail(down) /\ Tail(down) \in Seq(SoundMessage)
        /\ kind # "snapshot" => Head(down).targets = {About}
    BY MessageType
  <1>2. /\ down \in Seq(AnyMessage) /\ down # << >>
        /\ SoundMessage \subseteq AnyMessage
    BY CountTypes DEF OnWatchStreamChange, SoundMessage
  <1>3. down' \in Seq(AnyMessage)
    BY <1>1, <1>2, SeqMonotonic
  <1>4. Head(down) \in AnswersTo(t) <=> kind \in Answers /\ t = About
    BY <1>1, <1>2 DEF AnswersTo, Answers
  <1>5. Count(down', AnswersTo(t)) \in Nat
    BY <1>3, PlacesFinite
  <1>6. Count(down, AnswersTo(t)) = Count(down', AnswersTo(t))
            + (IF Head(down) \in AnswersTo(t) THEN 1 ELSE 0)
    BY <1>1, <1>2, CountTail
  <1>7. /\ Followed(down, Removals(t), Admissions(t)) =>
               Followed(down', Removals(t), Admissions(t))
        /\ Followed(down, Removals(t), Admissions(t))
               /\ Head(down) \in Removals(t) => Has(down', Admissions(t))
    BY <1>1, <1>2, AfterTail
  <1>8. ASSUME kind = "removed", t = About,
               Followed(down, Removals(t), Admissions(t))
        PROVE  Count(down', AnswersTo(t)) >= 1
    <2>1. Head(down) \in Removals(t)
      BY <1>1, <1>4, <1>8 DEF Answers, Removals
    <2>2. Has(down', Admissions(t))
      BY <1>7, <1>8, <2>1
    <2>3. Admissions(t) \subseteq AnswersTo(t)
      BY DEF Admissions
    <2> QED
      BY <1>3, <2>2, <2>3, HasCounts
  <1> QED
    BY <1>4, <1>5, <1>6, <1>7, <1>8

(* The handlers of an answer: the aggregator counts one less, and drops a  *)
(* state only when the answer is the last that is due.                     *)
LEMMA CountAnswer ==
    ASSUME TypeInv, NEW t \in Target, TargetInv(t),
           HandleAdded \/ HandleRemoved
    PROVE  TargetInv(t)'
  <1>1. PICK kind \in {"added", "removed"} :
            /\ OnWatchStreamChange(kind)
            /\ kind = "added" => HandleAdded
            /\ kind = "removed" => HandleRemoved
    BY DEF HandleAdded, HandleRemoved
  <1>2. UNCHANGED <<up, listening, miscounted>> /\ About \in Target
    BY StateHandled
  <1>3. SUFFICES ASSUME t \notin miscounted
                 PROVE  Counted(t)' /\ (t \in listening => Lasts(t)')
    BY <1>2 DEF TargetInv
  <1>4. Counted(t) /\ (t \in listening => Lasts(t))
    BY <1>3 DEF TargetInv
  <1>5. /\ Count(up, RequestsOf(t)) \in Nat
        /\ Count(up', RequestsOf(t)) = Count(up, RequestsOf(t))
        /\ Count(down, AnswersTo(t)) \in Nat
        /\ Count(down', AnswersTo(t)) \in Nat
        /\ Count(down, AnswersTo(t)) = Count(down', AnswersTo(t))
              + (IF t = About THEN 1 ELSE 0)
    BY <1>1, <1>2, MessageTaken, CountTypes DEF Answers
  <1>6. CASE t # About
    <2>1. /\ State(t)' = State(t)
          /\ t \in DOMAIN states => t \in DOMAIN states'
      <3>1. (\E s : states' = Put(About, s)) \/ states' = RemoveTarget(About)
                \/ UNCHANGED states
        BY <1>1 DEF HandleAdded, HandleRemoved
      <3>2. ASSUME NEW s, states' = Put(About, s)
            PROVE  /\ State(t)' = State(t)
                   /\ t \in DOMAIN states => t \in DOMAIN states'
        BY <1>6, <3>2, PutEffect
      <3>3. CASE states' = RemoveTarget(About)
        BY <1>6, <3>3, RemoveEffect
      <3>4. CASE UNCHANGED states
        BY <3>4 DEF State
      <3> QED
        BY <3>1, <3>2, <3>3, <3>4
    <2>2. Lasts(t) => Lasts(t)'
      BY <1>1, <1>2, <2>1, MessageTaken DEF Lasts
    <2> QED
      BY <1>4, <1>5, <1>6, <2>1, <2>2 DEF Counted
  <1>7. CASE t = About
    <2>1. /\ State(t) \in AggState
          /\ State(t).out = Count(up', RequestsOf(t))
                                + Count(down', AnswersTo(t)) + 1
      BY <1>4, <1>5, <1>7, CountTypes DEF Counted
    <2>2. State(t)'.out = State(t).out - 1
      <3>1. /\ [State(t) EXCEPT !.out = @ - 1].out = State(t).out - 1
            /\ NoState.out = 0
            /\ [NoState EXCEPT !.current = State(t).current].out = 0
        BY <2>1 DEF AggState, NoState
      <3>2. \/ State(t)' = [State(t) EXCEPT !.out = @ - 1]
            \/ /\ State(t).out = 1
               /\ State(t)' \in {NoState, [NoState EXCEPT
                                             !.current = State(t).current]}
        BY <1>1, <1>7, PutEffect, RemoveEffect DEF HandleAdded, HandleRemoved
      <3>3. CASE State(t)' = [State(t) EXCEPT !.out = @ - 1]
        BY <3>1, <3>3
      <3>4. CASE /\ State(t).out = 1
                 /\ State(t)' \in {NoState, [NoState EXCEPT
                                               !.current = State(t).current]}
        <4>1. State(t)'.out = 0
          BY <3>1, <3>4
        <4> QED
          BY <3>4, <4>1
      <3> QED
        BY <3>2, <3>3, <3>4
    <2>3. Counted(t)'
      BY <1>5, <2>1, <2>2 DEF Counted, AggState
    <2>4. ASSUME t \in listening
          PROVE  t \in DOMAIN states'
      <3>1. Lasts(t)
        BY <1>4, <2>4
      <3>2. CASE kind = "added"
        BY <1>1, <1>7, <3>2, PutEffect DEF HandleAdded
      <3>3. CASE kind = "removed"
        <4>1. \/ Count(down', AnswersTo(t)) >= 1
              \/ Has(up, Asks(t))
          BY <1>1, <1>7, <3>1, <3>3, MessageTaken DEF Lasts
        <4>2. Has(up, Asks(t)) => Count(up, RequestsOf(t)) >= 1
          <5>1. Asks(t) \subseteq RequestsOf(t)
            BY DEF Asks
          <5> QED
            BY <5>1, CountTypes, HasCounts
        <4>3. State(t).out # 1
          BY <1>5, <2>1, <4>1, <4>2
        <4> QED
          BY <1>1, <1>7, <3>3, <4>3, PutEffect DEF HandleRemoved
      <3> QED
        BY <3>2, <3>3
    <2>5. t \in listening => Lasts(t)'
      BY <1>1, <1>2, <1>4, <2>4, MessageTaken DEF Lasts
    <2> QED
      BY <2>3, <2>5
  <1> QED
    BY <1>6, <1>7

(* A state is replaced by one that counts the same.                        *)
LEMMA CountGathered ==
    ASSUME TypeInv, NEW t \in Target, TargetInv(t),
           NEW kind \in {"current", "docs", "reset", "filter", "snapshot"},
           OnWatchStreamChange(kind), up' = up,
           State(t)'.out = State(t).out,
           t \in DOMAIN states => t \in DOMAIN states',
           UNCHANGED <<listening, miscounted>>
    PROVE  TargetInv(t)'
  <1>1. Count(down', AnswersTo(t)) = Count(down, AnswersTo(t))
    BY MessageTaken, CountTypes DEF Answers
  <1>2. Followed(down, Removals(t), Admissions(t)) =>
            Followed(down', Removals(t), Admissions(t))
    BY MessageTaken
  <1> QED
    BY <1>1, <1>2 DEF TargetInv, Counted, Lasts

LEMMA CountHandled ==
    ASSUME TypeInv, NEW t \in Target, TargetInv(t),
           \/ HandleCurrent \/ HandleDocumentChange \/ HandleReset
           \/ HandleExistenceFilter \/ IgnoreSnapshot
    PROVE  TargetInv(t)'
  <1>1. CASE IgnoreSnapshot
    <2>1. /\ OnWatchStreamChange("snapshot") /\ up' = up
          /\ UNCHANGED <<listening, miscounted, states>>
      BY <1>1 DEF IgnoreSnapshot, targetVars
    <2> QED
      BY <2>1, CountGathered DEF State
  <1>2. ASSUME \/ HandleCurrent \/ HandleDocumentChange \/ HandleReset
               \/ HandleExistenceFilter
        PROVE  TargetInv(t)'
    <2>1. PICK kind \in {"current", "docs", "reset", "filter"} :
              OnWatchStreamChange(kind)
      BY <1>2 DEF HandleCurrent, HandleDocumentChange, HandleReset,
                  HandleExistenceFilter
    <2>2. UNCHANGED <<up, listening, miscounted>>
      BY <1>2, StateHandled
    <2>3. \/ UNCHANGED states
          \/ IsActiveTarget(About) /\
                \E s : states' = Put(About, s) /\ s.out = State(About).out
      <3>1. State(About) \in AggState
        BY CountTypes
      <3>2. IsActiveTarget(About) => State(About).out = 0
        BY DEF IsActiveTarget
      <3>3. ResetState(About).out = 0
        BY DEF ResetState, NoState
      <3>4. ASSUME NEW s, IfActive(s), s.out = 0 \/ s.out = State(About).out
            PROVE  \/ UNCHANGED states
                   \/ IsActiveTarget(About) /\ \E x :
                         states' = Put(About, x) /\ x.out = State(About).out
        BY <3>2, <3>4 DEF IfActive
      <3>5. CASE HandleCurrent
        <4>1. [State(About) EXCEPT !.current = TRUE].out = State(About).out
          BY <3>1 DEF AggState
        <4> QED
          BY <3>4, <3>5, <4>1 DEF HandleCurrent
      <3>6. CASE HandleDocumentChange
        <4> DEFINE s == [State(About) EXCEPT
              !.added = (@ \cup (Head(down).add \ keys[About]))
                            \ Head(down).remove,
              !.removed = (@ \ Head(down).add)
                              \cup (Head(down).remove \cap keys[About])]
        <4>1. s.out = State(About).out
          BY <3>1 DEF AggState
        <4>2. IfActive(s)
          BY <3>6 DEF HandleDocumentChange
        <4> HIDE DEF s
        <4> QED
          BY <3>4, <4>1, <4>2
      <3>7. CASE HandleReset
        BY <3>3, <3>4, <3>7 DEF HandleReset
      <3>8. CASE HandleExistenceFilter
        <4>1. IfActive(State(About)) \/ IfActive(ResetState(About))
          BY <3>8 DEF HandleExistenceFilter
        <4> QED
          BY <3>3, <3>4, <4>1
      <3> QED
        BY <1>2, <3>5, <3>6, <3>7, <3>8
    <2>4. /\ State(t)'.out = State(t).out
          /\ t \in DOMAIN states => t \in DOMAIN states'
      <3>1. CASE UNCHANGED states
        BY <3>1 DEF State
      <3>2. ASSUME NEW s, states' = Put(About, s), s.out = State(About).out
            PROVE  /\ State(t)'.out = State(t).out
                   /\ t \in DOMAIN states => t \in DOMAIN states'
        <4>1. CASE t = About
          <5>1. states' = Put(t, s)
            BY <3>2, <4>1
          <5>2. State(t)' = s /\ DOMAIN states' = DOMAIN states \cup {t}
            BY <5>1, PutEffect
          <5> QED
            BY <3>2, <4>1, <5>2
        <4>2. CASE t # About
          BY <3>2, <4>2, PutEffect
        <4> QED
          BY <4>1, <4>2
      <3> QED
        BY <2>3, <3>1, <3>2
    <2> QED
      BY <2>1, <2>2, <2>4, CountGathered
  <1> QED
    BY <1>1, <1>2

(* A query is asked for again as soon as it was left.                      *)
LEMMA AskedAgainFollowed ==
    ASSUME TypeInv, NEW t
    PROVE  Followed(AskedAgain, Leaves(t), Asks(t))
  <1> DEFINE again == resets \cap listening
             n == Cardinality(again)
             e == SetToSeq(again)
             half(i) == (i + 1) \div 2
  <1>1. again \in SUBSET Target /\ 0 \in 0 .. Now
    <2>1. resets \subseteq Target
      BY DEF TypeInv, TypeOK
    <2> QED
      BY <2>1, NowType
  <1>2. n \in Nat /\ \A i \in 1 .. n : e[i] \in Target
    BY <1>1, FiniteTargets, SetAsSequence
  <1>3. /\ DOMAIN AskedAgain = 1 .. 2 * n
        /\ \A i \in 1 .. 2 * n : AskedAgain[i] =
              IF i % 2 = 1 THEN Unwatch(e[half(i)]) ELSE Watch(e[half(i)], 0)
    BY DEF AskedAgain
  <1> HIDE DEF again, n, e
  <1>4. ASSUME NEW i \in DOMAIN AskedAgain, AskedAgain[i] \in Leaves(t)
        PROVE  \E j \in DOMAIN AskedAgain :
                  i < j /\ AskedAgain[j] \in Asks(t)
    <2>1. i \in 1 .. 2 * n /\ half(i) \in 1 .. n
      BY <1>2, <1>3, <1>4, Halves
    <2>2. i % 2 = 1
      <3>1. AskedAgain[i].kind = "unwatch"
        BY <1>4 DEF Leaves
      <3>2. i % 2 # 1 => AskedAgain[i] = Watch(e[half(i)], 0)
        BY <1>3, <2>1
      <3> QED
        BY <3>1, <3>2 DEF Watch
    <2>3. e[half(i)] = t /\ t \in Target
      <3>1. AskedAgain[i] = Unwatch(e[half(i)]) /\ e[half(i)] \in Target
        BY <1>2, <1>3, <2>1, <2>2
      <3>2. AskedAgain[i].target = t
        BY <1>4 DEF Leaves, RequestsOf
      <3> QED
        BY <3>1, <3>2 DEF Unwatch
    <2>4. i + 1 \in 1 .. 2 * n /\ half(i + 1) = half(i) /\ (i + 1) % 2 # 1
      <3>1. i = 2 * half(i) - 1
        BY <1>2, <2>1, <2>2, Halves
      <3> QED
        BY <1>2, <2>1, <2>2, <3>1
    <2>5. AskedAgain[i + 1] = Watch(t, 0)
      <3> HIDE DEF half
      <3> QED
        BY <1>3, <2>3, <2>4
    <2>6. Watch(t, 0) \in Asks(t)
      BY <1>1, <2>3, RequestsMade DEF Asks, Watch
    <2>7. i < i + 1
      BY <2>1
    <2> QED
      BY <1>3, <2>4, <2>5, <2>6, <2>7
  <1> QED
    BY <1>4 DEF Followed

LEMMA CountRaise ==
    ASSUME TypeInv, NEW t \in Target, TargetInv(t), RaiseWatchSnapshot
    PROVE  TargetInv(t)'
  <1> DEFINE again == resets \cap listening
             more == IF t \in again THEN 2 ELSE 0
  <1>1. /\ OnWatchStreamChange("snapshot") /\ up' = up \o AskedAgain
        /\ UNCHANGED <<listening, miscounted>>
        /\ DOMAIN states' = DOMAIN states
    BY DEF RaiseWatchSnapshot, AskedAgain
  <1>2. SUFFICES ASSUME t \notin miscounted
                 PROVE  Counted(t)' /\ (t \in listening => Lasts(t)')
    BY <1>1 DEF TargetInv
  <1>3. Counted(t) /\ (t \in listening => Lasts(t))
    BY <1>2 DEF TargetInv
  <1>4. /\ AskedAgain \in Seq(AnyRequest) /\ up \in Seq(AnyRequest)
        /\ down \in Seq(AnyMessage)
    <2>1. Request \subseteq AnyRequest
      BY NowType DEF Request, AnyRequest
    <2> QED
      BY <2>1, AskedAgainTyped, SeqMonotonic, CountTypes
  <1>5. Count(up', RequestsOf(t)) = Count(up, RequestsOf(t)) + more
    BY <1>1, <1>4, CountConcat, AskedAgainCounts
  <1>6. Count(down', AnswersTo(t)) = Count(down, AnswersTo(t))
    BY <1>1, MessageTaken, CountTypes DEF Answers
  <1>7. State(t)'.out = State(t).out + more
    <2> DEFINE active == {x \in DOMAIN states : IsActiveTarget(x)}
               st == IF t \in active
                     THEN [states[t] EXCEPT !.added = {}, !.removed = {}]
                     ELSE states[t]
    <2>1. t \in DOMAIN states =>
              states'[t] = IF t \in again THEN [st EXCEPT !.out = @ + 2]
                           ELSE st
      BY DEF RaiseWatchSnapshot
    <2>2. CASE t \in DOMAIN states
      <3>1. states[t] \in AggState
        BY <2>2, CountTypes DEF State
      <3>2. st \in AggState /\ st.out = states[t].out
        BY <3>1 DEF AggState
      <3> HIDE DEF st
      <3>3. states'[t].out = st.out + more
        <4>1. [st EXCEPT !.out = @ + 2].out = st.out + 2
          BY <3>2 DEF AggState
        <4>2. st.out \in Int
          BY <3>2 DEF AggState
        <4> HIDE DEF again
        <4>3. CASE t \in again
          BY <2>1, <2>2, <4>1, <4>3
        <4>4. CASE t \notin again
          BY <2>1, <2>2, <4>2, <4>4
        <4> QED
          BY <4>3, <4>4
      <3> QED
        BY <1>1, <2>2, <3>2, <3>3 DEF State
    <2>3. CASE t \notin DOMAIN states
      <3>1. t \notin again
        BY <1>3, <2>3 DEF Lasts
      <3>2. State(t) = NoState /\ State(t)' = NoState
        BY <1>1, <2>3 DEF State
      <3> QED
        BY <3>1, <3>2 DEF NoState
    <2> QED
      BY <2>2, <2>3
  <1>8. Lasts(t) => Lasts(t)'
    <2>1. /\ Followed(up, Leaves(t), Asks(t)) =>
                Followed(up', Leaves(t), Asks(t))
          /\ Has(up, Asks(t)) => Has(up', Asks(t))
      BY <1>1, <1>4, AfterConcat, AskedAgainFollowed
    <2>2. Followed(down, Removals(t), Admissions(t)) =>
              Followed(down', Removals(t), Admissions(t))
      BY <1>1, MessageTaken
    <2> QED
      BY <1>1, <2>1, <2>2 DEF Lasts
  <1>9. Counted(t)'
    <2>1. more \in Int
      OBVIOUS
    <2> HIDE DEF more
    <2> QED
      BY <1>3, <1>5, <1>6, <1>7, <2>1, CountTypes DEF Counted
  <1> QED
    BY <1>1, <1>3, <1>8, <1>9

LEMMA CountRefused ==
    ASSUME TypeInv, NEW t \in Target, TargetInv(t), ProcessTargetError
    PROVE  TargetInv(t)'
  <1>1. /\ OnWatchStreamChange("refused") /\ UNCHANGED up
        /\ miscounted' = IF About \in listening /\ State(About).out = 1
                         THEN miscounted ELSE miscounted \cup {About}
        /\ About \in listening =>
              /\ listening' = listening \ {About}
              /\ states' = RemoveTarget(About)
        /\ About \notin listening => UNCHANGED <<listening, states>>
    BY DEF ProcessTargetError, Drop
  <1>2. Count(down, AnswersTo(t)) = Count(down', AnswersTo(t))
            + (IF t = About THEN 1 ELSE 0)
    BY <1>1, MessageTaken DEF Answers
  <1>3. Count(down', AnswersTo(t)) \in Nat /\ Count(up, RequestsOf(t)) \in Nat
    BY <1>1, MessageTaken, CountTypes
  <1>4. CASE t # About
    <2>1. /\ State(t)' = State(t)
          /\ t \in DOMAIN states => t \in DOMAIN states'
      <3>1. CASE states' = RemoveTarget(About)
        BY <1>4, <3>1, RemoveEffect
      <3>2. CASE UNCHANGED states
        BY <3>2 DEF State
      <3> QED
        BY <1>1, <3>1, <3>2
    <2>2. Counted(t) => Counted(t)'
      BY <1>1, <1>2, <1>3, <1>4, <2>1 DEF Counted
    <2>3. Lasts(t) => Lasts(t)'
      BY <1>1, <2>1, MessageTaken DEF Lasts
    <2> QED
      BY <1>1, <1>4, <2>2, <2>3 DEF TargetInv
  <1>5. CASE t = About /\ t \in listening /\ State(t).out = 1
    <2>1. State(t)' = NoState
      BY <1>1, <1>5, RemoveEffect
    <2>2. Counted(t) => Counted(t)'
      BY <1>1, <1>2, <1>3, <1>5, <2>1 DEF Counted, NoState
    <2> QED
      BY <1>1, <1>5, <2>2 DEF TargetInv
  <1>6. CASE t = About /\ ~(t \in listening /\ State(t).out = 1)
    BY <1>1, <1>6 DEF TargetInv
  <1> QED
    BY <1>4, <1>5, <1>6

(* The server answers each request once, in order.                         *)
LEMMA CountTaken ==
    ASSUME TypeInv, NEW t \in Target, TargetInv(t), ServerTakes
    PROVE  TargetInv(t)'
  <1> DEFINE r == Head(up)
  <1>1. /\ up # << >> /\ up' = Tail(up)
        /\ UNCHANGED <<listening, states, miscounted>>
    BY DEF ServerTakes, targetVars, pastVars
  <1>2. PICK kind \in Answers :
            /\ down' = Append(down, Message(kind, {r.target}))
            /\ kind = "removed" <=> r.kind # "watch"
    BY DEF ServerTakes, Answers
  <1> DEFINE m == Message(kind, {r.target})
  <1>3. up \in Seq(AnyRequest) /\ down \in Seq(AnyMessage)
    BY CountTypes
  <1>4. r \in AnyRequest /\ up' \in Seq(AnyRequest)
    BY <1>1, <1>3, HeadTailProperties
  <1>5. /\ r.target \in Target /\ r.kind \in {"watch", "unwatch"}
        /\ r \in RequestsOf(t) <=> t = r.target
    BY <1>4 DEF AnyRequest, RequestsOf
  <1> HIDE DEF r
  <1>6. /\ m \in AnyMessage /\ (m \in AnswersTo(t) <=> t = r.target)
        /\ m.kind = kind
    <2>1. /\ m \in AnyMessage
          /\ \A x : m \in AnswersTo(x) <=> x = r.target
      BY <1>2, <1>5, RequestsMade
    <2>2. m.kind = kind
      BY DEF Message
    <2> HIDE DEF m
    <2> QED
      BY <2>1, <2>2
  <1> HIDE DEF m
  <1>7. /\ Count(up, RequestsOf(t)) = Count(up', RequestsOf(t))
              + (IF t = r.target THEN 1 ELSE 0)
        /\ Count(up', RequestsOf(t)) \in Nat
    BY <1>1, <1>3, <1>4, <1>5, CountTail, PlacesFinite DEF r
  <1>8. /\ Count(down', AnswersTo(t)) = Count(down, AnswersTo(t))
              + (IF t = r.target THEN 1 ELSE 0)
        /\ Count(down, AnswersTo(t)) \in Nat
    BY <1>2, <1>3, <1>6, CountAppend, PlacesFinite DEF m
  <1>9. Counted(t) => Counted(t)'
    <2>1. State(t)' = State(t)
      BY <1>1 DEF State
    <2> QED
      BY <1>7, <1>8, <2>1 DEF Counted
  <1>10. ASSUME Lasts(t)
         PROVE  Lasts(t)'
    <2>1. /\ Followed(up', Leaves(t), Asks(t))
          /\ r \in Leaves(t) => Has(up', Asks(t))
          /\ Has(up, Asks(t)) /\ r \notin Asks(t) => Has(up', Asks(t))
      BY <1>1, <1>3, <1>10, AfterTail DEF Lasts, r
    <2>2. /\ Followed(down, Removals(t), Admissions(t)) /\ m \notin Removals(t)
                => Followed(down', Removals(t), Admissions(t))
          /\ m \in Admissions(t) /\ m \notin Removals(t) =>
                Followed(down', Removals(t), Admissions(t))
      BY <1>2, <1>3, <1>6, AfterAppend DEF m
    <2>3. CASE t = r.target /\ r.kind = "watch"
      <3>1. m \in Admissions(t) /\ m \notin Removals(t)
        BY <1>2, <1>6, <2>3 DEF Admissions, Removals
      <3> QED
        BY <1>1, <1>10, <2>1, <2>2, <3>1 DEF Lasts
    <2>4. CASE t = r.target /\ r.kind = "unwatch"
      <3>1. r \in Leaves(t)
        BY <1>5, <2>4 DEF Leaves
      <3> QED
        BY <1>1, <1>10, <2>1, <3>1 DEF Lasts
    <2>5. CASE t # r.target
      <3>1. r \notin Asks(t) /\ m \notin Removals(t)
        BY <1>5, <1>6, <2>5 DEF Asks, Removals
      <3> QED
        BY <1>1, <1>10, <2>1, <2>2, <3>1 DEF Lasts
    <2> QED
      BY <1>5, <2>3, <2>4, <2>5
  <1> QED
    BY <1>1, <1>9, <1>10 DEF TargetInv

(* What the server sends of its own accord is no answer.                   *)
LEMMA CountSent ==
    ASSUME TypeInv, NEW t \in Target, TargetInv(t), ServerSendsSome
    PROVE  TargetInv(t)'
  <1>1. UNCHANGED <<up, listening, states, miscounted>>
    BY ServerSendsWhat DEF targetVars, pastVars
  <1>2. PICK more \in Seq(Speech) : down' = down \o more
    BY ServerSendsWhat, ServerBrings DEF Brings
  <1>3. Speech \subseteq AnyMessage
    BY DEF Speech, SoundMessage
  <1>4. more \in Seq(AnyMessage) /\ down \in Seq(AnyMessage)
    BY <1>3, SeqMonotonic, CountTypes
  <1>5. \A i \in DOMAIN more : more[i] \notin AnswersTo(t)
    <2>1. \A i \in DOMAIN more : more[i] \in Speech
      BY <1>2
    <2> QED
      BY <2>1 DEF Speech, AnswersTo
  <1>6. Count(more, AnswersTo(t)) = 0
    <2>1. Places(more, AnswersTo(t)) = {}
      BY <1>5 DEF Places
    <2> QED
      BY <2>1, FS_EmptySet DEF Count
  <1>7. Followed(more, Removals(t), Admissions(t))
    BY <1>5 DEF Followed, Removals
  <1>8. Count(down', AnswersTo(t)) = Count(down, AnswersTo(t))
    BY <1>2, <1>4, <1>6, CountConcat, CountTypes
  <1>9. Followed(down, Removals(t), Admissions(t)) =>
            Followed(down', Removals(t), Admissions(t))
    BY <1>2, <1>4, <1>7, AfterConcat
  <1> QED
    BY <1>1, <1>8, <1>9 DEF TargetInv, Counted, Lasts, State

LEMMA CountInit == Init => CountInv
  BY DEF Init, CountInv, WhileClosed, Unserved, IdleStream, IsOpen

LEMMA CountStep == CountInv /\ TypeInv /\ OnlineInv /\ [Next]_vars => CountInv'
  <1> SUFFICES ASSUME CountInv, TypeInv, OnlineInv, [Next]_vars
               PROVE  CountInv'
    OBVIOUS
  <1>1. /\ WhileClosed /\ WhileClosed'
        /\ IsOpen(stream)' => \/ ResumeStartWithCredentials /\ ~IsOpen(stream)
                              \/ IsOpen(stream)
    BY StreamGoesOn DEF CountInv
  <1>2. SUFFICES ASSUME IsOpen(stream)', NEW t \in Target
                 PROVE  TargetInv(t)'
    BY <1>1 DEF CountInv
  <1>3. CASE ResumeStartWithCredentials /\ ~IsOpen(stream)
    BY <1>1, <1>3, CountResume
  <1>4. CASE IsOpen(stream)
    <2>1. TargetInv(t)
      BY <1>4 DEF CountInv
    <2>2. ASSUME NEW u \in Target, Listen(u) \/ StopListening(u)
          PROVE  TargetInv(t)'
      BY <1>4, <2>1, <2>2, CountListen, CountStop
    <2>3. CASE HandleMessage
      BY <2>1, <2>3, CountAnswer, CountHandled, CountRaise, CountRefused
         DEF HandleMessage
    <2>4. CASE ServerTakes \/ ServerSendsSome
      BY <2>1, <2>4, CountTaken, CountSent
    <2>5. ASSUME \/ IdleTimeout \/ OnWatchStreamClose \/ RestartNetwork
                 \/ DisableNetwork
          PROVE  FALSE
      BY <1>2, <2>5, EndOfStream DEF ClosedByNewStream
    <2>6. ResumeStartWithCredentials => FALSE
      BY <1>4 DEF ResumeStartWithCredentials, OnlineInv, AssertionsHold,
         TimersFindTheirState, IsOpen
    <2>7. ASSUME \/ BackoffElapsed \/ OnlineStateTimeout \/ EnableNetwork
                 \/ UNCHANGED vars \/ \E u \in Target, d \in Doc : Edit(u, d)
          PROVE  TargetInv(t)'
      <3>1. UNCHANGED <<up, down, states, listening, miscounted>>
        BY <2>7 DEF BackoffElapsed, OnlineStateTimeout, EnableNetwork, vars,
           Edit, targetVars, pastVars
      <3> QED
        BY <2>1, <3>1, CountUntouched DEF State
    <2> QED
      BY <2>2, <2>3, <2>4, <2>5, <2>6, <2>7 DEF Next
  <1> QED
    BY <1>1, <1>2, <1>3, <1>4

LEMMA CountInvariant == Spec => []CountInv
  BY CountInit, CountStep, TypeInvariant, OnlineInvariant, PTL DEF Spec

(* On an open stream as many answers are due to each query as the          *)
(* aggregator counts, however the requests, their answers, the snapshots   *)
(* that ask again and the ends of the stream interleave, unless a refusal  *)
(* came when another request for the query was under way.                  *)
THEOREM AnswersAreCounted == Spec => []OutstandingIsDue
  <1>1. TypeInv /\ CountInv => OutstandingIsDue
    BY DueIsCount DEF CountInv, TargetInv, Counted, OutstandingIsDue
  <1> QED
    BY <1>1, TypeInvariant, CountInvariant, PTL

-----------------------------------------------------------------------------
(* The documents of a query that is listened to, on the open stream.  Each *)
(* predicate is about messages s of which the first k are answers that do  *)
(* not count any more.                                                     *)

NoneAfter(s, S, k) == \A i \in DOMAIN s : k < i => s[i] \notin S

\* The last member of s in S is r.
Ends(s, S, r) == \E i \in DOMAIN s : s[i] = r /\ NoneAfter(s, S, i)

(* A snapshot that comes at place i or later brings version n at least,    *)
(* and the server is there.                                                *)
LateFrom(s, at, n, i) ==
    /\ n <= at
    /\ \A j \in DOMAIN s : i <= j /\ s[j].kind = "snapshot" => n <= s[j].v

\* The query is said to be current only when it is at version n.
Punctual(s, t, at, n, k) ==
    \A i \in DOMAIN s : k < i /\ s[i].kind = "current" /\ s[i].targets = {t}
        => LateFrom(s, at, n, i)

LEMMA TailPlaces ==
    ASSUME NEW M, NEW s \in Seq(M), s # << >>
    PROVE  /\ Len(s) \in Nat \ {0} /\ Len(Tail(s)) = Len(s) - 1
           /\ DOMAIN s = 1 .. Len(s) /\ DOMAIN Tail(s) = 1 .. Len(s) - 1
           /\ Tail(s) \in Seq(M) /\ Head(s) = s[1]
           /\ \A i \in DOMAIN Tail(s) : /\ i + 1 \in DOMAIN s
                                        /\ Tail(s)[i] = s[i + 1]
  <1> DEFINE r == Tail(s)
  <1>1. /\ r \in Seq(M) /\ Len(r) = Len(s) - 1
        /\ \A i \in 1 .. Len(r) : r[i] = s[i + 1]
    BY HeadTailProperties
  <1>2. /\ DOMAIN s = 1 .. Len(s) /\ Len(s) \in Nat \ {0} /\ Head(s) = s[1]
        /\ DOMAIN r = 1 .. Len(r)
    BY <1>1, EmptySeq, LenProperties
  <1> HIDE DEF r
  <1>3. /\ DOMAIN r = 1 .. Len(s) - 1
        /\ \A i \in DOMAIN r : i + 1 \in DOMAIN s /\ r[i] = s[i + 1]
    BY <1>1, <1>2
  <1> QED
    BY <1>1, <1>2, <1>3 DEF r

LEMMA TailKeeps ==
    ASSUME NEW M, NEW s \in Seq(M), s # << >>, NEW S, NEW t, NEW at, NEW n,
           NEW k \in Nat, NEW l \in Nat, k <= l + 1
    PROVE  /\ NoneAfter(s, S, k) => NoneAfter(Tail(s), S, l)
           /\ LateFrom(s, at, n, k) => LateFrom(Tail(s), at, n, l)
           /\ Punctual(s, t, at, n, k) => Punctual(Tail(s), t, at, n, l)
  <1> DEFINE r == Tail(s)
  <1>1. /\ \A i \in DOMAIN r : i + 1 \in DOMAIN s /\ r[i] = s[i + 1]
        /\ \A i \in DOMAIN r : i \in Nat
    BY TailPlaces
  <1> HIDE DEF r
  <1>2. ASSUME NoneAfter(s, S, k), NEW i \in DOMAIN r, l < i
        PROVE  r[i] \notin S
    BY <1>1, <1>2 DEF NoneAfter
  <1>3. ASSUME NEW p \in Nat, NEW q \in Nat, p <= q + 1,
               LateFrom(s, at, n, p)
        PROVE  LateFrom(r, at, n, q)
    BY <1>1, <1>3 DEF LateFrom
  <1>4. ASSUME Punctual(s, t, at, n, k), NEW i \in DOMAIN r, l < i,
               r[i].kind = "current", r[i].targets = {t}
        PROVE  LateFrom(r, at, n, i)
    <2>1. LateFrom(s, at, n, i + 1)
      BY <1>1, <1>4 DEF Punctual
    <2> QED
      BY <1>1, <1>3, <2>1
  <1>5. NoneAfter(s, S, k) => NoneAfter(r, S, l)
    BY <1>2 DEF NoneAfter
  <1>6. Punctual(s, t, at, n, k) => Punctual(r, t, at, n, l)
    BY <1>4 DEF Punctual
  <1> QED
    BY <1>3, <1>5, <1>6 DEF r

LEMMA ConcatPlaces ==
    ASSUME NEW M, NEW s \in Seq(M), NEW x \in Seq(M)
    PROVE  /\ s \o x \in Seq(M) /\ Len(s \o x) = Len(s) + Len(x)
           /\ Len(s) \in Nat /\ Len(x) \in Nat
           /\ \A i \in DOMAIN s : i \in DOMAIN (s \o x) /\ (s \o x)[i] = s[i]
           /\ \A i \in DOMAIN (s \o x) :
                 \/ i \in DOMAIN s /\ (s \o x)[i] = s[i]
                 \/ /\ i - Len(s) \in DOMAIN x
                    /\ (s \o x)[i] = x[i - Len(s)]
           /\ DOMAIN s = 1 .. Len(s) /\ DOMAIN x = 1 .. Len(x)
           /\ DOMAIN (s \o x) = 1 .. Len(s) + Len(x)
  <1> DEFINE r == s \o x
  <1>1. /\ r \in Seq(M) /\ Len(r) = Len(s) + Len(x)
        /\ \A i \in 1 .. Len(s) + Len(x) :
              r[i] = IF i <= Len(s) THEN s[i] ELSE x[i - Len(s)]
    BY ConcatProperties
  <1>2. /\ DOMAIN r = 1 .. Len(s) + Len(x) /\ DOMAIN s = 1 .. Len(s)
        /\ DOMAIN x = 1 .. Len(x) /\ Len(s) \in Nat /\ Len(x) \in Nat
    BY <1>1, LenProperties
  <1> HIDE DEF r
  <1>3. \A i \in DOMAIN s : i \in DOMAIN r /\ r[i] = s[i]
    BY <1>1, <1>2
  <1>4. \A i \in DOMAIN r : \/ i \in DOMAIN s /\ r[i] = s[i]
                            \/ /\ i - Len(s) \in DOMAIN x
                               /\ r[i] = x[i - Len(s)]
    BY <1>1, <1>2
  <1> QED
    BY <1>1, <1>2, <1>3, <1>4 DEF r

LEMMA EndsTail ==
    ASSUME NEW M, NEW s \in Seq(M), s # << >>, NEW S, NEW r, Ends(s, S, r)
    PROVE  \/ Ends(Tail(s), S, r)
           \/ Head(s) = r /\ NoneAfter(Tail(s), S, 0)
  <1> DEFINE x == Tail(s)
  <1>1. PICK i \in DOMAIN s : s[i] = r /\ NoneAfter(s, S, i)
    BY DEF Ends
  <1>2. /\ DOMAIN s = 1 .. Len(s) /\ Len(s) \in Nat \ {0} /\ Head(s) = s[1]
        /\ DOMAIN x = 1 .. Len(s) - 1
        /\ \A j \in DOMAIN x : x[j] = s[j + 1]
    BY TailPlaces
  <1>3. \A l \in Nat : i <= l + 1 => NoneAfter(x, S, l)
    <2>1. i \in Nat
      BY <1>2
    <2> QED
      BY <1>1, <2>1, TailKeeps
  <1> HIDE DEF x
  <1>4. CASE i = 1
    BY <1>1, <1>2, <1>3, <1>4 DEF x
  <1>5. CASE i # 1
    <2>1. i - 1 \in DOMAIN x /\ x[i - 1] = r /\ i - 1 \in Nat
          /\ i <= (i - 1) + 1
      BY <1>1, <1>2, <1>5
    <2> QED
      BY <1>3, <2>1 DEF Ends, x
  <1> QED
    BY <1>4, <1>5

LEMMA ConcatKeeps ==
    ASSUME NEW M, NEW s \in Seq(M), NEW x \in Seq(M), NEW S
    PROVE  /\ NoneAfter(x, S, 0) =>
                 /\ \A k : NoneAfter(s, S, k) => NoneAfter(s \o x, S, k)
                 /\ \A r : Ends(s, S, r) => Ends(s \o x, S, r)
                 /\ NoneAfter(s \o x, S, Len(s))
           /\ \A r : Ends(x, S, r) => Ends(s \o x, S, r)
  <1> DEFINE y == s \o x
  <1>1. /\ \A i \in DOMAIN y :
              \/ i \in DOMAIN s /\ y[i] = s[i]
              \/ i - Len(s) \in DOMAIN x /\ y[i] = x[i - Len(s)]
        /\ \A i \in DOMAIN s : i \in DOMAIN y /\ y[i] = s[i]
        /\ DOMAIN s = 1 .. Len(s) /\ DOMAIN x = 1 .. Len(x)
        /\ DOMAIN y = 1 .. Len(s) + Len(x) /\ Len(s) \in Nat /\ Len(x) \in Nat
        /\ \A i \in 1 .. Len(x) : y[i + Len(s)] = x[i]
    <2>1. \A i \in 1 .. Len(s) + Len(x) :
              y[i] = IF i <= Len(s) THEN s[i] ELSE x[i - Len(s)]
      BY ConcatProperties
    <2>2. Len(s) \in Nat /\ Len(x) \in Nat
      BY LenProperties
    <2> HIDE DEF y
    <2>3. ASSUME NEW i \in 1 .. Len(x)
          PROVE  y[i + Len(s)] = x[i]
      <3>1. i + Len(s) \in 1 .. Len(s) + Len(x) /\ ~(i + Len(s) <= Len(s))
            /\ (i + Len(s)) - Len(s) = i
        BY <2>2
      <3> QED
        BY <2>1, <3>1
    <2> QED
      BY <2>3, ConcatPlaces DEF y
  <1> HIDE DEF y
  <1>2. ASSUME NoneAfter(x, S, 0), NEW k, NoneAfter(s, S, k)
        PROVE  NoneAfter(y, S, k)
    <2>1. \A j \in DOMAIN x : x[j] \notin S
      BY <1>1, <1>2 DEF NoneAfter
    <2> QED
      BY <1>1, <1>2, <2>1 DEF NoneAfter
  <1>3. ASSUME NoneAfter(x, S, 0), NEW r, Ends(s, S, r)
        PROVE  Ends(y, S, r)
    BY <1>1, <1>2, <1>3 DEF Ends
  <1>4. ASSUME NEW r, Ends(x, S, r)
        PROVE  Ends(y, S, r)
    <2>1. PICK i \in DOMAIN x : x[i] = r /\ NoneAfter(x, S, i)
      BY <1>4 DEF Ends
    <2>2. i + Len(s) \in DOMAIN y /\ y[i + Len(s)] = r
      BY <1>1, <2>1
    <2>3. ASSUME NEW j \in DOMAIN y, i + Len(s) < j
          PROVE  y[j] \notin S
      <3>1. j - Len(s) \in DOMAIN x /\ y[j] = x[j - Len(s)]
            /\ i < j - Len(s)
        BY <1>1, <2>1, <2>3
      <3> QED
        BY <2>1, <3>1 DEF NoneAfter
    <2> QED
      BY <2>2, <2>3 DEF Ends, NoneAfter
  <1>5. NoneAfter(s, S, Len(s))
    BY <1>1 DEF NoneAfter
  <1> QED
    BY <1>2, <1>3, <1>4, <1>5 DEF y

LEMMA OneAppended ==
    ASSUME NEW M, NEW s \in Seq(M), NEW x \in M, NEW S
    PROVE  /\ <<x>> \in Seq(M) /\ Append(s, x) = s \o <<x>>
           /\ x \notin S => NoneAfter(<<x>>, S, 0)
           /\ Ends(<<x>>, S, x)
           /\ DOMAIN <<x>> = {1} /\ <<x>>[1] = x
  <1> DEFINE y == <<x>>
  <1>1. y \in Seq(M) /\ DOMAIN y = {1} /\ y[1] = x
    OBVIOUS
  <1>2. Append(s, x) = s \o y
    BY AppendIsConcat
  <1> HIDE DEF y
  <1>3. (x \notin S => NoneAfter(y, S, 0)) /\ Ends(y, S, x)
    BY <1>1 DEF NoneAfter, Ends
  <1> QED
    BY <1>1, <1>2, <1>3 DEF y

(* What is said of the version still holds when the server says more.      *)
LEMMA LateOn ==
    ASSUME NEW M, NEW s \in Seq(M), NEW x \in Seq(M), NEW t, NEW k,
           NEW at, NEW new, NEW n,
           n <= at \/ (\E i \in DOMAIN x : x[i].kind = "current") =>
               /\ n <= new
               /\ \A i \in DOMAIN x : x[i].kind = "snapshot" => n <= x[i].v
    PROVE  /\ Punctual(s, t, at, n, k) => Punctual(s \o x, t, new, n, k)
           /\ \A i : LateFrom(s, at, n, i) => LateFrom(s \o x, new, n, i)
  <1> DEFINE y == s \o x
  <1>1. \A i \in DOMAIN y :
            \/ i \in DOMAIN s /\ y[i] = s[i]
            \/ i - Len(s) \in DOMAIN x /\ y[i] = x[i - Len(s)]
               /\ \A j \in DOMAIN y : i <= j =>
                     j - Len(s) \in DOMAIN x /\ y[j] = x[j - Len(s)]
    <2>1. /\ DOMAIN s = 1 .. Len(s) /\ DOMAIN x = 1 .. Len(x)
          /\ DOMAIN y = 1 .. Len(s) + Len(x)
          /\ Len(s) \in Nat /\ Len(x) \in Nat
          /\ \A i \in DOMAIN y :
              \/ i \in DOMAIN s /\ y[i] = s[i]
              \/ i - Len(s) \in DOMAIN x /\ y[i] = x[i - Len(s)]
      BY ConcatPlaces
    <2> HIDE DEF y
    <2>2. ASSUME NEW i \in DOMAIN y, i \notin DOMAIN s,
                 NEW j \in DOMAIN y, i <= j
          PROVE  j - Len(s) \in DOMAIN x /\ y[j] = x[j - Len(s)]
      <3>1. j \notin DOMAIN s
        BY <2>1, <2>2
      <3> QED
        BY <2>1, <3>1
    <2> QED
      BY <2>1, <2>2
  <1> HIDE DEF y
  <1>2. ASSUME NEW i, LateFrom(s, at, n, i)
        PROVE  LateFrom(y, new, n, i)
    BY <1>1, <1>2 DEF LateFrom
  <1>3. ASSUME Punctual(s, t, at, n, k), NEW i \in DOMAIN y, k < i,
               y[i].kind = "current", y[i].targets = {t}
        PROVE  LateFrom(y, new, n, i)
    <2>1. CASE i \in DOMAIN s /\ y[i] = s[i]
      BY <1>2, <1>3, <2>1 DEF Punctual
    <2>2. CASE /\ i - Len(s) \in DOMAIN x /\ y[i] = x[i - Len(s)]
               /\ \A j \in DOMAIN y : i <= j =>
                     j - Len(s) \in DOMAIN x /\ y[j] = x[j - Len(s)]
      BY <1>3, <2>2 DEF LateFrom
    <2> QED
      BY <1>1, <2>1, <2>2
  <1> QED
    BY <1>2, <1>3 DEF Punctual, y

LEMMA LeadsNothing ==
    ASSUME NEW past, NEW M, NEW s \in Seq(M), NEW t, NEW A \in SUBSET Doc
    PROVE  Leads(past, t, s, Len(s), A, A)
  <1> DEFINE n == Len(s)
             f == [i \in n .. n |-> A]
  <1>1. n \in Nat
    BY LenProperties
  <1> HIDE DEF n
  <1>2. f \in [n .. n -> SUBSET Doc] /\ f[n] = A
    BY <1>1
  <1>3. n + 1 .. n = {}
    BY <1>1
  <1> HIDE DEF f
  <1> QED
    BY <1>2, <1>3 DEF Leads, n

(* What matched does not change, when something else matches.              *)
LEMMA LeadsLater ==
    ASSUME NEW past, NEW later, NEW s \in Seq(SoundMessage), NEW t,
           NEW k \in Nat, NEW A, NEW B, Leads(past, t, s, k, A, B),
           \A v \in 1 .. Now : later[v] = past[v]
    PROVE  Leads(later, t, s, k, A, B)
  <1>1. \A i \in k + 1 .. Len(s) : s[i] \in SoundMessage
    <2>1. DOMAIN s = 1 .. Len(s) /\ Len(s) \in Nat
      BY LenProperties
    <2>2. \A i \in k + 1 .. Len(s) : i \in 1 .. Len(s)
      BY <2>1
    <2> QED
      BY <2>2, ElementOfSeq
  <1>2. \A m \in SoundMessage : \A C, D :
            Moves(past, t, C, m, D) => Moves(later, t, C, m, D)
    BY DEF SoundMessage, Moves
  <1> QED
    BY <1>1, <1>2 DEF Leads

-----------------------------------------------------------------------------
(* The documents of a query are those that matched at the version of its   *)
(* token.  This needs that what the aggregator gathers becomes, with what  *)
(* is under way, what the server has sent, from the last listen on.        *)

Hasty(t) == t \in hurried \/ since[t] <= lastRemote
Known(t) == (keys[t] \ State(t).removed) \cup State(t).added

\* The documents and what was gathered are A, or the count did not fit.
Kept(t, A) == keys[t] = Matching(t, held[t]) /\ t \notin resets => Known(t) = A

\* The state is current only when the next snapshot is as new as the listen.
Spoken(t) ==
    \/ Hasty(t)
    \/ State(t).current => LateFrom(down, serving[t].at, since[t], 1)

(* The messages behind place k bring A to what matches at the version that *)
(* the server has sent; at place k the listen is answered, from when on    *)
(* the aggregator gathers for it.                                          *)
FlowsFrom(t, k, A) ==
    /\ serving[t].on
    /\ NoneAfter(down, AnswersTo(t), k)
    /\ Leads(history, t, down, k, A, Matching(t, serving[t].at))
    /\ Hasty(t) \/ Punctual(down, t, serving[t].at, since[t], k)
    /\ IF k = 0 THEN Kept(t, A) /\ Spoken(t)
       ELSE down[k] = Message("added", {t}) /\ A = Matching(t, held[t])

(* The last request is to listen from the version held; or it was refused, *)
(* which the client will see; or it was taken.                             *)
Asked(t) == Ends(up, RequestsOf(t), Watch(t, held[t]))
Unasked(t) == NoneAfter(up, RequestsOf(t), 0)
Refused(t) == Ends(down, AnswersTo(t), Message("refused", {t}))
Flows(t) == \E k \in 0 .. Len(down), A \in SUBSET Doc : FlowsFrom(t, k, A)
Flow(t) == Asked(t) \/ (Unasked(t) /\ (Refused(t) \/ Flows(t)))

\* A state that is still to be answered is that of an earlier listen.
Calm(t) == Hasty(t) \/ (State(t).current => State(t).out = 0)

FlowInv ==
    IsOpen(stream) => \A t \in listening \ miscounted : Flow(t) /\ Calm(t)

(* What is gathered is a change of the documents that there are.           *)
StateSound ==
    \A t \in Target : /\ State(t).added \cap keys[t] = {}
                      /\ State(t).removed \subseteq keys[t]

HeldIsToken == \A t \in listening : t \in torn \/ held[t] = token[t]

GatherInv ==
    /\ FlowInv /\ StateSound /\ HeldIsToken
    /\ KeysMatchToken /\ CurrentIsCaughtUp

-----------------------------------------------------------------------------
(* How many answers are due, from what is under way.                       *)
LEMMA CountsNone ==
    ASSUME NEW M, NEW s \in Seq(M), NEW S, NoneAfter(s, S, 0)
    PROVE  Count(s, S) = 0
  <1>1. DOMAIN s = 1 .. Len(s) /\ Len(s) \in Nat
    BY LenProperties
  <1>2. Places(s, S) = {}
    BY <1>1 DEF NoneAfter, Places
  <1> QED
    BY <1>2, FS_EmptySet DEF Count

LEMMA CountsSome ==
    ASSUME NEW M, NEW s \in Seq(M), NEW S, NEW i \in DOMAIN s, s[i] \in S
    PROVE  Count(s, S) >= 1
  <1>1. Has(s, S)
    BY DEF Has
  <1> QED
    BY <1>1, HasCounts

LEMMA DueFacts ==
    ASSUME TypeInv, NEW t \in Target, Counted(t)
    PROVE  /\ Unasked(t) /\ NoneAfter(down, AnswersTo(t), 0) =>
                 State(t).out = 0
           /\ Asked(t) => State(t).out >= 1
           /\ \A i \in DOMAIN down : down[i] \in AnswersTo(t) =>
                 State(t).out >= 1
           /\ /\ Unasked(t) /\ down # << >> /\ Head(down) \in AnswersTo(t)
              /\ NoneAfter(down, AnswersTo(t), 1)
              => State(t).out = 1
  <1>1. /\ up \in Seq(AnyRequest) /\ down \in Seq(AnyMessage)
        /\ Count(up, RequestsOf(t)) \in Nat
        /\ Count(down, AnswersTo(t)) \in Nat
        /\ State(t).out = Count(up, RequestsOf(t)) + Count(down, AnswersTo(t))
    BY CountTypes DEF Counted
  <1>2. Unasked(t) => Count(up, RequestsOf(t)) = 0
    BY <1>1, CountsNone DEF Unasked
  <1>3. NoneAfter(down, AnswersTo(t), 0) => Count(down, AnswersTo(t)) = 0
    BY <1>1, CountsNone
  <1>4. ASSUME Asked(t)
        PROVE  Count(up, RequestsOf(t)) >= 1
    <2>1. PICK i \in DOMAIN up : up[i] = Watch(t, held[t])
      BY <1>4 DEF Asked, Ends
    <2>2. held[t] \in 0 .. Now
      BY DEF TypeInv, TypeOK
    <2>3. up[i] \in RequestsOf(t)
      BY <2>1, <2>2, RequestsMade
    <2> QED
      BY <1>1, <2>3, CountsSome
  <1>5. ASSUME NEW i \in DOMAIN down, down[i] \in AnswersTo(t)
        PROVE  Count(down, AnswersTo(t)) >= 1
    BY <1>1, <1>5, CountsSome
  <1>6. ASSUME down # << >>, Head(down) \in AnswersTo(t),
               NoneAfter(down, AnswersTo(t), 1)
        PROVE  Count(down, AnswersTo(t)) = 1
    <2>1. 1 <= 0 + 1 /\ 0 \in Nat /\ 1 \in Nat
      OBVIOUS
    <2>2. /\ NoneAfter(Tail(down), AnswersTo(t), 0)
          /\ Tail(down) \in Seq(AnyMessage)
      BY <1>1, <1>6, <2>1, TailKeeps, TailPlaces
    <2>3. Count(Tail(down), AnswersTo(t)) = 0
      BY <2>2, CountsNone
    <2> QED
      BY <1>1, <1>6, <2>3, CountTail
  <1> QED
    BY <1>1, <1>2, <1>3, <1>4, <1>5, <1>6

(* A message is taken.  What its handler makes of the query's state must   *)
(* agree with what the server counts on.                                   *)
LEMMA FlowAfter ==
    ASSUME TypeInv, NEW t \in Target, Counted(t), Flow(t),
           NEW kind, OnWatchStreamChange(kind),
           kind # "refused" \/ t # About,
           Hasty(t) => Hasty(t)',
           State(t).out # 0 => held'[t] = held[t],
           Asked(t) /\ held'[t] = held[t] => Asked(t)',
           Unasked(t) => Unasked(t)',
           kind = "added" /\ t = About /\ State(t).out = 1 =>
               \A C \in SUBSET Doc :
                   C = Matching(t, held[t]) => Kept(t, C)' /\ Spoken(t)',
           \A A, C \in SUBSET Doc :
               /\ State(t).out = 0 /\ Kept(t, A) /\ Spoken(t)
               /\ Hasty(t) \/ Punctual(down, t, serving[t].at, since[t], 0)
               /\ Moves(history, t, A, Head(down), C)
               => Kept(t, C)' /\ Spoken(t)'
    PROVE  Flow(t)'
  <1>1. /\ down \in Seq(SoundMessage) /\ down # << >> /\ down' = Tail(down)
        /\ Head(down) \in SoundMessage /\ Head(down).kind = kind
        /\ kind # "snapshot" => Head(down).targets = {About}
        /\ UNCHANGED <<history, serving, since>>
    BY MessageType DEF TypeInv, OnWatchStreamChange, serverVars
  <1>2. /\ Len(down) \in Nat \ {0} /\ Len(down') = Len(down) - 1
        /\ DOMAIN down = 1 .. Len(down) /\ DOMAIN down' = 1 .. Len(down) - 1
        /\ down' \in Seq(SoundMessage) /\ Head(down) = down[1]
        /\ \A i \in DOMAIN down' : i + 1 \in DOMAIN down
                                   /\ down'[i] = down[i + 1]
    BY <1>1, TailPlaces
  <1>3. \A kinds \in Answers :
            /\ Message(kinds, {t}) \in AnswersTo(t)
            /\ Message(kinds, {t}).kind = kinds
            /\ Message(kinds, {t}).targets = {t}
    BY RequestsMade DEF Message
  <1>4. \A v : Matching(t, v)' = Matching(t, v)
    BY <1>1 DEF Matching
  <1>5. CASE Asked(t)
    <2>1. State(t).out # 0
      BY <1>5, DueFacts
    <2> QED
      BY <1>5, <2>1 DEF Flow
  <1>6. CASE Unasked(t) /\ Refused(t)
    <2>1. \/ Refused(t)'
          \/ /\ Head(down) = Message("refused", {t})
             /\ NoneAfter(down', AnswersTo(t), 0)
      BY <1>1, <1>6, EndsTail DEF Refused
    <2>2. Head(down) = Message("refused", {t}) =>
              kind = "refused" /\ {t} = {About}
      BY <1>1, <1>3 DEF Answers
    <2> QED
      BY <1>6, <2>1, <2>2 DEF Flow
  <1>7. CASE Unasked(t) /\ Flows(t)
    <2>1. PICK k \in 0 .. Len(down), A \in SUBSET Doc : FlowsFrom(t, k, A)
      BY <1>7 DEF Flows
    <2>2. SUFFICES ASSUME TRUE
                   PROVE  \E l \in 0 .. Len(down'), C \in SUBSET Doc :
                             FlowsFrom(t, l, C)'
      BY <1>7 DEF Flow, Flows
    <2>3. \A l \in Nat : k <= l + 1 =>
              /\ NoneAfter(down', AnswersTo(t), l)
              /\ Hasty(t)' \/ Punctual(down', t, serving[t].at, since[t], l)
      <3>1. /\ NoneAfter(down, AnswersTo(t), k)
            /\ Hasty(t) \/ Punctual(down, t, serving[t].at, since[t], k)
        BY <2>1 DEF FlowsFrom
      <3>2. k \in Nat
        BY <1>2
      <3>3. ASSUME NEW l \in Nat, k <= l + 1
            PROVE  /\ NoneAfter(down', AnswersTo(t), l)
                   /\ Hasty(t)' \/ Punctual(down', t, serving[t].at,
                                            since[t], l)
        BY <1>1, <3>1, <3>2, <3>3, TailKeeps
      <3> QED
        BY <3>3
    <2>4. LateFrom(down, serving[t].at, since[t], 1) =>
              LateFrom(down', serving[t].at, since[t], 1)
      <3>1. 1 \in Nat /\ 1 <= 1 + 1
        OBVIOUS
      <3> QED
        BY <1>1, <3>1, TailKeeps
    <2>5. CASE k = 0
      <3>1. PICK C \in SUBSET Doc :
                /\ Moves(history, t, A, Head(down), C)
                /\ Leads(history, t, down', 0, C, Matching(t, serving[t].at))
        BY <1>1, <2>1, <2>5, LeadsHead DEF FlowsFrom
      <3>2. State(t).out = 0
        BY <1>7, <2>1, <2>5, DueFacts DEF FlowsFrom
      <3>3. Kept(t, C)' /\ Spoken(t)'
        BY <2>1, <2>5, <3>1, <3>2 DEF FlowsFrom
      <3>4. /\ NoneAfter(down', AnswersTo(t), 0)
            /\ Hasty(t)' \/ Punctual(down', t, serving[t].at, since[t], 0)
        BY <2>3, <2>5
      <3>5. FlowsFrom(t, 0, C)'
        BY <1>1, <1>4, <2>1, <3>1, <3>3, <3>4 DEF FlowsFrom
      <3>6. 0 \in 0 .. Len(down')
        BY <1>2
      <3> QED
        BY <3>5, <3>6
    <2>6. CASE k # 0
      <3>1. /\ k \in DOMAIN down /\ down[k] = Message("added", {t})
            /\ A = Matching(t, held[t])
        BY <1>2, <2>1, <2>6 DEF FlowsFrom
      <3>2. down[k] \in AnswersTo(t)
        BY <1>3, <3>1 DEF Answers
      <3>3. State(t).out >= 1 /\ held'[t] = held[t]
        BY <3>1, <3>2, DueFacts, CountTypes
      <3>4. k \in 1 .. Len(down) /\ k - 1 \in 0 .. Len(down') /\ k - 1 \in Nat
            /\ k <= (k - 1) + 1
        BY <1>2, <3>1
      <3>5. Leads(history, t, down', k - 1, A, Matching(t, serving[t].at))
        BY <1>1, <2>1, <3>4, LeadsTail DEF FlowsFrom
      <3>6. /\ NoneAfter(down', AnswersTo(t), k - 1)
            /\ Hasty(t)' \/ Punctual(down', t, serving[t].at, since[t], k - 1)
        BY <2>3, <3>4
      <3>7. CASE k = 1
        <4>1. Head(down) = Message("added", {t})
          BY <1>2, <3>1, <3>7
        <4>2. kind = "added" /\ t = About
          <5>1. kind = "added" /\ {t} = {About}
            BY <1>1, <1>3, <4>1 DEF Answers
          <5> QED
            BY <5>1
        <4>3. State(t).out = 1
          BY <1>1, <1>2, <1>7, <2>1, <3>2, <3>7, DueFacts DEF FlowsFrom
        <4>4. Kept(t, A)' /\ Spoken(t)'
          BY <3>1, <4>2, <4>3
        <4>5. k - 1 = 0
          BY <3>7
        <4>6. FlowsFrom(t, 0, A)'
          BY <1>1, <1>4, <2>1, <3>5, <3>6, <4>4, <4>5 DEF FlowsFrom
        <4> QED
          BY <3>4, <4>5, <4>6
      <3>8. CASE k # 1
        <4>1. k - 1 \in DOMAIN down' /\ k - 1 # 0 /\ down'[k - 1] = down[k]
          <5>1. k - 1 \in DOMAIN down' /\ (k - 1) + 1 = k /\ k - 1 # 0
            BY <1>2, <3>4, <3>8
          <5> QED
            BY <1>2, <5>1
        <4>2. FlowsFrom(t, k - 1, A)'
          BY <1>1, <1>4, <2>1, <3>1, <3>3, <3>5, <3>6, <4>1 DEF FlowsFrom
        <4> QED
          BY <3>4, <4>2
      <3> QED
        BY <3>7, <3>8
    <2> QED
      BY <2>5, <2>6
  <1> QED
    BY <1>5, <1>6, <1>7 DEF Flow

LEMMA SpokenStays ==
    ASSUME TypeInv, NEW kind, OnWatchStreamChange(kind), NEW t,
           Hasty(t) => Hasty(t)', Spoken(t),
           State(t)'.current => State(t).current
    PROVE  Spoken(t)'
  <1>1. /\ down \in Seq(SoundMessage) /\ down # << >> /\ down' = Tail(down)
        /\ UNCHANGED <<serving, since>>
    BY DEF TypeInv, OnWatchStreamChange, serverVars
  <1>2. 1 \in Nat /\ 1 <= 1 + 1
    OBVIOUS
  <1>3. LateFrom(down, serving[t].at, since[t], 1) =>
            LateFrom(down', serving[t].at, since[t], 1)
    BY <1>1, <1>2, TailKeeps
  <1> QED
    BY <1>1, <1>3 DEF Spoken

\* What holds of a query that is listened to, and is kept by every step.
Ready(t) == Counted(t) /\ Lasts(t) /\ Flow(t) /\ Calm(t)

(* A message that does not touch the query.                                *)
LEMMA FlowUntouched ==
    ASSUME TypeInv, NEW t \in Target, Ready(t),
           NEW kind, OnWatchStreamChange(kind), kind = "snapshot" \/ t # About,
           \A A, C : Moves(history, t, A, Head(down), C) => C = A,
           UNCHANGED <<up, held, hurried>>, State(t)' = State(t),
           keys'[t] = keys[t], t \in resets' <=> t \in resets,
           lastRemote \in Nat, since[t] \in Nat,
           lastRemote' \in Nat, lastRemote <= lastRemote'
    PROVE  Flow(t)' /\ Calm(t)'
  <1>1. UNCHANGED <<history, serving, since>>
    BY DEF OnWatchStreamChange, serverVars
  <1>2. Hasty(t) => Hasty(t)'
    BY <1>1 DEF Hasty
  <1>3. /\ Asked(t) => Asked(t)'
        /\ Unasked(t) => Unasked(t)'
        /\ \A v : Matching(t, v)' = Matching(t, v)
    BY <1>1 DEF Asked, Unasked, Matching
  <1>4. \A C : Kept(t, C) => Kept(t, C)'
    BY <1>3 DEF Kept, Known
  <1>5. Spoken(t) => Spoken(t)'
    BY <1>2, SpokenStays
  <1>6. \A A, C \in SUBSET Doc :
            /\ State(t).out = 0 /\ Kept(t, A) /\ Spoken(t)
            /\ Hasty(t) \/ Punctual(down, t, serving[t].at, since[t], 0)
            /\ Moves(history, t, A, Head(down), C)
            => Kept(t, C)' /\ Spoken(t)'
    BY <1>4, <1>5
  <1>7. Flow(t)'
    BY <1>2, <1>3, <1>6, FlowAfter DEF Ready
  <1>8. Calm(t)'
    BY <1>2 DEF Ready, Calm
  <1> QED
    BY <1>7, <1>8

(* Types of what is compared.                                              *)
LEMMA GatherTypes ==
    ASSUME TypeInv
    PROVE  /\ lastRemote \in Nat
           /\ \A t \in Target : /\ since[t] \in Nat /\ since[t] <= Now
                                /\ held[t] \in 0 .. Now
                                /\ token[t] \in 0 .. Now
                                /\ keys[t] \in SUBSET Doc
                                /\ serving[t].at \in Nat
                                /\ State(t) \in AggState
           /\ listening \subseteq Target
  <1>1. /\ lastRemote \in 0 .. Now /\ keys \in [Target -> SUBSET Doc]
        /\ since \in [Target -> 0 .. Now] /\ held \in [Target -> 0 .. Now]
        /\ token \in [Target -> 0 .. Now] /\ listening \subseteq Target
        /\ serving \in [Target -> [on : BOOLEAN, at : 0 .. Now,
                                   caught : BOOLEAN]]
    BY DEF TypeInv, TypeOK
  <1>2. Now \in Nat
    BY NowType
  <1> QED
    BY <1>1, <1>2, TypedTargets

(* An answer to an earlier request: the aggregator counts it.  The answer  *)
(* to the last one is where it starts to gather.                           *)
LEMMA FlowAnswered ==
    ASSUME TypeInv, NEW t \in Target, Ready(t), t = About,
           HandleAdded \/ HandleRemoved
    PROVE  Flow(t)' /\ Calm(t)'
  <1>1. PICK kind \in {"added", "removed"} :
            /\ OnWatchStreamChange(kind)
            /\ kind = "added" => HandleAdded
            /\ kind = "removed" => HandleRemoved
    BY DEF HandleAdded, HandleRemoved
  <1>2. UNCHANGED <<up, held, keys, resets, lastRemote, hurried, since,
                    history, serving>>
    BY <1>1 DEF HandleAdded, HandleRemoved, storeVars, OnWatchStreamChange,
       serverVars
  <1>3. /\ (Hasty(t) => Hasty(t)') /\ (Asked(t) => Asked(t)')
        /\ Unasked(t) => Unasked(t)'
        /\ \A v : Matching(t, v)' = Matching(t, v)
    BY <1>2 DEF Hasty, Asked, Unasked, Matching
  <1>4. State(t).out >= 1
    <2>1. /\ Head(down) \in SoundMessage /\ Head(down).kind = kind
          /\ Head(down).targets = {About} /\ down # << >>
          /\ down \in Seq(SoundMessage)
      BY <1>1, MessageType DEF OnWatchStreamChange, TypeInv
    <2>2. Head(down) \in AnswersTo(t)
      BY <2>1 DEF AnswersTo, Answers, SoundMessage
    <2>3. 1 \in DOMAIN down /\ Head(down) = down[1]
      BY <2>1, TailPlaces
    <2> QED
      BY <2>2, <2>3, DueFacts DEF Ready
  <1>5. Hasty(t) \/ ~State(t).current
    BY <1>4 DEF Ready, Calm
  <1>6. /\ State(t)'.current => State(t).current
        /\ kind = "added" /\ State(t).out = 1 =>
              State(t)' = [NoState EXCEPT !.current = State(t).current]
    <2>1. State(t) \in AggState
      BY GatherTypes
    <2>2. /\ [State(t) EXCEPT !.out = @ - 1].current = State(t).current
          /\ [NoState EXCEPT !.current = State(t).current].current
                = State(t).current
          /\ NoState.current = FALSE
      BY <2>1 DEF AggState, NoState
    <2>3. kind = "added" =>
              State(t)' = IF State(t).out = 1
                          THEN [NoState EXCEPT !.current = State(t).current]
                          ELSE [State(t) EXCEPT !.out = @ - 1]
      BY <1>1, PutEffect DEF HandleAdded
    <2>4. kind = "removed" =>
              State(t)' \in {NoState, [State(t) EXCEPT !.out = @ - 1]}
      BY <1>1, PutEffect, RemoveEffect DEF HandleRemoved
    <2> QED
      BY <1>1, <2>2, <2>3, <2>4
  <1>7. Spoken(t)' /\ Calm(t)'
    BY <1>3, <1>5, <1>6 DEF Spoken, Calm
  <1>8. ASSUME kind = "added", State(t).out = 1,
               NEW C, C = Matching(t, held[t])
        PROVE  Kept(t, C)'
    <2>1. State(t)'.added = {} /\ State(t)'.removed = {}
      BY <1>6, <1>8 DEF NoState
    <2>2. Known(t)' = keys[t]
      BY <1>2, <2>1 DEF Known
    <2> QED
      BY <1>2, <1>3, <1>8, <2>2 DEF Kept
  <1>9. Flow(t)'
    BY <1>1, <1>2, <1>3, <1>4, <1>7, <1>8, FlowAfter DEF Ready
  <1> QED
    BY <1>7, <1>9

(* What the aggregator gathers is what the message makes of the documents. *)
LEMMA FlowGathered ==
    ASSUME TypeInv, NEW t \in Target, Ready(t), t \in listening, t = About,
           NEW kind \in {"current", "docs", "reset", "filter"},
           OnWatchStreamChange(kind),
           UNCHANGED <<up, held, keys, lastRemote, hurried>>,
           IF State(t).out = 0 THEN State(t)'.out = 0
           ELSE State(t)' = State(t),
           State(t).out = 0 =>
               \A A, C \in SUBSET Doc :
                   Kept(t, A) /\ Moves(history, t, A, Head(down), C)
                       => Kept(t, C)',
           kind = "current" \/ (State(t)'.current => State(t).current)
    PROVE  Flow(t)' /\ Calm(t)'
  <1>1. UNCHANGED <<since, history, serving>>
    BY DEF OnWatchStreamChange, serverVars
  <1>2. /\ (Hasty(t) => Hasty(t)') /\ (Asked(t) => Asked(t)')
        /\ Unasked(t) => Unasked(t)'
    BY <1>1 DEF Hasty, Asked, Unasked
  <1>3. Calm(t)'
    BY <1>2 DEF Calm, Ready
  <1>4. ASSUME Spoken(t),
               Hasty(t) \/ Punctual(down, t, serving[t].at, since[t], 0)
        PROVE  Spoken(t)'
    <2>1. CASE kind = "current"
      <3>1. /\ down \in Seq(SoundMessage) /\ down # << >>
            /\ Head(down).kind = "current" /\ Head(down).targets = {t}
            /\ down' = Tail(down)
        BY <2>1, MessageType DEF OnWatchStreamChange, TypeInv
      <3>2. /\ 1 \in DOMAIN down /\ Head(down) = down[1] /\ 0 < 1
            /\ 1 \in Nat /\ 1 <= 1 + 1
        BY <3>1, TailPlaces
      <3>3. Hasty(t) \/ LateFrom(down, serving[t].at, since[t], 1)
        BY <1>4, <3>1, <3>2 DEF Punctual
      <3>4. Hasty(t) \/ LateFrom(down', serving[t].at, since[t], 1)
        BY <3>1, <3>2, <3>3, TailKeeps
      <3> QED
        BY <1>1, <1>2, <3>4 DEF Spoken
    <2>2. CASE kind # "current"
      BY <1>2, <1>4, <2>2, SpokenStays
    <2> QED
      BY <2>1, <2>2
  <1>5. Flow(t)'
    <2>1. kind # "refused" /\ kind # "added"
      OBVIOUS
    <2> QED
      BY <1>2, <1>4, <2>1, FlowAfter DEF Ready
  <1> QED
    BY <1>3, <1>5

(* A handler that gives an active query the state s.                       *)
LEMMA StateGiven ==
    ASSUME NEW t, t = About, t \in listening, NEW s, IfActive(s)
    PROVE  /\ State(t).out = 0 => State(t)' = s
           /\ State(t).out # 0 => State(t)' = State(t)
           /\ UNCHANGED <<up, held, keys, lastRemote, hurried>>
  <1>1. IsActiveTarget(About) <=> State(t).out = 0
    BY DEF IsActiveTarget
  <1>2. State(t).out = 0 => states' = Put(t, s)
    BY <1>1 DEF IfActive
  <1>3. State(t).out # 0 => UNCHANGED states
    BY <1>1 DEF IfActive
  <1> QED
    BY <1>2, <1>3, PutEffect DEF State, IfActive, storeVars

LEMMA FlowHandled ==
    ASSUME TypeInv, StateSound, NEW t \in Target, Ready(t), t \in listening,
           t = About,
           \/ HandleCurrent \/ HandleDocumentChange \/ HandleReset
           \/ HandleExistenceFilter
    PROVE  Flow(t)' /\ Calm(t)'
  <1>0. /\ State(t) \in AggState /\ keys[t] \in SUBSET Doc
        /\ State(t).added \cap keys[t] = {}
        /\ State(t).removed \subseteq keys[t]
        /\ State(t).added \in SUBSET Doc
    BY GatherTypes DEF StateSound, AggState
  <1>1. \A v : UNCHANGED history => Matching(t, v)' = Matching(t, v)
    BY DEF Matching
  <1>2. CASE HandleCurrent
    <2> DEFINE s == [State(t) EXCEPT !.current = TRUE]
    <2>1. IfActive(s) /\ UNCHANGED <<resets, history>>
          /\ OnWatchStreamChange("current")
      BY <1>2 DEF HandleCurrent, OnWatchStreamChange, serverVars
    <2>2. s.out = State(t).out /\ s.added = State(t).added
          /\ s.removed = State(t).removed
      BY <1>0 DEF AggState
    <2> HIDE DEF s
    <2>3. /\ State(t).out = 0 => State(t)' = s
          /\ State(t).out # 0 => State(t)' = State(t)
          /\ UNCHANGED <<up, held, keys, lastRemote, hurried>>
      BY <2>1, StateGiven
    <2>4. State(t).out = 0 => Known(t)' = Known(t)
      BY <2>2, <2>3 DEF Known
    <2>5. \A A, C : Moves(history, t, A, Head(down), C) => C = A
      BY <2>1 DEF Moves, OnWatchStreamChange
    <2>6. State(t).out = 0 =>
              \A A, C \in SUBSET Doc :
                  Kept(t, A) /\ Moves(history, t, A, Head(down), C)
                      => Kept(t, C)'
      BY <1>1, <2>1, <2>3, <2>4, <2>5 DEF Kept
    <2> QED
      BY <2>1, <2>2, <2>3, <2>6, FlowGathered
  <1>3. CASE HandleDocumentChange
    <2> DEFINE m == Head(down)
               s == [State(t) EXCEPT
                       !.added = (@ \cup (m.add \ keys[t])) \ m.remove,
                       !.removed = (@ \ m.add) \cup (m.remove \cap keys[t])]
    <2>1. IfActive(s) /\ UNCHANGED <<resets, history>>
          /\ OnWatchStreamChange("docs") /\ m.kind = "docs" /\ m.targets = {t}
      BY <1>3, MessageType DEF HandleDocumentChange, OnWatchStreamChange,
         serverVars
    <2> HIDE DEF m
    <2>2. /\ s.out = State(t).out /\ s.current = State(t).current
          /\ s.added = (State(t).added \cup (m.add \ keys[t])) \ m.remove
          /\ s.removed = (State(t).removed \ m.add)
                             \cup (m.remove \cap keys[t])
      BY <1>0 DEF AggState
    <2> HIDE DEF s
    <2>3. /\ State(t).out = 0 => State(t)' = s
          /\ State(t).out # 0 => State(t)' = State(t)
          /\ UNCHANGED <<up, held, keys, lastRemote, hurried>>
      BY <2>1, StateGiven
    <2>4. m.add \cap m.remove = {} =>
              (keys[t] \ s.removed) \cup s.added
                  = (Known(t) \ m.remove) \cup m.add
      BY <1>0, <2>2 DEF Known
    <2>5. \A A, C : Moves(history, t, A, m, C) =>
              C = (A \ m.remove) \cup m.add /\ m.add \cap m.remove = {}
      BY <2>1 DEF Moves
    <2>6. State(t).out = 0 =>
              \A A, C \in SUBSET Doc :
                  Kept(t, A) /\ Moves(history, t, A, m, C) => Kept(t, C)'
      <3>1. SUFFICES ASSUME State(t).out = 0, NEW A, NEW C, Kept(t, A),
                            Moves(history, t, A, m, C),
                            (keys[t] = Matching(t, held[t]))', t \notin resets'
                     PROVE  Known(t)' = C
        BY DEF Kept
      <3>2. Known(t) = A
        BY <1>1, <2>1, <2>3, <3>1 DEF Kept
      <3>3. Known(t)' = (keys[t] \ s.removed) \cup s.added
        BY <2>3, <3>1 DEF Known
      <3> QED
        BY <2>4, <2>5, <3>1, <3>2, <3>3
    <2> QED
      BY <2>1, <2>2, <2>3, <2>6, FlowGathered DEF m
  <1>4. ResetState(t).out = 0 /\ ResetState(t).current = FALSE
        /\ ResetState(t).added = {} /\ ResetState(t).removed = keys[t]
    BY DEF ResetState, NoState
  <1>5. CASE HandleReset
    <2>1. IfActive(ResetState(t)) /\ UNCHANGED <<resets, history>>
          /\ OnWatchStreamChange("reset")
          /\ Head(down).kind = "reset" /\ Head(down).targets = {t}
      BY <1>5, MessageType DEF HandleReset, OnWatchStreamChange, serverVars
    <2>2. /\ State(t).out = 0 => State(t)' = ResetState(t)
          /\ State(t).out # 0 => State(t)' = State(t)
          /\ UNCHANGED <<up, held, keys, lastRemote, hurried>>
      BY <2>1, StateGiven
    <2>3. State(t).out = 0 => Known(t)' = {}
      BY <1>4, <2>2 DEF Known
    <2>4. \A A, C : Moves(history, t, A, Head(down), C) => C = {}
      BY <2>1 DEF Moves
    <2>5. State(t).out = 0 =>
              \A A, C \in SUBSET Doc :
                  Kept(t, A) /\ Moves(history, t, A, Head(down), C)
                      => Kept(t, C)'
      BY <2>3, <2>4 DEF Kept
    <2> QED
      BY <1>4, <2>1, <2>2, <2>5, FlowGathered
  <1>6. CASE HandleExistenceFilter
    <2>1. /\ OnWatchStreamChange("filter") /\ UNCHANGED history
          /\ Head(down).kind = "filter" /\ Head(down).targets = {t}
      BY <1>6, MessageType DEF HandleExistenceFilter, OnWatchStreamChange,
         serverVars
    <2>2. CASE DocumentCount(t) = Head(down).v
      <3>1. IfActive(State(t)) /\ UNCHANGED resets
        BY <1>6, <2>2 DEF HandleExistenceFilter
      <3>2. /\ State(t)' = State(t)
            /\ UNCHANGED <<up, held, keys, lastRemote, hurried>>
        BY <3>1, StateGiven
      <3>3. Cardinality(Known(t)) = DocumentCount(t)
        <4>1. IsFiniteSet(keys[t]) /\ IsFiniteSet(State(t).added)
          BY <1>0, WatchTargetsAssumption, FS_Subset
        <4>2. /\ IsFiniteSet(State(t).removed)
              /\ keys[t] \cap State(t).removed = State(t).removed
          BY <1>0, <4>1, FS_Subset
        <4>3. /\ IsFiniteSet(keys[t] \ State(t).removed)
              /\ Cardinality(keys[t] \ State(t).removed)
                    = Cardinality(keys[t])
                          - Cardinality(keys[t] \cap State(t).removed)
          BY <4>1, FS_Difference
        <4>4. (keys[t] \ State(t).removed) \cap State(t).added = {}
          BY <1>0
        <4>5. Cardinality(Known(t))
                  = Cardinality(keys[t] \ State(t).removed)
                        + Cardinality(State(t).added) - Cardinality({})
          BY <4>1, <4>3, <4>4, FS_Union DEF Known
        <4>6. /\ Cardinality({}) = 0 /\ Cardinality(keys[t]) \in Nat
              /\ Cardinality(State(t).added) \in Nat
              /\ Cardinality(State(t).removed) \in Nat
          BY <4>1, <4>2, FS_EmptySet, FS_CardinalityType
        <4>7. Cardinality(keys[t] \ State(t).removed)
                  = Cardinality(keys[t]) - Cardinality(State(t).removed)
          BY <4>2, <4>3
        <4> QED
          BY <4>5, <4>6, <4>7 DEF DocumentCount
      <3>4. \A C : Moves(history, t, Known(t), Head(down), C) => C = Known(t)
        BY <2>1, <2>2, <3>3 DEF Moves
      <3>5. Known(t)' = Known(t)
        BY <3>2 DEF Known
      <3>6. \A A, C \in SUBSET Doc :
                Kept(t, A) /\ Moves(history, t, A, Head(down), C)
                    => Kept(t, C)'
        BY <1>1, <2>1, <3>1, <3>2, <3>4, <3>5 DEF Kept
      <3> QED
        BY <2>1, <3>2, <3>6, FlowGathered
    <2>3. CASE DocumentCount(t) # Head(down).v
      <3>1. IfActive(ResetState(t)) /\ (State(t).out = 0 => t \in resets')
        BY <1>6, <2>3 DEF HandleExistenceFilter, IsActiveTarget
      <3>2. /\ State(t).out = 0 => State(t)' = ResetState(t)
            /\ State(t).out # 0 => State(t)' = State(t)
            /\ UNCHANGED <<up, held, keys, lastRemote, hurried>>
        BY <3>1, StateGiven
      <3>3. State(t).out = 0 =>
                \A A, C \in SUBSET Doc :
                    Kept(t, A) /\ Moves(history, t, A, Head(down), C)
                        => Kept(t, C)'
        BY <3>1 DEF Kept
      <3> QED
        BY <1>4, <2>1, <3>2, <3>3, FlowGathered
    <2> QED
      BY <2>2, <2>3
  <1> QED
    BY <1>2, <1>3, <1>5, <1>6

(* The handlers of a message about another query.                          *)
LEMMA FlowOther ==
    ASSUME TypeInv, NEW t \in Target, Ready(t), t # About,
           \/ HandleAdded \/ HandleRemoved \/ HandleCurrent
           \/ HandleDocumentChange \/ HandleReset \/ HandleExistenceFilter
           \/ ProcessTargetError
    PROVE  Flow(t)' /\ Calm(t)'
  <1>1. PICK kind \in {"added", "removed", "current", "docs", "reset",
                       "filter", "refused"} : OnWatchStreamChange(kind)
    BY DEF HandleAdded, HandleRemoved, HandleCurrent, HandleDocumentChange,
       HandleReset, HandleExistenceFilter, ProcessTargetError
  <1>2. /\ Head(down).kind = kind /\ Head(down).targets = {About}
    BY <1>1, MessageType
  <1>3. \A A, C : Moves(history, t, A, Head(down), C) => C = A
    BY <1>2 DEF Moves
  <1>4. /\ UNCHANGED <<up, held, keys, lastRemote, hurried>>
        /\ t \in resets' <=> t \in resets
    BY DEF HandleAdded, HandleRemoved, HandleCurrent, HandleDocumentChange,
       HandleReset, HandleExistenceFilter, ProcessTargetError, IfActive,
       storeVars
  <1>5. State(t)' = State(t)
    <2>1. \/ \E s : states' = Put(About, s)
          \/ states' = RemoveTarget(About)
          \/ UNCHANGED states
      BY DEF HandleAdded, HandleRemoved, HandleCurrent, HandleDocumentChange,
         HandleReset, HandleExistenceFilter, ProcessTargetError, IfActive
    <2>2. ASSUME NEW s, states' = Put(About, s)
          PROVE  State(t)' = State(t)
      BY <2>2, PutEffect
    <2>3. CASE states' = RemoveTarget(About)
      BY <2>3, RemoveEffect
    <2>4. CASE UNCHANGED states
      BY <2>4 DEF State
    <2> QED
      BY <2>1, <2>2, <2>3, <2>4
  <1>6. lastRemote \in Nat /\ since[t] \in Nat /\ lastRemote <= lastRemote'
        /\ lastRemote' \in Nat
    BY <1>4, GatherTypes
  <1> QED
    BY <1>1, <1>3, <1>4, <1>5, <1>6, FlowUntouched

LEMMA FlowIgnored ==
    ASSUME TypeInv, NEW t \in Target, Ready(t), IgnoreSnapshot
    PROVE  Flow(t)' /\ Calm(t)'
  <1>1. OnWatchStreamChange("snapshot") /\ Head(down).kind = "snapshot"
    BY DEF IgnoreSnapshot, OnWatchStreamChange
  <1>2. \A A, C : Moves(history, t, A, Head(down), C) => C = A
    BY <1>1 DEF Moves
  <1>3. UNCHANGED <<up, held, keys, lastRemote, hurried, resets, states>>
    BY DEF IgnoreSnapshot, storeVars, targetVars
  <1>4. lastRemote \in Nat /\ since[t] \in Nat /\ lastRemote <= lastRemote'
        /\ lastRemote' \in Nat
    BY <1>3, GatherTypes
  <1> QED
    BY <1>1, <1>2, <1>3, <1>4, FlowUntouched DEF State

-----------------------------------------------------------------------------
(* A snapshot.                                                             *)

\* What the aggregator hands over, and to whom.
Active == {t \in DOMAIN states : IsActiveTarget(t)}

LEMMA RaisedState ==
    ASSUME TypeInv, NEW t \in Target, RaiseWatchSnapshot
    PROVE  /\ State(t)'.current = State(t).current
           /\ State(t)'.added = IF t \in Active THEN {} ELSE State(t).added
           /\ State(t)'.removed = IF t \in Active THEN {}
                                  ELSE State(t).removed
           /\ t \in DOMAIN states =>
                  State(t)'.out = State(t).out
                      + (IF t \in resets \cap listening THEN 2 ELSE 0)
  <1> DEFINE again == resets \cap listening
             st == IF t \in Active
                   THEN [states[t] EXCEPT !.added = {}, !.removed = {}]
                   ELSE states[t]
  <1>1. DOMAIN states' = DOMAIN states
    BY DEF RaiseWatchSnapshot
  <1>2. CASE t \in DOMAIN states
    <2>1. states'[t] = IF t \in again THEN [st EXCEPT !.out = @ + 2] ELSE st
      BY <1>2 DEF RaiseWatchSnapshot, Active
    <2>2. states[t] \in AggState /\ State(t) = states[t]
          /\ State(t)' = states'[t]
      BY <1>1, <1>2, TypedTargets DEF State
    <2>3. /\ st \in AggState /\ st.out = states[t].out
          /\ st.current = states[t].current
          /\ st.added = IF t \in Active THEN {} ELSE states[t].added
          /\ st.removed = IF t \in Active THEN {} ELSE states[t].removed
      BY <2>2 DEF AggState
    <2> HIDE DEF st
    <2>4. /\ [st EXCEPT !.out = @ + 2].out = st.out + 2
          /\ [st EXCEPT !.out = @ + 2].current = st.current
          /\ [st EXCEPT !.out = @ + 2].added = st.added
          /\ [st EXCEPT !.out = @ + 2].removed = st.removed
          /\ st.out + 0 = st.out
      BY <2>3 DEF AggState
    <2> HIDE DEF again
    <2>5. CASE t \in again
      BY <2>1, <2>2, <2>3, <2>4, <2>5 DEF again
    <2>6. CASE t \notin again
      BY <2>1, <2>2, <2>3, <2>4, <2>6 DEF again
    <2> QED
      BY <2>5, <2>6
  <1>3. CASE t \notin DOMAIN states
    <2>1. State(t) = NoState /\ State(t)' = NoState /\ t \notin Active
      BY <1>1, <1>3 DEF State, Active
    <2> QED
      BY <1>3, <2>1 DEF NoState
  <1> QED
    BY <1>2, <1>3

(* The snapshot that reaches an active query finds what matched at its     *)
(* version, and the query up to date if it is said to be.                  *)
LEMMA SnapshotFits ==
    ASSUME TypeInv, NEW t \in Target, Ready(t), State(t).out = 0,
           OnWatchStreamChange("snapshot")
    PROVE  LET v == Head(down).v
           IN /\ Kept(t, Matching(t, v))
              /\ Hasty(t) \/ ~State(t).current \/ since[t] <= v
  <1>1. /\ down \in Seq(SoundMessage) /\ down # << >>
        /\ Head(down).kind = "snapshot" /\ Head(down).v \in 1 .. Now
    BY MessageType DEF TypeInv, OnWatchStreamChange
  <1>2. DOMAIN down = 1 .. Len(down) /\ Len(down) \in Nat \ {0}
        /\ Head(down) = down[1] /\ 1 \in DOMAIN down
    BY <1>1, TailPlaces
  <1>3. \A kind \in Answers : Message(kind, {t}) \in AnswersTo(t)
    BY RequestsMade
  <1>4. ~Asked(t)
    BY DueFacts DEF Ready
  <1>5. ~Refused(t)
    <2>1. ASSUME Refused(t)
          PROVE  FALSE
      <3>1. PICK i \in DOMAIN down : down[i] = Message("refused", {t})
        BY <2>1 DEF Refused, Ends
      <3>2. down[i] \in AnswersTo(t)
        BY <1>3, <3>1 DEF Answers
      <3> QED
        BY <3>2, DueFacts DEF Ready
    <2> QED
      BY <2>1
  <1>6. PICK k \in 0 .. Len(down), A \in SUBSET Doc : FlowsFrom(t, k, A)
    BY <1>4, <1>5 DEF Ready, Flow, Flows
  <1>7. k = 0
    <2>1. ASSUME k # 0
          PROVE  FALSE
      <3>1. k \in DOMAIN down /\ down[k] = Message("added", {t})
        BY <1>2, <1>6, <2>1 DEF FlowsFrom
      <3>2. down[k] \in AnswersTo(t)
        BY <1>3, <3>1 DEF Answers
      <3> QED
        BY <3>1, <3>2, DueFacts DEF Ready
    <2> QED
      BY <2>1
  <1>8. Kept(t, A) /\ Spoken(t)
        /\ Leads(history, t, down, 0, A, Matching(t, serving[t].at))
    BY <1>6, <1>7 DEF FlowsFrom
  <1>9. A = Matching(t, Head(down).v)
    <2>1. PICK C : Moves(history, t, A, Head(down), C)
      BY <1>1, <1>8, LeadsHead
    <2> QED
      BY <1>1, <2>1 DEF Moves, Matching
  <1>10. State(t).current => Hasty(t) \/ since[t] <= Head(down).v
    BY <1>1, <1>2, <1>8 DEF Spoken, LateFrom
  <1> QED
    BY <1>8, <1>9, <1>10

(* What a snapshot does to one query.                                      *)
LEMMA RaisedQuery ==
    ASSUME TypeInv, NEW t \in Target, RaiseWatchSnapshot
    PROVE  LET v == Head(down).v
               again == resets \cap listening
           IN /\ OnWatchStreamChange("snapshot") /\ v \in 1 .. Now
              /\ lastRemote <= v /\ lastRemote' = v
              /\ keys'[t] = IF t \in Active THEN Known(t) ELSE keys[t]
              /\ token'[t] = IF t \in Active THEN v ELSE token[t]
              /\ current'[t] = IF t \in Active THEN State(t).current
                               ELSE current[t]
              /\ held'[t] = IF t \in again THEN 0
                            ELSE IF t \in Active THEN v ELSE held[t]
              /\ up' = up \o AskedAgain /\ resets' = {}
              /\ UNCHANGED <<listening, miscounted, since, history, serving>>
              /\ hurried \subseteq hurried'
              /\ t \in Active /\ t \in miscounted =>
                    t \in hurried' /\ t \in torn'
              /\ t \in again => t \in torn'
              /\ t \in torn /\ t \notin torn' =>
                    t \in Active /\ held[t] = 0 /\ keys[t] = {}
  <1>1. OnWatchStreamChange("snapshot") /\ Head(down).v \in 1 .. Now
    BY MessageType DEF RaiseWatchSnapshot
  <1>2. t \in Active => State(t) = states[t]
    BY DEF Active, State
  <1>3. /\ lastRemote <= Head(down).v /\ lastRemote' = Head(down).v
    <2>1. lastRemote \in Nat /\ Head(down).v >= lastRemote
      BY GatherTypes DEF RaiseWatchSnapshot
    <2> QED
      BY <1>1, <2>1 DEF RaiseWatchSnapshot
  <1>4. /\ keys'[t] = IF t \in Active THEN Known(t) ELSE keys[t]
        /\ current'[t] = IF t \in Active THEN State(t).current
                         ELSE current[t]
    BY <1>2 DEF RaiseWatchSnapshot, Active, Known
  <1>5. /\ token'[t] = IF t \in Active THEN Head(down).v ELSE token[t]
        /\ held'[t] = IF t \in resets \cap listening THEN 0
                      ELSE IF t \in Active THEN Head(down).v ELSE held[t]
    BY DEF RaiseWatchSnapshot, Active
  <1>6. /\ up' = up \o AskedAgain /\ resets' = {}
        /\ UNCHANGED <<listening, miscounted, since, history, serving>>
    BY DEF RaiseWatchSnapshot, AskedAgain, OnWatchStreamChange, serverVars
  <1>7. /\ hurried \subseteq hurried'
        /\ t \in Active /\ t \in miscounted => t \in hurried' /\ t \in torn'
        /\ t \in resets \cap listening => t \in torn'
        /\ t \in torn /\ t \notin torn' =>
              t \in Active /\ held[t] = 0 /\ keys[t] = {}
    BY DEF RaiseWatchSnapshot, Active
  <1> QED
    BY <1>1, <1>3, <1>4, <1>5, <1>6, <1>7

(* A query that is asked for again is asked for from zero, in the end.     *)
LEMMA AskedAgainEnds ==
    ASSUME TypeInv, NEW t \in Target
    PROVE  IF t \in resets \cap listening
           THEN Ends(AskedAgain, RequestsOf(t), Watch(t, 0))
           ELSE NoneAfter(AskedAgain, RequestsOf(t), 0)
  <1> DEFINE again == resets \cap listening
             n == Cardinality(again)
             e == SetToSeq(again)
             half(i) == (i + 1) \div 2
  <1>1. again \in SUBSET Target /\ 0 \in 0 .. Now
    <2>1. resets \subseteq Target
      BY DEF TypeInv, TypeOK
    <2> QED
      BY <2>1, NowType
  <1>2. /\ n \in Nat /\ \A i \in 1 .. n : e[i] \in again
        /\ \A i, j \in 1 .. n : e[i] = e[j] => i = j
        /\ \A x \in again : \E i \in 1 .. n : e[i] = x
    BY <1>1, FiniteTargets, SetAsSequence
  <1>3. /\ DOMAIN AskedAgain = 1 .. 2 * n
        /\ \A i \in 1 .. 2 * n : AskedAgain[i] =
              IF i % 2 = 1 THEN Unwatch(e[half(i)]) ELSE Watch(e[half(i)], 0)
    BY DEF AskedAgain
  <1>4. \A x \in Target : /\ Unwatch(x) \in RequestsOf(t) => x = t
                          /\ Watch(x, 0) \in RequestsOf(t) => x = t
    BY <1>1, RequestsMade
  <1> HIDE DEF n, e
  <1>5. ASSUME NEW i \in DOMAIN AskedAgain, AskedAgain[i] \in RequestsOf(t)
        PROVE  half(i) \in 1 .. n /\ e[half(i)] = t /\ t \in again
    <2>1. half(i) \in 1 .. n /\ i \in 1 .. 2 * n
      BY <1>2, <1>3, Halves
    <2>2. PICK x : x = e[half(i)]
      OBVIOUS
    <2>3. x \in Target /\ x \in again
      BY <1>1, <1>2, <2>1, <2>2
    <2>4. AskedAgain[i] \in {Unwatch(x), Watch(x, 0)}
      <3> HIDE DEF half
      <3> QED
        BY <1>3, <2>1, <2>2
    <2> HIDE DEF half, again
    <2>5. x = t
      BY <1>4, <1>5, <2>3, <2>4
    <2> QED
      BY <2>1, <2>2, <2>3, <2>5
  <1>6. CASE t \notin again
    BY <1>5, <1>6 DEF NoneAfter
  <1>7. CASE t \in again
    <2>1. PICK p \in 1 .. n : e[p] = t
      BY <1>2, <1>7
    <2>2. /\ 2 * p \in 1 .. 2 * n /\ (2 * p) % 2 # 1 /\ half(2 * p) = p
      BY <1>2, <2>1
    <2>3. AskedAgain[2 * p] = Watch(t, 0) /\ 2 * p \in DOMAIN AskedAgain
      <3> HIDE DEF half
      <3> QED
        BY <1>3, <2>1, <2>2
    <2>4. ASSUME NEW j \in DOMAIN AskedAgain, 2 * p < j,
                 AskedAgain[j] \in RequestsOf(t)
          PROVE  FALSE
      <3>1. half(j) = p
        BY <1>2, <1>5, <2>1, <2>4
      <3>2. j \in 1 .. 2 * n
        BY <1>3
      <3>3. j = 2 * half(j) - 1 \/ j = 2 * half(j)
        BY <1>2, <3>2, Halves
      <3> HIDE DEF half
      <3> QED
        BY <2>1, <2>4, <3>1, <3>2, <3>3
    <2> QED
      BY <1>7, <2>3, <2>4 DEF Ends, NoneAfter
  <1> QED
    BY <1>6, <1>7

LEMMA FlowRaised ==
    ASSUME TypeInv, NEW t \in Target, Ready(t), t \in listening,
           RaiseWatchSnapshot
    PROVE  Flow(t)' /\ Calm(t)'
  <1> DEFINE v == Head(down).v
             again == resets \cap listening
  <1>1. /\ OnWatchStreamChange("snapshot") /\ v \in 1 .. Now
        /\ lastRemote <= v /\ lastRemote' = v
        /\ keys'[t] = IF t \in Active THEN Known(t) ELSE keys[t]
        /\ held'[t] = IF t \in again THEN 0
                      ELSE IF t \in Active THEN v ELSE held[t]
        /\ up' = up \o AskedAgain /\ resets' = {}
        /\ UNCHANGED <<since, history, serving>> /\ hurried \subseteq hurried'
    BY RaisedQuery
  <1>2. t \in DOMAIN states
    BY DEF Ready, Lasts
  <1>3. /\ State(t)'.current = State(t).current
        /\ State(t)'.added = IF t \in Active THEN {} ELSE State(t).added
        /\ State(t)'.removed = IF t \in Active THEN {} ELSE State(t).removed
        /\ State(t)'.out = State(t).out + (IF t \in again THEN 2 ELSE 0)
    BY <1>2, RaisedState
  <1>4. Head(down).kind = "snapshot"
    BY <1>1 DEF OnWatchStreamChange
  <1>5. /\ lastRemote \in Nat /\ since[t] \in Nat /\ v \in Nat
        /\ State(t).out \in Int
    BY <1>1, NowType, GatherTypes DEF AggState
  <1> HIDE DEF v
  <1>6. Hasty(t) => Hasty(t)'
    BY <1>1, <1>5 DEF Hasty
  <1>7. t \in Active <=> State(t).out = 0
    BY <1>2 DEF Active, IsActiveTarget
  <1>8. /\ up \in Seq(AnyRequest) /\ AskedAgain \in Seq(AnyRequest)
    <2>1. Request \subseteq AnyRequest
      BY NowType DEF Request, AnyRequest
    <2> QED
      BY <2>1, AskedAgainTyped, SeqMonotonic, CountTypes
  <1>9. CASE t \in again
    <2>1. Ends(AskedAgain, RequestsOf(t), Watch(t, 0))
      BY <1>9, AskedAgainEnds
    <2>2. Ends(up', RequestsOf(t), Watch(t, held'[t]))
      BY <1>1, <1>8, <1>9, <2>1, ConcatKeeps
    <2>3. Flow(t)'
      BY <2>2 DEF Flow, Asked
    <2>4. ASSUME State(t).current, ~Hasty(t)
          PROVE  Hasty(t)'
      <3>1. State(t).out = 0
        BY <2>4 DEF Ready, Calm
      <3>2. since[t] <= v
        BY <1>1, <2>4, <3>1, SnapshotFits DEF v
      <3> QED
        BY <1>1, <3>2 DEF Hasty
    <2> QED
      BY <1>3, <1>6, <2>3, <2>4 DEF Calm
  <1>10. CASE t \notin again
    <2>1. NoneAfter(AskedAgain, RequestsOf(t), 0)
      BY <1>10, AskedAgainEnds
    <2>2. /\ Asked(t) /\ held'[t] = held[t] => Asked(t)'
          /\ Unasked(t) => Unasked(t)'
      BY <1>1, <1>8, <2>1, ConcatKeeps DEF Asked, Unasked
    <2>3. State(t).out # 0 => held'[t] = held[t]
      BY <1>1, <1>7, <1>10
    <2>4. ASSUME State(t).out = 0, NEW A, NEW C,
                 Moves(history, t, A, Head(down), C)
          PROVE  Kept(t, C)'
      <3>1. C = Matching(t, v)
        BY <1>1, <1>4, <2>4 DEF Moves, Matching, v
      <3>2. Matching(t, held[t])' = Matching(t, v)
        BY <1>1, <1>7, <1>10, <2>4 DEF Matching
      <3>3. Known(t)' = keys'[t]
        BY <1>3, <1>7, <2>4 DEF Known
      <3> QED
        BY <3>1, <3>2, <3>3 DEF Kept
    <2>5. Spoken(t) => Spoken(t)'
      BY <1>1, <1>3, <1>6, SpokenStays
    <2>6. \A A, C \in SUBSET Doc :
            /\ State(t).out = 0 /\ Kept(t, A) /\ Spoken(t)
            /\ Hasty(t) \/ Punctual(down, t, serving[t].at, since[t], 0)
            /\ Moves(history, t, A, Head(down), C)
            => Kept(t, C)' /\ Spoken(t)'
      BY <2>4, <2>5
    <2>7. Flow(t)'
      BY <1>1, <1>6, <2>2, <2>3, <2>6, FlowAfter DEF Ready
    <2>8. Calm(t)'
      BY <1>3, <1>5, <1>6, <1>10 DEF Ready, Calm
    <2> QED
      BY <2>7, <2>8
  <1> QED
    BY <1>9, <1>10

-----------------------------------------------------------------------------
(* The steps that take no message.                                         *)

LEMMA FlowStays ==
    ASSUME NEW t, Flow(t), Calm(t),
           UNCHANGED <<down, history, serving, lastRemote, resets, keys>>,
           held'[t] = held[t], since'[t] = since[t],
           t \in hurried' <=> t \in hurried, State(t)' = State(t),
           Asked(t) => Asked(t)', Unasked(t) => Unasked(t)'
    PROVE  Flow(t)' /\ Calm(t)'
  <1>1. Hasty(t)' <=> Hasty(t)
    BY DEF Hasty
  <1>2. \A v : Matching(t, v)' = Matching(t, v)
    BY DEF Matching
  <1>3. (\A C : Kept(t, C)' <=> Kept(t, C)) /\ (Spoken(t)' <=> Spoken(t))
    BY <1>1, <1>2 DEF Kept, Spoken, Known
  <1>4. \A k, A : FlowsFrom(t, k, A) => FlowsFrom(t, k, A)'
    BY <1>1, <1>2, <1>3 DEF FlowsFrom
  <1>5. (Flows(t) => Flows(t)') /\ (Refused(t) => Refused(t)')
    BY <1>4 DEF Flows, Refused
  <1> QED
    BY <1>1, <1>5 DEF Flow, Calm

LEMMA FlowRequested ==
    ASSUME TypeInv, NEW t \in Target, Flow(t), Calm(t),
           NEW r \in AnyRequest, r.target # t, up' = Append(up, r),
           UNCHANGED <<down, history, serving, lastRemote, resets, keys>>,
           held'[t] = held[t], since'[t] = since[t],
           t \in hurried' <=> t \in hurried, State(t)' = State(t)
    PROVE  Flow(t)' /\ Calm(t)'
  <1>1. up \in Seq(AnyRequest) /\ r \notin RequestsOf(t)
    BY CountTypes DEF RequestsOf
  <1>2. <<r>> \in Seq(AnyRequest) /\ up' = up \o <<r>>
        /\ NoneAfter(<<r>>, RequestsOf(t), 0)
    BY <1>1, OneAppended
  <1>3. (Asked(t) => Asked(t)') /\ (Unasked(t) => Unasked(t)')
    BY <1>1, <1>2, ConcatKeeps DEF Asked, Unasked
  <1> QED
    BY <1>3, FlowStays

LEMMA FlowListen ==
    ASSUME TypeInv, IsOpen(stream), NEW t \in Target, NEW u \in Target,
           Listen(u), t # u => Flow(t) /\ Calm(t)
    PROVE  Flow(t)' /\ Calm(t)'
  <1> DEFINE r == Watch(u, token[u])
  <1>1. /\ up' = Append(up, r) /\ states' = RecordRequest(u)
        /\ held' = [held EXCEPT ![u] = token[u]]
        /\ since' = [since EXCEPT ![u] = Now]
        /\ hurried' = IF State(u).current THEN hurried \cup {u}
                      ELSE hurried \ {u}
        /\ UNCHANGED <<down, history, serving, lastRemote, resets, keys>>
    BY DEF Listen, IsStarted, IsOpen, serverVars, storeVars
  <1>2. r \in AnyRequest /\ r.target = u /\ r \in RequestsOf(u)
    BY GatherTypes, RequestsMade DEF Watch
  <1>3. /\ held \in [Target -> 0 .. Now] /\ since \in [Target -> 0 .. Now]
        /\ up \in Seq(AnyRequest) /\ State(u) \in AggState
    BY GatherTypes, CountTypes DEF TypeInv, TypeOK
  <1>4. /\ State(u)' = [State(u) EXCEPT !.out = @ + 1]
        /\ t # u => State(t)' = State(t)
    BY <1>1, PutEffect DEF RecordRequest
  <1>5. CASE t = u
    <2>1. held'[t] = token[t] /\ r = Watch(t, held'[t])
      BY <1>1, <1>3, <1>5
    <2> HIDE DEF r
    <2>2. Ends(up', RequestsOf(t), r)
      <3>1. /\ <<r>> \in Seq(AnyRequest) /\ up' = up \o <<r>>
            /\ Ends(<<r>>, RequestsOf(t), r)
        BY <1>1, <1>2, <1>3, OneAppended
      <3> QED
        BY <1>3, <3>1, ConcatKeeps
    <2>3. Asked(t)'
      BY <2>1, <2>2 DEF Asked
    <2>4. State(t)'.current = State(t).current
      BY <1>3, <1>4, <1>5 DEF AggState
    <2>5. State(t).current => t \in hurried'
      BY <1>1, <1>5
    <2> QED
      BY <2>3, <2>4, <2>5 DEF Flow, Calm, Hasty
  <1>6. CASE t # u
    <2> HIDE DEF r
    <2>1. /\ held'[t] = held[t] /\ since'[t] = since[t]
          /\ t \in hurried' <=> t \in hurried
      BY <1>1, <1>3, <1>6
    <2> QED
      BY <1>1, <1>2, <1>4, <1>6, <2>1, FlowRequested
  <1> QED
    BY <1>5, <1>6

LEMMA FlowStop ==
    ASSUME TypeInv, IsOpen(stream), NEW t \in Target, Flow(t), Calm(t),
           NEW u \in Target, t # u, StopListening(u)
    PROVE  Flow(t)' /\ Calm(t)'
  <1> DEFINE r == Unwatch(u)
  <1>1. /\ up' = Append(up, r) /\ states' = RecordRequest(u)
        /\ UNCHANGED <<down, history, serving, lastRemote, resets, keys,
                       held, since, hurried>>
    BY DEF StopListening, serverVars, storeVars, pastVars
  <1>2. r \in AnyRequest /\ r.target = u
    BY RequestsMade DEF Unwatch
  <1> HIDE DEF r
  <1>3. State(t)' = State(t)
    BY <1>1, PutEffect DEF RecordRequest
  <1> QED
    BY <1>1, <1>2, <1>3, FlowRequested

LEMMA FlowResume ==
    ASSUME TypeInv, NEW t \in Target, t \in listening,
           ResumeStartWithCredentials
    PROVE  Flow(t)' /\ Calm(t)'
  <1> DEFINE n == Cardinality(listening)
             e == SetToSeq(listening)
  <1>1. /\ up' = Restored /\ UNCHANGED held
        /\ states' = [x \in listening |-> [NoState EXCEPT !.out = 1]]
    BY DEF ResumeStartWithCredentials
  <1>2. listening \in SUBSET Target
    BY GatherTypes
  <1>3. /\ n \in Nat /\ \A i \in 1 .. n : e[i] \in listening
        /\ \A i, j \in 1 .. n : e[i] = e[j] => i = j
        /\ \A x \in listening : \E i \in 1 .. n : e[i] = x
    BY <1>2, FiniteTargets, SetAsSequence
  <1>4. /\ DOMAIN Restored = 1 .. n
        /\ \A i \in 1 .. n : Restored[i] = Watch(e[i], held[e[i]])
    BY RestoredTyped
  <1> HIDE DEF n, e
  <1>5. PICK p \in 1 .. n : e[p] = t
    BY <1>3
  <1>6. ASSUME NEW j \in 1 .. n, p < j
        PROVE  Restored[j] \notin RequestsOf(t)
    <2>1. e[j] \in Target /\ held[e[j]] \in 0 .. Now /\ e[j] # t
      BY <1>2, <1>3, <1>5, <1>6, GatherTypes
    <2> QED
      BY <1>4, <2>1, RequestsMade
  <1>7. Ends(Restored, RequestsOf(t), Watch(t, held[t]))
    BY <1>4, <1>5, <1>6 DEF Ends, NoneAfter
  <1>8. State(t)'.current = FALSE
    BY <1>1 DEF State, NoState
  <1> QED
    BY <1>1, <1>7, <1>8 DEF Flow, Asked, Calm

(* The server sends more: what it sends leads on to the version that it    *)
(* has brought the query to.                                               *)
LEMMA FlowsOn ==
    ASSUME TypeInv, NEW t \in Target, NEW x \in Seq(SoundMessage),
           down' = down \o x, Flows(t),
           UNCHANGED <<history, lastRemote, resets, keys, held, since,
                       hurried, states>>,
           NoneAfter(x, AnswersTo(t), 0), serving[t].on => serving'[t].on,
           serving[t].on => Leads(history, t, x, 0,
                                  Matching(t, serving[t].at),
                                  Matching(t, serving'[t].at)),
           serving[t].on /\ (since[t] <= serving[t].at
               \/ \E i \in DOMAIN x : x[i].kind = "current") =>
               /\ since[t] <= serving'[t].at
               /\ \A i \in DOMAIN x :
                     x[i].kind = "snapshot" => since[t] <= x[i].v
    PROVE  Flows(t)'
  <1>1. PICK k \in 0 .. Len(down), A \in SUBSET Doc : FlowsFrom(t, k, A)
    BY DEF Flows
  <1>2. /\ down \in Seq(SoundMessage) /\ Len(down) \in Nat
        /\ DOMAIN down = 1 .. Len(down)
    BY LenProperties DEF TypeInv
  <1>3. /\ Len(down') = Len(down) + Len(x) /\ Len(x) \in Nat
        /\ \A i \in DOMAIN down : down'[i] = down[i] /\ i \in DOMAIN down'
    BY <1>2, ConcatPlaces
  <1>4. /\ Hasty(t)' <=> Hasty(t)
        /\ \A v : Matching(t, v)' = Matching(t, v)
        /\ State(t)' = State(t)
    BY DEF Hasty, Matching, State
  <1>5. \A C : Kept(t, C) => Kept(t, C)'
    BY <1>4 DEF Kept, Known
  <1>6. /\ serving[t].on /\ NoneAfter(down, AnswersTo(t), k)
        /\ Leads(history, t, down, k, A, Matching(t, serving[t].at))
        /\ Hasty(t) \/ Punctual(down, t, serving[t].at, since[t], k)
    BY <1>1 DEF FlowsFrom
  <1>7. /\ Punctual(down, t, serving[t].at, since[t], k) =>
              Punctual(down', t, serving'[t].at, since[t], k)
        /\ \A i : LateFrom(down, serving[t].at, since[t], i) =>
                     LateFrom(down', serving'[t].at, since[t], i)
    BY <1>2, <1>6, LateOn
  <1>8. NoneAfter(down', AnswersTo(t), k)
    BY <1>2, <1>6, ConcatKeeps
  <1>9. Leads(history, t, down', k, A, Matching(t, serving'[t].at))
    BY <1>2, <1>6, LeadsOn
  <1>10. Spoken(t) => Spoken(t)'
    BY <1>4, <1>7 DEF Spoken
  <1>11. k # 0 => k \in DOMAIN down
    BY <1>2
  <1>12. FlowsFrom(t, k, A)'
    BY <1>1, <1>3, <1>4, <1>5, <1>6, <1>7, <1>8, <1>9, <1>10, <1>11
       DEF FlowsFrom
  <1>13. k \in 0 .. Len(down')
    BY <1>2, <1>3
  <1> QED
    BY <1>12, <1>13 DEF Flows

LEMMA FlowTaken ==
    ASSUME TypeInv, NEW t \in Target, Ready(t), ServerTakes
    PROVE  Flow(t)' /\ Calm(t)'
  <1> DEFINE r == Head(up)
             u == r.target
  <1>1. /\ up # << >> /\ up' = Tail(up) /\ up \in Seq(AnyRequest)
        /\ down \in Seq(SoundMessage) /\ down \in Seq(AnyMessage)
        /\ UNCHANGED <<history, lastRemote, resets, keys, held, since,
                       hurried, states, listening>>
    BY CountTypes DEF ServerTakes, TypeInv, targetVars, pastVars, storeVars
  <1>2. r \in AnyRequest /\ Tail(up) \in Seq(AnyRequest)
    BY <1>1, HeadTailProperties
  <1>3. u \in Target /\ (r \in RequestsOf(t) <=> t = u)
    BY <1>2 DEF AnyRequest, RequestsOf
  <1>4. PICK kind \in Answers :
            /\ down' = Append(down, Message(kind, {u}))
            /\ \/ /\ kind = "refused" /\ serving' = serving
               \/ /\ kind = IF r.kind = "watch" THEN "added" ELSE "removed"
                  /\ serving' = [serving EXCEPT ![u] =
                        [on |-> r.kind = "watch", at |-> r.v,
                         caught |-> FALSE]]
    BY DEF ServerTakes, Answers
  <1> DEFINE m == Message(kind, {u})
             x == <<m>>
  <1>5. /\ m \in AnyMessage /\ (m \in AnswersTo(t) <=> t = u)
        /\ m \in SoundMessage
        /\ m.kind = kind /\ m.targets = {u}
        /\ m.kind # "snapshot" /\ m.kind # "current"
    <2>1. m \in AnyMessage /\ (m \in AnswersTo(t) <=> t = u)
      BY <1>3, RequestsMade
    <2>2. m.kind = kind /\ m.targets = {u}
      BY DEF Message
    <2> HIDE DEF m, u
    <2> QED
      BY <1>3, <2>1, <2>2 DEF SoundMessage, Answers
  <1>60. down' = Append(down, m)
    BY <1>4
  <1> HIDE DEF r, u, m
  <1>6. /\ x \in Seq(SoundMessage) /\ down' = down \o x
        /\ \A S : m \notin S => NoneAfter(x, S, 0)
        /\ \A S : Ends(x, S, m)
        /\ DOMAIN x = {1} /\ x[1] = m
    <2>1. down \in Seq(SoundMessage) /\ m \in SoundMessage
      BY <1>1, <1>5
    <2>2. ASSUME NEW S
          PROVE  /\ <<m>> \in Seq(SoundMessage)
                 /\ Append(down, m) = down \o <<m>>
                 /\ m \notin S => NoneAfter(<<m>>, S, 0)
                 /\ Ends(<<m>>, S, m)
                 /\ DOMAIN <<m>> = {1} /\ <<m>>[1] = m
      BY <2>1, OneAppended
    <2>3. /\ <<m>> \in Seq(SoundMessage)
          /\ Append(down, m) = down \o <<m>>
          /\ DOMAIN <<m>> = {1} /\ <<m>>[1] = m
      BY <2>2
    <2>4. \A S : /\ m \notin S => NoneAfter(<<m>>, S, 0)
                 /\ Ends(<<m>>, S, m)
      BY <2>2
    <2>5. x = <<m>>
      OBVIOUS
    <2> HIDE DEF x
    <2>6. /\ x \in Seq(SoundMessage) /\ down' = down \o x
          /\ DOMAIN x = {1} /\ x[1] = m
      BY <1>60, <2>3, <2>5
    <2>7. \A S : /\ m \notin S => NoneAfter(x, S, 0)
                 /\ Ends(x, S, m)
      BY <2>4, <2>5
    <2> QED
      BY <2>6, <2>7
  <1> HIDE DEF x
  <1>7. /\ State(t)' = State(t) /\ (Hasty(t)' <=> Hasty(t))
        /\ \A v : Matching(t, v)' = Matching(t, v)
    BY <1>1 DEF State, Hasty, Matching
  <1>8. Calm(t)'
    BY <1>7 DEF Calm, Ready
  <1>9. CASE t = u
    <2>1. 1 \in DOMAIN up /\ up[1] = r /\ 0 < 1
      BY <1>1, TailPlaces DEF r
    <2>2. ~Unasked(t)
      BY <1>3, <1>9, <2>1 DEF Unasked, NoneAfter
    <2>3. Ends(up, RequestsOf(t), Watch(t, held[t]))
      BY <2>2 DEF Ready, Flow, Asked
    <2>4. \/ Ends(up', RequestsOf(t), Watch(t, held[t]))
          \/ /\ r = Watch(t, held[t])
             /\ NoneAfter(up', RequestsOf(t), 0)
      BY <1>1, <2>3, EndsTail DEF r
    <2>5. CASE Ends(up', RequestsOf(t), Watch(t, held[t]))
      BY <1>1, <1>8, <2>5 DEF Flow, Asked
    <2>6. CASE r = Watch(t, held[t]) /\ NoneAfter(up', RequestsOf(t), 0)
      <3>1. r.kind = "watch" /\ r.v = held[t] /\ Unasked(t)'
        BY <2>6 DEF Watch, Unasked
      <3>2. CASE kind = "refused"
        <4>1. m = Message("refused", {t})
          BY <1>9, <3>2 DEF m
        <4>2. Ends(down', AnswersTo(t), m)
          <5>1. Ends(x, AnswersTo(t), m)
            BY <1>6
          <5> QED
            BY <1>1, <1>6, <5>1, ConcatKeeps
        <4>3. Refused(t)'
          BY <4>1, <4>2 DEF Refused
        <4> QED
          BY <1>8, <3>1, <4>3 DEF Flow
      <3>3. CASE kind # "refused"
        <4>0. PICK k, A : k = Len(down') /\ A = Matching(t, held[t])
          OBVIOUS
        <4>1. /\ serving' = [serving EXCEPT ![t] =
                    [on |-> TRUE, at |-> held[t], caught |-> FALSE]]
              /\ m = Message("added", {t})
          BY <1>4, <1>9, <3>1, <3>3 DEF m
        <4>2. serving'[t].on /\ serving'[t].at = held[t]
          <5>1. DOMAIN serving = Target
            BY DEF TypeInv, TypeOK
          <5> QED
            BY <4>1, <5>1
        <4>3. /\ k \in Nat \ {0} /\ down' \in Seq(SoundMessage)
              /\ DOMAIN down' = 1 .. k /\ down'[k] = m
          <5>1. DOMAIN x = 1 .. Len(x) /\ Len(x) \in Nat
            BY <1>6, LenProperties
          <5>2. Len(x) = 1
            <6>1. 1 \in 1 .. Len(x) /\ \A i \in 1 .. Len(x) : i = 1
              BY <1>6, <5>1
            <6>2. Len(x) \in 1 .. Len(x)
              BY <5>1, <6>1
            <6> QED
              BY <6>1, <6>2
          <5>3. /\ Len(down') = Len(down) + Len(x) /\ Len(down) \in Nat
                /\ down' \in Seq(SoundMessage)
                /\ DOMAIN down' = 1 .. Len(down) + Len(x)
            <6>1. /\ Len(down \o x) = Len(down) + Len(x) /\ Len(down) \in Nat
                  /\ down \o x \in Seq(SoundMessage)
                  /\ DOMAIN (down \o x) = 1 .. Len(down) + Len(x)
              BY <1>1, <1>6, ConcatPlaces
            <6> QED
              BY <1>6, <6>1
          <5>4. down'[Len(down) + 1] = m
            BY <1>1, <1>5, <1>60, AppendProperties
          <5> QED
            BY <4>0, <5>2, <5>3, <5>4
        <4>4. A \in SUBSET Doc
          <5>1. held[t] \in 0 .. Now
            BY GatherTypes
          <5> QED
            BY <4>0, <5>1, NowType
        <4>5. Leads(history, t, down', k, A, A)
          BY <4>0, <4>3, <4>4, LeadsNothing
        <4>6. /\ NoneAfter(down', AnswersTo(t), k)
              /\ Punctual(down', t, serving'[t].at, since[t], k)
          BY <4>3 DEF NoneAfter, Punctual
        <4>7. /\ Matching(t, held[t])' = A
              /\ Matching(t, serving[t].at)' = A
          BY <1>1, <4>0, <4>2 DEF Matching
        <4>8. FlowsFrom(t, k, A)'
          <5>1. k # 0 /\ down'[k] = Message("added", {t})
            BY <4>1, <4>3
          <5>2. Leads(history, t, down, k, A, Matching(t, serving[t].at))'
            BY <1>1, <4>5, <4>7
          <5>3. Punctual(down, t, serving[t].at, since[t], k)'
            BY <1>1, <4>6
          <5> QED
            BY <4>2, <4>6, <4>7, <5>1, <5>2, <5>3 DEF FlowsFrom
        <4>9. Flows(t)'
          <5>1. k \in 0 .. Len(down')
            BY <4>0, <4>3
          <5> QED
            BY <4>4, <4>8, <5>1 DEF Flows
        <4> QED
          BY <1>8, <3>1, <4>9 DEF Flow
      <3> QED
        BY <3>2, <3>3
    <2> QED
      BY <2>4, <2>5, <2>6
  <1>10. CASE t # u
    <2>1. /\ r \notin RequestsOf(t) /\ m \notin AnswersTo(t)
          /\ serving'[t] = serving[t]
      <3>1. r \notin RequestsOf(t) /\ m \notin AnswersTo(t)
        BY <1>3, <1>5, <1>10
      <3>2. serving \in [Target -> [on : BOOLEAN, at : 0 .. Now,
                                    caught : BOOLEAN]]
        BY DEF TypeInv, TypeOK
      <3>3. serving'[t] = serving[t]
        BY <1>4, <1>10, <3>2
      <3> QED
        BY <3>1, <3>3
    <2>2. Unasked(t) => Unasked(t)'
      BY <1>1, TailKeeps DEF Unasked
    <2>3. Asked(t) => Asked(t)'
      <3>1. Watch(t, held[t]) \in RequestsOf(t)
        BY GatherTypes, RequestsMade
      <3>2. r # Watch(t, held[t])
        BY <2>1, <3>1
      <3> QED
        BY <1>1, <3>2, EndsTail DEF Asked, r
    <2>4. NoneAfter(x, AnswersTo(t), 0)
      BY <1>6, <2>1
    <2>5. Refused(t) => Refused(t)'
      BY <1>1, <1>6, <2>4, ConcatKeeps DEF Refused
    <2>6. ASSUME Flows(t)
          PROVE  Flows(t)'
      <3>1. \A i \in DOMAIN x : Quiet(x[i], t)
        BY <1>5, <1>6, <1>10 DEF Quiet
      <3>2. Matching(t, serving[t].at) \in SUBSET Doc
        <4>1. serving[t].at \in 0 .. Now
          BY DEF TypeInv, TypeOK
        <4> QED
          BY <4>1, NowType
      <3>3. Leads(history, t, x, 0, Matching(t, serving[t].at),
                  Matching(t, serving'[t].at))
        BY <1>6, <2>1, <3>1, <3>2, LeadsQuiet
      <3>4. \A i \in DOMAIN x : x[i].kind # "current" /\ x[i].kind # "snapshot"
        BY <1>5, <1>6
      <3> QED
        BY <1>1, <1>6, <2>1, <2>4, <2>6, <3>3, <3>4, FlowsOn
    <2> QED
      BY <1>8, <2>2, <2>3, <2>5, <2>6 DEF Flow, Ready
  <1> QED
    BY <1>9, <1>10

LEMMA FlowSent ==
    ASSUME TypeInv, NEW t \in Target, Flow(t), Calm(t), ServerSendsSome
    PROVE  Flow(t)' /\ Calm(t)'
  <1>1. PICK v \in 1 .. Now, caught \in BOOLEAN,
             how \in [Target -> {"changes", "filter", "all"}] :
                 ServerSends(v, how, caught)
    BY ServerSendsWhat
  <1>2. PICK more : down' = down \o more /\ Brings(more, v)
    BY <1>1, ServerBrings
  <1>3. /\ UNCHANGED <<history, up, lastRemote, resets, keys, held, since,
                       hurried, states>>
        /\ serving[t].on => /\ serving'[t].on /\ serving'[t].at = v
                            /\ serving[t].at <= v
    BY <1>1 DEF ServerSends, storeVars, targetVars, pastVars
  <1>4. /\ more \in Seq(SoundMessage) /\ down \in Seq(SoundMessage)
        /\ NoneAfter(more, AnswersTo(t), 0)
    <2>1. more \in Seq(Speech) /\ Speech \subseteq SoundMessage
      BY <1>2 DEF Brings, Speech
    <2>2. \A i \in DOMAIN more : more[i] \in Speech
      BY <2>1
    <2> QED
      BY <2>1, <2>2, SeqMonotonic DEF NoneAfter, Speech, AnswersTo, TypeInv
  <1>5. /\ State(t)' = State(t) /\ (Hasty(t)' <=> Hasty(t))
        /\ (Asked(t) => Asked(t)') /\ (Unasked(t) => Unasked(t)')
    BY <1>3 DEF State, Hasty, Asked, Unasked
  <1>6. Refused(t) => Refused(t)'
    BY <1>2, <1>4, ConcatKeeps DEF Refused
  <1>7. ASSUME Flows(t)
        PROVE  Flows(t)'
    <2>1. serving[t].on => Leads(history, t, more, 0,
                                 Matching(t, serving[t].at),
                                 Matching(t, serving'[t].at))
      BY <1>2, <1>3 DEF Brings
    <2>2. \A i \in DOMAIN more : /\ more[i].kind = "snapshot" => more[i].v = v
                                 /\ more[i].kind = "current" => v = Now
      BY <1>2 DEF Brings
    <2>3. /\ since[t] \in Nat /\ since[t] <= Now /\ serving[t].at \in Nat
          /\ v \in Nat /\ Now \in Nat
      BY <1>1, GatherTypes, NowType
    <2>4. serving[t].on /\ (since[t] <= serving[t].at
               \/ \E i \in DOMAIN more : more[i].kind = "current") =>
               /\ since[t] <= serving'[t].at
               /\ \A i \in DOMAIN more :
                     more[i].kind = "snapshot" => since[t] <= more[i].v
      BY <1>3, <2>2, <2>3
    <2> QED
      BY <1>2, <1>3, <1>4, <1>7, <2>1, <2>4, FlowsOn
  <1> QED
    BY <1>5, <1>6, <1>7 DEF Flow, Calm

(* Something else matches from now on.                                     *)
LEMMA PastStays ==
    ASSUME TypeInv, NEW u \in Target, NEW d \in Doc, Edit(u, d)
    PROVE  /\ \A v \in 1 .. Now : history'[v] = history[v]
           /\ \A t, v : v \in 0 .. Now => Matching(t, v)' = Matching(t, v)
  <1> DEFINE f == [history[Now] EXCEPT ![u] =
                      IF d \in @ THEN @ \ {d} ELSE @ \cup {d}]
  <1>1. history' = Append(history, f)
    BY DEF Edit
  <1>2. history \in Seq([Target -> SUBSET Doc]) /\ Now \in Nat \ {0}
    BY NowType DEF TypeInv, TypeOK
  <1>3. f \in [Target -> SUBSET Doc]
    <2>1. history[Now] \in [Target -> SUBSET Doc]
      BY <1>2, ElementOfSeq DEF Now
    <2> QED
      BY <2>1
  <1> HIDE DEF f
  <1>4. \A v \in 1 .. Now : history'[v] = history[v]
    BY <1>1, <1>2, <1>3, AppendProperties DEF Now
  <1> QED
    BY <1>2, <1>4 DEF Matching

LEMMA FlowEdited ==
    ASSUME TypeInv, NEW t \in Target, Flow(t), Calm(t),
           NEW u \in Target, NEW d \in Doc, Edit(u, d)
    PROVE  Flow(t)' /\ Calm(t)'
  <1>1. UNCHANGED <<down, up, serving, lastRemote, resets, keys, held, since,
                    hurried, states>>
    BY DEF Edit, storeVars, targetVars, pastVars
  <1>2. /\ State(t)' = State(t) /\ (Hasty(t)' <=> Hasty(t))
        /\ (Asked(t) => Asked(t)') /\ (Unasked(t) => Unasked(t)')
        /\ Refused(t) => Refused(t)'
    BY <1>1 DEF State, Hasty, Asked, Unasked, Refused
  <1>3. /\ Matching(t, held[t])' = Matching(t, held[t])
        /\ Matching(t, serving[t].at)' = Matching(t, serving[t].at)
    <2>1. held[t] \in 0 .. Now /\ serving[t].at \in 0 .. Now
      BY DEF TypeInv, TypeOK
    <2>2. \A n \in 0 .. Now : Matching(t, n)' = Matching(t, n)
      BY PastStays
    <2>3. PICK h, at : h = held[t] /\ at = serving[t].at
      OBVIOUS
    <2>4. /\ Matching(t, held[t])' = Matching(t, h)'
          /\ Matching(t, serving[t].at)' = Matching(t, at)'
      BY <1>1, <2>3 DEF Matching
    <2> QED
      BY <2>1, <2>2, <2>3, <2>4
  <1>4. (\A C : Kept(t, C) => Kept(t, C)') /\ (Spoken(t) => Spoken(t)')
    BY <1>1, <1>2, <1>3 DEF Kept, Known, Spoken
  <1>5. ASSUME NEW k \in 0 .. Len(down), NEW A \in SUBSET Doc,
               FlowsFrom(t, k, A)
        PROVE  FlowsFrom(t, k, A)'
    <2>1. down \in Seq(SoundMessage) /\ k \in Nat
      BY LenProperties DEF TypeInv
    <2>2. Leads(history', t, down, k, A, Matching(t, serving[t].at))
      BY <1>5, <2>1, PastStays, LeadsLater DEF FlowsFrom
    <2> QED
      BY <1>1, <1>2, <1>3, <1>4, <1>5, <2>2 DEF FlowsFrom
  <1>6. Flows(t) => Flows(t)'
    BY <1>1, <1>5 DEF Flows
  <1> QED
    BY <1>2, <1>6 DEF Flow, Calm

LEMMA FlowStep ==
    ASSUME TypeInv, OnlineInv, CountInv, FlowInv, StateSound, [Next]_vars
    PROVE  FlowInv'
  <1>1. IsOpen(stream)' => \/ ResumeStartWithCredentials /\ ~IsOpen(stream)
                           \/ IsOpen(stream)
    BY StreamGoesOn DEF CountInv
  <1>2. SUFFICES ASSUME IsOpen(stream)', NEW t \in listening' \ miscounted'
                 PROVE  Flow(t)' /\ Calm(t)'
    BY DEF FlowInv
  <1>3. t \in Target
    <2>1. ViewTypes'
      BY ViewsStep
    <2>2. TypeInv'
      BY TypeInvStep
    <2> QED
      BY <2>2 DEF TypeInv, TypeOK
  <1>4. CASE ResumeStartWithCredentials
    <2>1. t \in listening
      BY <1>4 DEF ResumeStartWithCredentials
    <2> QED
      BY <1>3, <1>4, <2>1, FlowResume
  <1>5. CASE IsOpen(stream) /\ ~ResumeStartWithCredentials
    <2>1. ASSUME t \in listening, t \notin miscounted
          PROVE  Ready(t)
      <3>1. TargetInv(t) /\ Flow(t) /\ Calm(t)
        BY <1>3, <1>5, <2>1 DEF CountInv, FlowInv
      <3> QED
        BY <2>1, <3>1 DEF TargetInv, Ready
    <2>2. ASSUME NEW u \in Target, Listen(u)
          PROVE  Flow(t)' /\ Calm(t)'
      <3>1. t # u => t \in listening /\ t \notin miscounted
        BY <2>2 DEF Listen
      <3>2. t # u => Flow(t) /\ Calm(t)
        BY <2>1, <3>1 DEF Ready
      <3> QED
        BY <1>3, <1>5, <2>2, <3>2, FlowListen
    <2>3. ASSUME NEW u \in Target, StopListening(u)
          PROVE  Flow(t)' /\ Calm(t)'
      <3>1. listening' = listening \ {u} /\ UNCHANGED miscounted
        BY <2>3 DEF StopListening, Drop, pastVars
      <3>2. Ready(t) /\ t # u
        BY <2>1, <3>1
      <3> QED
        BY <1>3, <1>5, <2>3, <3>2, FlowStop DEF Ready
    <2>4. ASSUME \/ HandleAdded \/ HandleRemoved \/ HandleCurrent
                 \/ HandleDocumentChange \/ HandleReset
                 \/ HandleExistenceFilter
          PROVE  Flow(t)' /\ Calm(t)'
      <3>1. UNCHANGED <<listening, miscounted>>
        BY <2>4, StateHandled
      <3>2. t \in listening /\ Ready(t)
        BY <2>1, <3>1
      <3>3. CASE t # About
        BY <1>3, <2>4, <3>2, <3>3, FlowOther
      <3>4. CASE t = About /\ (HandleAdded \/ HandleRemoved)
        BY <1>3, <3>2, <3>4, FlowAnswered
      <3>5. CASE t = About /\ ~(HandleAdded \/ HandleRemoved)
        BY <1>3, <2>4, <3>2, <3>5, FlowHandled
      <3> QED
        BY <3>3, <3>4, <3>5
    <2>5. CASE ProcessTargetError
      <3>1. /\ miscounted \subseteq miscounted'
            /\ listening' \subseteq listening
            /\ About \in listening => About \notin listening'
        BY <2>5 DEF ProcessTargetError, Drop
      <3>2. Ready(t) /\ t # About
        BY <2>1, <3>1
      <3> QED
        BY <1>3, <2>5, <3>2, FlowOther
    <2>6. CASE IgnoreSnapshot
      <3>1. UNCHANGED <<listening, miscounted>>
        BY <2>6 DEF IgnoreSnapshot, targetVars
      <3> QED
        BY <1>3, <2>1, <2>6, <3>1, FlowIgnored
    <2>7. CASE RaiseWatchSnapshot
      <3>1. UNCHANGED <<listening, miscounted>>
        BY <2>7 DEF RaiseWatchSnapshot
      <3> QED
        BY <1>3, <2>1, <2>7, <3>1, FlowRaised
    <2>8. CASE ServerTakes
      <3>1. UNCHANGED <<listening, miscounted>>
        BY <2>8 DEF ServerTakes, targetVars, pastVars
      <3> QED
        BY <1>3, <2>1, <2>8, <3>1, FlowTaken
    <2>9. CASE ServerSendsSome
      <3>1. UNCHANGED <<listening, miscounted>>
        BY <2>9, ServerSendsWhat DEF targetVars, pastVars
      <3> QED
        BY <1>3, <2>1, <2>9, <3>1, FlowSent DEF Ready
    <2>10. ASSUME NEW u \in Target, NEW d \in Doc, Edit(u, d)
           PROVE  Flow(t)' /\ Calm(t)'
      <3>1. UNCHANGED <<listening, miscounted>>
        BY <2>10 DEF Edit, targetVars, pastVars
      <3> QED
        BY <1>3, <2>1, <2>10, <3>1, FlowEdited DEF Ready
    <2>11. ASSUME \/ BackoffElapsed \/ OnlineStateTimeout \/ EnableNetwork
                  \/ UNCHANGED vars
           PROVE  Flow(t)' /\ Calm(t)'
      <3>1. UNCHANGED <<listening, miscounted, down, history, serving,
                        lastRemote, resets, keys, held, since, hurried,
                        states, up>>
        BY <2>11 DEF BackoffElapsed, OnlineStateTimeout, EnableNetwork, vars,
           serverVars, storeVars, targetVars, pastVars
      <3>2. Flow(t) /\ Calm(t)
        BY <2>1, <3>1 DEF Ready
      <3>3. /\ State(t)' = State(t)
            /\ Asked(t) => Asked(t)'
            /\ Unasked(t) => Unasked(t)'
        BY <3>1 DEF State, Asked, Unasked
      <3> QED
        BY <3>1, <3>2, <3>3, FlowStays
    <2>12. ASSUME \/ IdleTimeout \/ OnWatchStreamClose \/ RestartNetwork
                  \/ DisableNetwork
           PROVE  FALSE
      BY <1>2, <2>12, EndOfStream DEF ClosedByNewStream
    <2> QED
      BY <1>5, <2>2, <2>3, <2>4, <2>5, <2>6, <2>7, <2>8, <2>9, <2>10, <2>11,
         <2>12 DEF Next, HandleMessage
  <1> QED
    BY <1>1, <1>2, <1>4, <1>5

(* What a handler gathers is a change of the documents that there are.     *)
Fits(t, s) == s.added \cap keys[t] = {} /\ s.removed \subseteq keys[t]

LEMMA FitsAfter ==
    ASSUME StateSound, UNCHANGED keys,
           \A t \in Target : \/ State(t)' = State(t)
                             \/ Fits(t, State(t)')
    PROVE  StateSound'
  BY DEF StateSound, Fits

LEMMA FitsHandled ==
    ASSUME TypeInv, StateSound,
           \/ HandleAdded \/ HandleRemoved \/ HandleCurrent
           \/ HandleDocumentChange \/ HandleReset \/ HandleExistenceFilter
    PROVE  StateSound'
  <1> DEFINE S == State(About)
  <1>1. /\ S \in AggState /\ About \in Target
        /\ UNCHANGED keys
    BY StateHandled, GatherTypes DEF storeVars
  <1>2. Fits(About, S) /\ Fits(About, NoState)
    BY <1>1 DEF StateSound, Fits, NoState
  <1>3. ASSUME NEW s, Fits(About, s),
               states' = Put(About, s) \/ UNCHANGED states
        PROVE  StateSound'
    <2>1. \A t : State(t)' = State(t) \/ (t = About /\ State(t)' = s)
      BY <1>3, PutEffect DEF State
    <2> QED
      BY <1>1, <1>3, <2>1, FitsAfter
  <1>4. CASE HandleAdded
    <2>1. /\ Fits(About, [NoState EXCEPT !.current = S.current])
          /\ Fits(About, [S EXCEPT !.out = @ - 1])
      BY <1>1, <1>2 DEF Fits, NoState, AggState
    <2>2. states' = Put(About, IF S.out = 1
                               THEN [NoState EXCEPT !.current = S.current]
                               ELSE [S EXCEPT !.out = @ - 1])
      BY <1>4 DEF HandleAdded
    <2> HIDE DEF S
    <2> QED
      BY <1>3, <2>1, <2>2
  <1>5. CASE HandleRemoved
    <2>1. Fits(About, [S EXCEPT !.out = @ - 1])
      BY <1>1, <1>2 DEF Fits, AggState
    <2>2. \/ states' = RemoveTarget(About)
          \/ states' = Put(About, [S EXCEPT !.out = @ - 1])
      BY <1>5 DEF HandleRemoved
    <2>3. CASE states' = RemoveTarget(About)
      <3>1. \A t : State(t)' = State(t) \/ (t = About /\ State(t)' = NoState)
        BY <2>3, RemoveEffect
      <3> QED
        BY <1>1, <1>2, <3>1, FitsAfter
    <2> HIDE DEF S
    <2> QED
      BY <1>3, <2>1, <2>2, <2>3
  <1>6. CASE HandleCurrent
    <2>1. Fits(About, [S EXCEPT !.current = TRUE])
      BY <1>1, <1>2 DEF Fits, AggState
    <2>2. \/ states' = Put(About, [S EXCEPT !.current = TRUE])
          \/ UNCHANGED states
      BY <1>6 DEF HandleCurrent, IfActive
    <2> HIDE DEF S
    <2> QED
      BY <1>3, <2>1, <2>2
  <1>7. CASE HandleDocumentChange
    <2> DEFINE m == Head(down)
               s == [S EXCEPT
                        !.added = (@ \cup (m.add \ keys[About])) \ m.remove,
                        !.removed = (@ \ m.add)
                                        \cup (m.remove \cap keys[About])]
    <2>1. Fits(About, s)
      BY <1>1, <1>2 DEF Fits, AggState
    <2>2. states' = Put(About, s) \/ UNCHANGED states
      BY <1>7 DEF HandleDocumentChange, IfActive
    <2> HIDE DEF s
    <2> QED
      BY <1>3, <2>1, <2>2
  <1>8. CASE HandleReset \/ HandleExistenceFilter
    <2>1. Fits(About, ResetState(About))
      BY DEF Fits, ResetState, NoState
    <2>2. \/ states' = Put(About, ResetState(About))
          \/ states' = Put(About, S)
          \/ UNCHANGED states
      BY <1>8 DEF HandleReset, HandleExistenceFilter, IfActive
    <2> HIDE DEF S
    <2> QED
      BY <1>2, <1>3, <2>1, <2>2
  <1> QED
    BY <1>4, <1>5, <1>6, <1>7, <1>8

LEMMA SoundStep ==
    ASSUME TypeInv, StateSound, [Next]_vars
    PROVE  StateSound'
  <1> USE DEF storeVars
  <1>1. ASSUME UNCHANGED keys, states' = << >>
        PROVE  StateSound'
    <2>1. \A t : State(t)' = NoState
      BY <1>1 DEF State
    <2> QED
      BY <1>1, <2>1, FitsAfter DEF Fits, NoState
  <1>2. ASSUME NEW u \in Target, UNCHANGED keys, states' = RecordRequest(u)
        PROVE  StateSound'
    <2>1. State(u) \in AggState
      BY GatherTypes
    <2>2. Fits(u, [State(u) EXCEPT !.out = @ + 1])
      BY <2>1 DEF StateSound, Fits, AggState
    <2>3. \A t : \/ State(t)' = State(t)
                 \/ t = u /\ State(t)' = [State(u) EXCEPT !.out = @ + 1]
      BY <1>2, PutEffect DEF RecordRequest
    <2> QED
      BY <1>2, <2>2, <2>3, FitsAfter
  <1>3. ASSUME UNCHANGED <<keys, states>>
        PROVE  StateSound'
    BY <1>3 DEF StateSound, State
  <1>4. ASSUME NEW u \in Target, Listen(u) \/ StopListening(u)
        PROVE  StateSound'
    <2>1. /\ UNCHANGED keys
          /\ UNCHANGED states \/ states' = RecordRequest(u)
      BY <1>4 DEF Listen, StopListening
    <2> QED
      BY <1>2, <1>3, <2>1
  <1>5. CASE ResumeStartWithCredentials
    <2>1. /\ states' = [t \in listening |-> [NoState EXCEPT !.out = 1]]
          /\ UNCHANGED keys
      BY <1>5 DEF ResumeStartWithCredentials
    <2>2. \A t : State(t)' \in {NoState, [NoState EXCEPT !.out = 1]}
      BY <2>1 DEF State
    <2>3. \A t : Fits(t, NoState) /\ Fits(t, [NoState EXCEPT !.out = 1])
      BY DEF Fits, NoState
    <2> QED
      BY <2>1, <2>2, <2>3, FitsAfter
  <1>6. CASE \/ IdleTimeout \/ OnWatchStreamClose \/ RestartNetwork
             \/ DisableNetwork
    <2>1. states' = << >> /\ UNCHANGED keys
      BY <1>6 DEF IdleTimeout, OnWatchStreamClose, RestartNetwork,
         DisableNetwork, NewStream
    <2> QED
      BY <1>1, <2>1
  <1>7. CASE RaiseWatchSnapshot
    <2>1. ASSUME NEW t \in Target
          PROVE  /\ State(t)'.added \cap keys'[t] = {}
                 /\ State(t)'.removed \subseteq keys'[t]
      <3>1. /\ keys'[t] = IF t \in Active THEN Known(t) ELSE keys[t]
            /\ State(t)'.added = IF t \in Active THEN {} ELSE State(t).added
            /\ State(t)'.removed = IF t \in Active THEN {}
                                   ELSE State(t).removed
        BY <1>7, RaisedQuery, RaisedState
      <3> QED
        BY <3>1 DEF StateSound
    <2> QED
      BY <2>1 DEF StateSound
  <1>8. CASE ProcessTargetError
    <2>1. /\ UNCHANGED keys
          /\ UNCHANGED states \/ states' = RemoveTarget(About)
      BY <1>8 DEF ProcessTargetError
    <2>2. \A t : State(t)' = State(t) \/ State(t)' = NoState
      BY <2>1, RemoveEffect DEF State
    <2>3. \A t : Fits(t, NoState)
      BY DEF Fits, NoState
    <2> QED
      BY <2>1, <2>2, <2>3, FitsAfter
  <1>9. ASSUME \/ BackoffElapsed \/ OnlineStateTimeout \/ EnableNetwork
               \/ IgnoreSnapshot \/ ServerTakes \/ ServerSendsSome
               \/ UNCHANGED vars \/ \E t \in Target, d \in Doc : Edit(t, d)
        PROVE  UNCHANGED <<keys, states>>
    BY <1>9, ServerSendsWhat DEF BackoffElapsed, OnlineStateTimeout,
       EnableNetwork, IgnoreSnapshot, ServerTakes, Edit, vars, targetVars
  <1> QED
    BY <1>3, <1>4, <1>5, <1>6, <1>7, <1>8, <1>9, FitsHandled DEF Next,
       HandleMessage

(* Only a listen and a snapshot change what is compared.                   *)
LEMMA RestStays ==
    ASSUME TypeInv, [Next]_vars, ~RaiseWatchSnapshot,
           \A u \in Target : ~Listen(u)
    PROVE  /\ UNCHANGED <<keys, token, held, since, torn, hurried>>
           /\ listening' \subseteq listening
           /\ \A t \in Target : current'[t] => current[t]
           /\ \A t \in Target, v \in 0 .. Now :
                 Matching(t, v)' = Matching(t, v)
  <1> USE DEF storeVars, targetVars, pastVars, viewVars, serverVars
  <1>1. current \in [Target -> BOOLEAN]
    BY DEF TypeInv, TypeOK
  <1>2. \A t \in Target : current'[t] => current[t]
    <2>1. ASSUME NEW s, SetAndBroadcast(s)
          PROVE  \A t \in Target : current'[t] => current[t]
      BY <2>1 DEF SetAndBroadcast
    <2>2. ASSUME NEW u, Drop(u)
          PROVE  \A t \in Target : current'[t] => current[t]
      BY <1>1, <2>2 DEF Drop
    <2>3. ASSUME UNCHANGED current
          PROVE  \A t \in Target : current'[t] => current[t]
      BY <2>3
    <2>4. \/ \E s : SetAndBroadcast(s)
          \/ \E u : Drop(u)
          \/ UNCHANGED current
      <3>1. ASSUME NEW u \in Target, StopListening(u)
            PROVE  Drop(u)
        BY <3>1 DEF StopListening
      <3>2. ASSUME OnWatchStreamClose
            PROVE  UNCHANGED current \/ \E s : SetAndBroadcast(s)
        BY <3>2 DEF OnWatchStreamClose, HandleWatchStreamFailure, UpdateState
      <3>3. ASSUME OnlineStateTimeout \/ DisableNetwork
            PROVE  SetAndBroadcast("Offline")
        BY <3>3 DEF OnlineStateTimeout, DisableNetwork, UpdateState
      <3>4. ASSUME ProcessTargetError
            PROVE  Drop(About) \/ UNCHANGED current
        BY <3>4 DEF ProcessTargetError
      <3>5. ASSUME \/ ResumeStartWithCredentials \/ BackoffElapsed
                   \/ IdleTimeout \/ RestartNetwork \/ EnableNetwork
                   \/ ServerTakes \/ ServerSendsSome \/ IgnoreSnapshot
                   \/ UNCHANGED vars
                   \/ \E t \in Target, d \in Doc : Edit(t, d)
            PROVE  UNCHANGED current
        BY <3>5, ServerSendsWhat DEF ResumeStartWithCredentials,
           BackoffElapsed, IdleTimeout, RestartNetwork, EnableNetwork,
           StartOrUnknown, ServerTakes, IgnoreSnapshot, Edit, vars
      <3>6. ASSUME \/ HandleAdded \/ HandleRemoved \/ HandleCurrent
                   \/ HandleDocumentChange \/ HandleReset
                   \/ HandleExistenceFilter
            PROVE  UNCHANGED current
        BY <3>6, StateHandled
      <3> QED
        BY <3>1, <3>2, <3>3, <3>4, <3>5, <3>6 DEF Next, HandleMessage
    <2> QED
      BY <2>1, <2>2, <2>3, <2>4
  <1>3. /\ UNCHANGED <<keys, token, held, since, torn, hurried>>
        /\ listening' \subseteq listening
        /\ UNCHANGED history \/ \E t \in Target, d \in Doc : Edit(t, d)
    <2> DEFINE Same == /\ UNCHANGED <<keys, token, held, since, torn, hurried>>
                       /\ listening' \subseteq listening
                       /\ \/ UNCHANGED history
                          \/ \E t \in Target, d \in Doc : Edit(t, d)
    <2>1. ASSUME NEW u \in Target, StopListening(u)
          PROVE  Same
      BY <2>1 DEF StopListening, Drop
    <2>2. ASSUME \/ HandleAdded \/ HandleRemoved \/ HandleCurrent
                 \/ HandleDocumentChange \/ HandleReset
                 \/ HandleExistenceFilter
          PROVE  Same
      BY <2>2, StateHandled
    <2>3. ASSUME IgnoreSnapshot \/ ProcessTargetError
          PROVE  Same
      BY <2>3 DEF IgnoreSnapshot, ProcessTargetError, OnWatchStreamChange, Drop
    <2>4. ASSUME \/ ResumeStartWithCredentials \/ BackoffElapsed
                 \/ IdleTimeout \/ RestartNetwork \/ EnableNetwork
                 \/ DisableNetwork \/ OnWatchStreamClose
                 \/ OnlineStateTimeout \/ UNCHANGED vars
          PROVE  Same
      BY <2>4 DEF ResumeStartWithCredentials, BackoffElapsed, IdleTimeout,
         RestartNetwork, EnableNetwork, DisableNetwork, OnWatchStreamClose,
         OnlineStateTimeout, vars
    <2>5. ASSUME ServerTakes \/ ServerSendsSome
          PROVE  Same
      BY <2>5, ServerSendsWhat DEF ServerTakes
    <2>6. ASSUME NEW t \in Target, NEW d \in Doc, Edit(t, d)
          PROVE  Same
      BY <2>6 DEF Edit
    <2> QED
      BY <2>1, <2>2, <2>3, <2>4, <2>5, <2>6 DEF Next, HandleMessage
  <1> QED
    <2>1. ASSUME NEW t \in Target, NEW v \in 0 .. Now
          PROVE  Matching(t, v)' = Matching(t, v)
      <3>1. CASE UNCHANGED history
        BY <3>1 DEF Matching
      <3> QED
        BY <1>3, <3>1, PastStays
    <2> QED
      BY <1>2, <1>3, <2>1

(* What a snapshot leaves of a query is what matched at its version.       *)
LEMMA KeysAfterSnapshot ==
    ASSUME TypeInv, CountInv, GatherInv, IsOpen(stream), NEW t \in Target,
           RaiseWatchSnapshot
    PROVE  /\ t \in torn' \/ keys'[t] = Matching(t, token[t])'
           /\ current'[t] => token'[t] >= since'[t] \/ t \in hurried'
           /\ t \in listening' => t \in torn' \/ held'[t] = token'[t]
  <1> DEFINE v == Head(down).v
             again == resets \cap listening
  <1>1. /\ OnWatchStreamChange("snapshot") /\ v \in 1 .. Now
        /\ lastRemote <= v
        /\ keys'[t] = IF t \in Active THEN Known(t) ELSE keys[t]
        /\ token'[t] = IF t \in Active THEN v ELSE token[t]
        /\ current'[t] = IF t \in Active THEN State(t).current ELSE current[t]
        /\ held'[t] = IF t \in again THEN 0
                      ELSE IF t \in Active THEN v ELSE held[t]
        /\ UNCHANGED <<listening, since, history>>
        /\ hurried \subseteq hurried'
        /\ t \in Active /\ t \in miscounted => t \in hurried' /\ t \in torn'
        /\ t \in again => t \in torn'
        /\ t \in torn /\ t \notin torn' =>
              t \in Active /\ held[t] = 0 /\ keys[t] = {}
    BY RaisedQuery
  <1>2. /\ v \in Nat /\ lastRemote \in Nat /\ since[t] \in Nat
        /\ Matching(t, token[t])' = Matching(t, token'[t])
    BY <1>1, NowType, GatherTypes DEF Matching
  <1> HIDE DEF v
  <1>3. CASE t \notin Active
    <2>1. t \in torn' \/ keys'[t] = Matching(t, token[t])'
      BY <1>1, <1>2, <1>3 DEF GatherInv, KeysMatchToken
    <2>2. current'[t] => token'[t] >= since'[t] \/ t \in hurried'
      BY <1>1, <1>3 DEF GatherInv, CurrentIsCaughtUp
    <2>3. t \in listening' => t \in torn' \/ held'[t] = token'[t]
      BY <1>1, <1>3 DEF GatherInv, HeldIsToken
    <2> QED
      BY <2>1, <2>2, <2>3
  <1>4. CASE t \in Active
    <2>1. t \in listening /\ State(t).out = 0
      BY <1>4 DEF Active, IsActiveTarget
    <2>2. t \notin miscounted => Ready(t)
      <3>1. TargetInv(t) /\ (t \notin miscounted => Flow(t) /\ Calm(t))
        BY <2>1 DEF CountInv, GatherInv, FlowInv
      <3> QED
        BY <2>1, <3>1 DEF TargetInv, Ready
    <2>3. t \notin miscounted =>
              /\ Kept(t, Matching(t, v))
              /\ Hasty(t) \/ ~State(t).current \/ since[t] <= v
      BY <1>1, <2>1, <2>2, SnapshotFits DEF v
    <2>4. t \in torn' \/ held'[t] = token'[t]
      BY <1>1, <1>4
    <2>5. current'[t] => token'[t] >= since'[t] \/ t \in hurried'
      BY <1>1, <1>2, <1>4, <2>3 DEF Hasty
    <2>6. ASSUME t \notin torn'
          PROVE  keys'[t] = Matching(t, token[t])'
      <3>1. t \notin miscounted /\ t \notin resets
        BY <1>1, <1>4, <2>1, <2>6
      <3>2. keys[t] = Matching(t, held[t])
        <4>1. CASE t \in torn
          BY <1>1, <2>6, <4>1 DEF Matching
        <4>2. CASE t \notin torn
          BY <2>1, <4>2 DEF GatherInv, KeysMatchToken, HeldIsToken
        <4> QED
          BY <4>1, <4>2
      <3>3. Known(t) = Matching(t, v)
        BY <2>3, <3>1, <3>2 DEF Kept
      <3> QED
        BY <1>1, <1>2, <1>4, <3>3
    <2> QED
      BY <2>4, <2>5, <2>6
  <1> QED
    BY <1>3, <1>4

LEMMA GatherInit == Init => GatherInv
  <1> SUFFICES ASSUME Init
               PROVE  GatherInv
    OBVIOUS
  <1>1. /\ ~IsOpen(stream) /\ listening = {} /\ states = << >>
        /\ keys = [t \in Target |-> {}] /\ token = [t \in Target |-> 0]
        /\ current = [t \in Target |-> FALSE]
    BY DEF Init, IsOpen, IdleStream
  <1>2. StateSound
    <2>1. \A t : State(t) = NoState
      BY <1>1 DEF State
    <2> QED
      BY <2>1 DEF StateSound, NoState
  <1>3. KeysMatchToken
    BY <1>1 DEF KeysMatchToken, Matching
  <1>4. FlowInv /\ HeldIsToken /\ CurrentIsCaughtUp
    BY <1>1 DEF FlowInv, HeldIsToken, CurrentIsCaughtUp
  <1> QED
    BY <1>2, <1>3, <1>4 DEF GatherInv

LEMMA GatherStep ==
    TypeInv /\ OnlineInv /\ CountInv /\ GatherInv /\ [Next]_vars => GatherInv'
  <1> SUFFICES ASSUME TypeInv, OnlineInv, CountInv, GatherInv, [Next]_vars
               PROVE  GatherInv'
    OBVIOUS
  <1>1. FlowInv' /\ StateSound'
    BY FlowStep, SoundStep DEF GatherInv
  <1>2. CASE RaiseWatchSnapshot
    <2>1. IsOpen(stream) /\ listening' \subseteq Target
      BY <1>2, GatherTypes DEF RaiseWatchSnapshot, OnWatchStreamChange
    <2>2. \A t \in Target :
              /\ t \in torn' \/ keys'[t] = Matching(t, token[t])'
              /\ current'[t] => token'[t] >= since'[t] \/ t \in hurried'
              /\ t \in listening' => t \in torn' \/ held'[t] = token'[t]
      BY <1>2, <2>1, KeysAfterSnapshot
    <2>3. KeysMatchToken' /\ CurrentIsCaughtUp' /\ HeldIsToken'
      BY <2>1, <2>2 DEF KeysMatchToken, CurrentIsCaughtUp, HeldIsToken
    <2> QED
      BY <1>1, <2>3 DEF GatherInv
  <1>3. ASSUME NEW u \in Target, Listen(u)
        PROVE  GatherInv'
    <2>1. /\ UNCHANGED <<keys, token, torn, history>>
          /\ listening' = listening \cup {u}
          /\ held' = [held EXCEPT ![u] = token[u]]
          /\ since' = [since EXCEPT ![u] = Now]
          /\ current' = [current EXCEPT ![u] = FALSE]
          /\ hurried' \in {hurried \cup {u}, hurried \ {u}}
      BY <1>3 DEF Listen, storeVars, serverVars
    <2>2. /\ DOMAIN held = Target /\ DOMAIN since = Target
          /\ DOMAIN current = Target /\ listening \subseteq Target
      BY DEF TypeInv, TypeOK
    <2>3. KeysMatchToken'
      BY <2>1 DEF GatherInv, KeysMatchToken, Matching
    <2>4. HeldIsToken'
      BY <2>1, <2>2 DEF GatherInv, HeldIsToken
    <2>5. CurrentIsCaughtUp'
      BY <2>1, <2>2 DEF GatherInv, CurrentIsCaughtUp
    <2> QED
      BY <1>1, <2>3, <2>4, <2>5 DEF GatherInv
  <1>4. CASE ~RaiseWatchSnapshot /\ \A u \in Target : ~Listen(u)
    <2>1. /\ UNCHANGED <<keys, token, held, since, torn, hurried>>
          /\ listening' \subseteq listening
          /\ \A t \in Target : current'[t] => current[t]
          /\ \A t \in Target, v \in 0 .. Now :
                Matching(t, v)' = Matching(t, v)
      BY <1>4, RestStays
    <2>2. ASSUME NEW t \in Target, t \notin torn
          PROVE  keys'[t] = Matching(t, token[t])'
      <3>1. PICK n : n = token[t]
        OBVIOUS
      <3>2. n \in 0 .. Now
        BY <3>1, GatherTypes
      <3>3. Matching(t, token[t])' = Matching(t, n)'
        BY <2>1, <3>1
      <3> QED
        BY <2>1, <2>2, <3>1, <3>2, <3>3 DEF GatherInv, KeysMatchToken
    <2>3. KeysMatchToken'
      BY <2>1, <2>2 DEF KeysMatchToken
    <2>4. HeldIsToken' /\ CurrentIsCaughtUp'
      BY <2>1 DEF GatherInv, HeldIsToken, CurrentIsCaughtUp
    <2> QED
      BY <1>1, <2>3, <2>4 DEF GatherInv
  <1> QED
    BY <1>2, <1>3, <1>4

LEMMA GatherInvariant == Spec => []GatherInv
  BY GatherInit, GatherStep, TypeInvariant, OnlineInvariant, CountInvariant,
     PTL DEF Spec

(* The documents of a query are those that matched at the version of its   *)
(* resume token, whatever was under way of its earlier listens when the    *)
(* aggregator began to gather for this one, and however changes, resets,   *)
(* filters, snapshots and the ends of the stream interleave: unless its    *)
(* count did not fit, or a refusal upset it, and it was not listened to    *)
(* from zero since.                                                        *)
THEOREM KeysFollowToken == Spec => []KeysMatchToken
  BY GatherInvariant, PTL DEF GatherInv

(* A view that is current has all that had changed when the query was      *)
(* listened to: no message of an earlier listen makes it current too soon, *)
(* but for the state that a listen finds on a stream where the query was   *)
(* current, and a query whose count a refusal upset.                       *)
THEOREM CurrentViewsAreCaughtUp == Spec => []CurrentIsCaughtUp
  BY GatherInvariant, PTL DEF GatherInv
=============================================================================
