------------------------- MODULE WritePipelineProofs -------------------------
(***************************************************************************)
(* Theorems about the write path of a phone's Firestore client, for any    *)
(* users, any number of writes, whichever of them the server refuses, and  *)
(* any length of the pipeline.                                             *)
(***************************************************************************)
EXTENDS WritePipeline, TLAPS, SequenceTheorems, FiniteSetTheorems

Call == [up : Seq(Batch \cup {Hello}), down : Seq(Batch \cup {Hello}),
         status : {"none", "transient", "permanent"}, due : BOOLEAN]

(* A pipeline p, a stream s and a call w between two handlers' steps, with *)
(* the network enabled or not: no call without an open stream, no stream   *)
(* without the network, and the idle timer only after a handshake, because *)
(* a stream is started for a batch and keeps it until then.                *)
Sound(p, s, w, on) ==
    /\ p \in Seq(Batch) /\ s \in StreamState /\ w \in Call
    /\ Len(p) <= kMaxPendingWrites
    /\ TimersFindTheirState(s)
    /\ s.handshake => IsOpen(s)
    /\ s.idle => s.handshake /\ p = << >>
    /\ IsStarted(s) /\ ~s.handshake => p # << >>
    /\ ~IsOpen(s) => w = NoWire
    /\ ~on => p = << >> /\ ~IsStarted(s)

StreamInv == Sound(pipeline, stream, wire, enabled)

(* The rows of a user are in the order in which they were written, and     *)
(* nextBatchId is given to none of them.                                   *)
InOrder(q) == \A i, j \in DOMAIN q : i < j => q[i].id < q[j].id
QueuesInOrder ==
    \A u \in User : /\ InOrder(queue[u])
                    /\ \A i \in DOMAIN queue[u] : queue[u][i].id < nextBatchId

(* A call before the handshake, and after it, when the server has carried  *)
(* out the writes of done: those that it has answered are among them, and  *)
(* a call that it has ended as wrong it has ended at a write that it       *)
(* refuses, after carrying out those before.                               *)
BeforeHandshake(w) ==
    \/ w.down = << >> /\ w.up \in {<< >>, <<Hello>>}
    \/ w.down = <<Hello>> /\ w.up = << >> /\ w.status # "permanent"
RefusedAt(p, w, done, j) ==
    /\ p[j].write \in Bad /\ j > Len(w.down)
    /\ \A i \in 1 .. j - 1 : p[i].write \in done
AfterHandshake(p, w, done) ==
    /\ IsPrefix(w.down, p)
    /\ w.status = "none" => w.down \o w.up = p
    /\ \A i \in 1 .. Len(w.down) : p[i].write \in done
    /\ w.status = "permanent" =>
         \E j \in 1 .. Len(p) : RefusedAt(p, w, done, j)
CallInv == IF stream.handshake THEN AfterHandshake(pipeline, wire, committed)
                               ELSE BeforeHandshake(wire)

(* Writes are numbered in the order in which they are made; a user's queue *)
(* holds writes of that user in this order.                                *)
Numbered(n) ==
    /\ UNION {issued[u] : u \in User} = 1 .. n
    /\ \A u, v \in User : u # v => issued[u] \cap issued[v] = {}
WritesInOrder ==
    /\ \E n \in Nat : Numbered(n)
    /\ \A w \in Write : told[w] # "nothing" => \E u \in User : w \in issued[u]
    /\ \A u \in User :
          /\ \A i \in DOMAIN queue[u] : queue[u][i].write \in issued[u]
          /\ \A i, j \in DOMAIN queue[u] :
                i < j => queue[u][i].write < queue[u][j].write

-----------------------------------------------------------------------------
(* Parts of a queue.                                                       *)

LEMMA CountUpTo ==
    ASSUME NEW n \in Nat
    PROVE  IsFiniteSet(1 .. n) /\ Cardinality(1 .. n) = n
  <1>1. /\ IsFiniteSet(1 .. n)
        /\ Cardinality(1 .. n) = IF 1 > n THEN 0 ELSE n - 1 + 1
    BY FS_Interval
  <1> QED
    BY <1>1

LEMMA BatchesOfQueue ==
    ASSUME NEW q \in Seq(Batch)
    PROVE  /\ Len(q) \in Nat /\ DOMAIN q = 1 .. Len(q)
           /\ \A i \in 1 .. Len(q) : /\ q[i] \in Batch
                                     /\ q[i].id \in Nat \ {0}
                                     /\ q[i].write \in Write
  <1>1. Len(q) \in Nat /\ DOMAIN q = 1 .. Len(q)
    BY LenProperties
  <1>2. \A i \in 1 .. Len(q) : q[i] \in Batch
    BY ElementOfSeq
  <1> QED
    BY <1>1, <1>2 DEF Batch

LEMMA FirstOfProperties ==
    ASSUME NEW S, NEW q \in Seq(S), NEW n \in Nat
    PROVE  /\ FirstOf(q, n) \in Seq(S)
           /\ Len(FirstOf(q, n)) = IF n <= Len(q) THEN n ELSE Len(q)
           /\ \A i \in 1 .. Len(FirstOf(q, n)) : FirstOf(q, n)[i] = q[i]
  <1> DEFINE m == IF n <= Len(q) THEN n ELSE Len(q)
  <1>1. Len(q) \in Nat /\ \A i \in 1 .. Len(q) : q[i] \in S
    BY LenProperties, ElementOfSeq
  <1>2. m \in Nat /\ m <= Len(q)
    BY <1>1
  <1>3. Min({n, Len(q)}) = m
    <2>1. \A x \in {n, Len(q)} :
            (\A y \in {n, Len(q)} : x <= y) <=> x = m
      BY <1>1
    <2>2. m \in {n, Len(q)}
      OBVIOUS
    <2> QED
      BY <2>1, <2>2 DEF Min
  <1>4. FirstOf(q, n) = SubSeq(q, 1, m)
    BY <1>3 DEF FirstOf
  <1> HIDE DEF m
  <1>5. \A i \in 1 .. m : q[i] \in S
    BY <1>1, <1>2
  <1>6. /\ SubSeq(q, 1, m) \in Seq(S)
        /\ Len(SubSeq(q, 1, m)) = m
        /\ \A i \in 1 .. m : SubSeq(q, 1, m)[i] = q[i]
    BY <1>2, <1>5, SubSeqProperties
  <1> QED
    BY <1>4, <1>6 DEF m

LEMMA Rows ==
    ASSUME NEW S, NEW q \in Seq(S), NEW id
    PROVE  /\ \A P \in SUBSET DOMAIN q : IsFiniteSet(P) /\ Cardinality(P) \in 0 .. Len(q)
           /\ BatchesBefore(q, id) \in Seq(S) /\ BatchesAfter(q, id) \in Seq(S)
  <1>1. /\ Len(q) \in Nat /\ DOMAIN q = 1 .. Len(q)
        /\ \A i \in 1 .. Len(q) : q[i] \in S
    BY LenProperties, ElementOfSeq
  <1>2. IsFiniteSet(1 .. Len(q)) /\ Cardinality(1 .. Len(q)) = Len(q)
    BY <1>1, CountUpTo
  <1>3. ASSUME NEW P \in SUBSET DOMAIN q
        PROVE  IsFiniteSet(P) /\ Cardinality(P) \in 0 .. Len(q)
    <2>1. IsFiniteSet(P) /\ Cardinality(P) <= Len(q)
      BY <1>1, <1>2, FS_Subset
    <2> QED
      BY <1>1, <2>1, FS_CardinalityType
  <1>4. BatchesBefore(q, id) \in Seq(S)
    <2> DEFINE c == Cardinality({i \in DOMAIN q : q[i].id < id})
    <2>1. c \in 0 .. Len(q)
      BY <1>3
    <2> HIDE DEF c
    <2>2. c \in Int /\ \A i \in 1 .. c : q[i] \in S
      BY <1>1, <2>1
    <2>3. SubSeq(q, 1, c) \in Seq(S)
      BY <2>2, SubSeqProperties
    <2> QED
      BY <2>3 DEF c, BatchesBefore
  <1>5. BatchesAfter(q, id) \in Seq(S)
    <2> DEFINE c == Cardinality({i \in DOMAIN q : q[i].id <= id})
    <2>1. c \in 0 .. Len(q)
      BY <1>3
    <2> HIDE DEF c
    <2>2. /\ c + 1 \in Int /\ Len(q) \in Int
          /\ \A i \in c + 1 .. Len(q) : q[i] \in S
      BY <1>1, <2>1
    <2>3. SubSeq(q, c + 1, Len(q)) \in Seq(S)
      BY <2>2, SubSeqProperties
    <2> QED
      BY <2>3 DEF c, BatchesAfter
  <1> QED
    BY <1>3, <1>4, <1>5

(* The batches after the k-th one of a queue in order: those behind it.    *)
LEMMA RowsAfter ==
    ASSUME NEW q \in Seq(Batch), InOrder(q), NEW k \in 0 .. Len(q), NEW id,
           id = IF k = 0 THEN 0 ELSE q[k].id
    PROVE  BatchesAfter(q, id) = SubSeq(q, k + 1, Len(q))
  <1>1. /\ Len(q) \in Nat /\ DOMAIN q = 1 .. Len(q)
        /\ \A i \in 1 .. Len(q) : q[i].id \in Nat \ {0}
    BY BatchesOfQueue
  <1>2. {i \in DOMAIN q : q[i].id <= id} = 1 .. k
    <2>1. CASE k = 0
      BY <1>1, <2>1
    <2>2. CASE k # 0
      <3>1. ASSUME NEW i \in 1 .. Len(q)
            PROVE  q[i].id <= id <=> i <= k
        BY <1>1, <2>2 DEF InOrder
      <3> QED
        BY <1>1, <3>1
    <2> QED
      BY <2>1, <2>2
  <1>3. Cardinality(1 .. k) = k
    BY <1>1, CountUpTo
  <1> QED
    BY <1>2, <1>3 DEF BatchesAfter

LEMMA RowsBefore ==
    ASSUME NEW q \in Seq(Batch), InOrder(q), NEW k \in 0 .. Len(q), NEW id,
           \A i \in 1 .. Len(q) : q[i].id < id <=> i <= k
    PROVE  BatchesBefore(q, id) = SubSeq(q, 1, k)
  <1>1. Len(q) \in Nat /\ DOMAIN q = 1 .. Len(q)
    BY LenProperties
  <1>2. {i \in DOMAIN q : q[i].id < id} = 1 .. k
    BY <1>1
  <1>3. Cardinality(1 .. k) = k
    BY <1>1, CountUpTo
  <1> QED
    BY <1>2, <1>3 DEF BatchesBefore

(* A batch with a new id goes to the end of the queue.                     *)
LEMMA AddedAtTheEnd ==
    ASSUME NEW q \in Seq(Batch), InOrder(q), NEW b \in Batch,
           \A i \in DOMAIN q : q[i].id < b.id
    PROVE  AddMutationBatch(q, b) = Append(q, b)
  <1>1. /\ Len(q) \in Nat /\ DOMAIN q = 1 .. Len(q)
        /\ \A i \in 1 .. Len(q) : q[i].id \in Nat \ {0}
        /\ b.id \in Nat
    BY BatchesOfQueue DEF Batch
  <1>2. BatchesBefore(q, b.id) = q
    <2>1. /\ Len(q) \in 0 .. Len(q)
          /\ \A i \in 1 .. Len(q) : q[i].id < b.id <=> i <= Len(q)
      BY <1>1
    <2>2. BatchesBefore(q, b.id) = SubSeq(q, 1, Len(q))
      BY <2>1, RowsBefore
    <2> QED
      BY <2>2, SubSeqFull
  <1>3. BatchesAfter(q, b.id) = << >>
    <2>1. {i \in DOMAIN q : q[i].id <= b.id} = 1 .. Len(q)
      BY <1>1
    <2>2. Cardinality(1 .. Len(q)) = Len(q)
      BY <1>1, CountUpTo
    <2>3. BatchesAfter(q, b.id) = SubSeq(q, Len(q) + 1, Len(q))
      BY <2>1, <2>2 DEF BatchesAfter
    <2> QED
      BY <1>1, <2>3, SubSeqEmpty
  <1>4. q \o <<b>> \o << >> = q \o <<b>>
    <2>1. <<b>> \in Seq(Batch)
      OBVIOUS
    <2> QED
      BY <2>1, ConcatProperties, ConcatEmptySeq
  <1> QED
    BY <1>2, <1>3, <1>4, AppendIsConcat DEF AddMutationBatch

(* The front batch leaves the rest of the queue as it is.                  *)
LEMMA FrontRemoved ==
    ASSUME NEW q \in Seq(Batch), InOrder(q), q # << >>
    PROVE  RemoveMutationBatch(q, Head(q)) = Tail(q)
  <1>1. /\ Len(q) \in Nat \ {0} /\ DOMAIN q = 1 .. Len(q)
        /\ Head(q) = q[1]
        /\ \A i \in 1 .. Len(q) : q[i].id \in Nat \ {0}
    BY BatchesOfQueue, EmptySeq
  <1>2. BatchesBefore(q, q[1].id) = << >>
    <2>1. \A i \in 1 .. Len(q) : q[i].id < q[1].id <=> i <= 0
      BY <1>1 DEF InOrder
    <2>2. BatchesBefore(q, q[1].id) = SubSeq(q, 1, 0)
      BY <1>1, <2>1, RowsBefore
    <2> QED
      BY <2>2, SubSeqEmpty
  <1>3. BatchesAfter(q, q[1].id) = Tail(q)
    <2>1. BatchesAfter(q, q[1].id) = SubSeq(q, 2, Len(q))
      <3>1. 1 \in 0 .. Len(q) /\ 1 # 0 /\ 1 + 1 = 2
        BY <1>1
      <3> QED
        BY <3>1, RowsAfter
    <2> QED
      BY <2>1, TailIsSubSeq
  <1>4. Tail(q) \in Seq(Batch)
    BY HeadTailProperties
  <1> QED
    BY <1>1, <1>2, <1>3, <1>4, ConcatEmptySeq DEF RemoveMutationBatch

-----------------------------------------------------------------------------
(* The stream.                                                             *)

LEMMA StreamStarts ==
    ASSUME NEW s \in StreamState, TimersFindTheirState(s), ~IsStarted(s)
    PROVE  /\ Start(s) \in StreamState /\ TimersFindTheirState(Start(s))
           /\ IsStarted(Start(s)) /\ ~IsOpen(Start(s)) /\ ~Start(s).idle
           /\ Start(s).handshake = s.handshake
  <1>1. CASE s.state = "Error"
    BY <1>1 DEF StreamState, TimersFindTheirState, IsStarted, IsOpen, Start
  <1>2. CASE s.state # "Error"
    BY <1>2 DEF StreamState, TimersFindTheirState, IsStarted, IsOpen, Start,
       StartNow
  <1> QED
    BY <1>1, <1>2

LEMMA StreamCloses ==
    ASSUME NEW state \in {"Initial", "Error"}, NEW s
    PROVE  /\ Close(s, state) \in StreamState
           /\ TimersFindTheirState(Close(s, state))
           /\ ~IsStarted(Close(s, state)) /\ ~IsOpen(Close(s, state))
           /\ ~Close(s, state).handshake /\ ~Close(s, state).idle
           /\ Close(s, "Initial") = IdleStream
  <1>1. /\ IdleStream \in StreamState /\ IdleStream.state = "Initial"
        /\ ~IdleStream.handshake /\ ~IdleStream.credentials
        /\ ~IdleStream.retry /\ ~IdleStream.idle
    BY DEF IdleStream, StreamState
  <1>2. /\ Close(s, state) \in StreamState /\ Close(s, state).state = state
        /\ ~Close(s, state).handshake /\ ~Close(s, state).credentials
        /\ ~Close(s, state).retry /\ ~Close(s, state).idle
    BY <1>1 DEF Close, StreamState
  <1>3. Close(s, "Initial") = IdleStream
    BY <1>1 DEF Close, StreamState
  <1> QED
    BY <1>2, <1>3 DEF TimersFindTheirState, IsStarted, IsOpen

LEMMA NoWireType == NoWire \in Call
  BY EmptySeq DEF NoWire, Call

(* A closed stream is sound with any pipeline, if the network is enabled.  *)
LEMMA ClosedIsSound ==
    ASSUME NEW p \in Seq(Batch), Len(p) <= kMaxPendingWrites,
           NEW state \in {"Initial", "Error"}, NEW s
    PROVE  /\ Sound(p, Close(s, state), NoWire, TRUE)
           /\ Sound(<< >>, Close(s, state), NoWire, FALSE)
           /\ Sound(<< >>, IdleStream, NoWire, TRUE)
           /\ Sound(<< >>, IdleStream, NoWire, FALSE)
  <1>1. << >> \in Seq(Batch) /\ Len(<< >>) = 0
    BY EmptySeq
  <1>2. 0 <= kMaxPendingWrites
    BY WritePipelineAssumption
  <1> QED
    BY <1>1, <1>2, StreamCloses, NoWireType DEF Sound

-----------------------------------------------------------------------------
(* Filling the pipeline.                                                   *)

LEMMA MoreBatches ==
    ASSUME NEW p \in Seq(Batch), Len(p) <= kMaxPendingWrites,
           queue'[user'] \in Seq(Batch), enabled' \in BOOLEAN
    PROVE  /\ Room(p) \in Nat
           /\ NextBatches(p) \in Seq(Batch)
           /\ p \o NextBatches(p) \in Seq(Batch)
           /\ Len(p \o NextBatches(p)) <= kMaxPendingWrites
           /\ p \o NextBatches(p) = << >> => p = << >> /\ NextBatches(p) = << >>
           /\ ~enabled' => NextBatches(p) = << >>
  <1> DEFINE last == IF p = << >> THEN 0 ELSE Last(p).id
             rest == BatchesAfter(queue'[user'], last)
             more == NextBatches(p)
  <1>1. Room(p) \in Nat /\ Len(p) + Room(p) <= kMaxPendingWrites
    BY LenProperties, WritePipelineAssumption DEF Room
  <1>2. rest \in Seq(Batch)
    BY Rows
  <1>3. more = FirstOf(rest, Room(p))
    BY DEF NextBatches
  <1> HIDE DEF last, rest, more
  <1>4. /\ more \in Seq(Batch)
        /\ Len(more) = IF Room(p) <= Len(rest) THEN Room(p) ELSE Len(rest)
    BY <1>1, <1>2, <1>3, FirstOfProperties
  <1>5. Len(rest) \in Nat /\ Len(more) \in Nat /\ Len(p) \in Nat
    BY <1>2, <1>4, LenProperties
  <1>6. /\ p \o more \in Seq(Batch) /\ Len(p \o more) = Len(p) + Len(more)
        /\ p \o more = << >> => p = << >> /\ more = << >>
    <2>1. p \o more \in Seq(Batch) /\ Len(p \o more) = Len(p) + Len(more)
      BY <1>4, ConcatProperties
    <2>2. p \o more = << >> <=> p = << >> /\ more = << >>
      BY <1>4, ConcatEqualIffEmpty
    <2> QED
      BY <2>1, <2>2
  <1>7. Len(p \o more) <= kMaxPendingWrites
    BY <1>1, <1>4, <1>5, <1>6, WritePipelineAssumption
  <1>8. ASSUME ~enabled'
        PROVE  more = << >>
    <2>1. Room(p) = 0
      BY <1>8 DEF Room
    <2>2. Len(more) = 0
      BY <1>4, <1>5, <2>1
    <2> QED
      BY <1>4, <2>2, EmptySeq
  <1> QED
    BY <1>1, <1>4, <1>6, <1>7, <1>8 DEF more

LEMMA FillIsSound ==
    ASSUME NEW p, NEW s, NEW w, enabled' \in BOOLEAN,
           Sound(p, s, w, enabled'), queue'[user'] \in Seq(Batch),
           FillWritePipeline(p, s, w)
    PROVE  /\ Sound(pipeline', stream', wire', enabled')
           /\ pipeline' # << >> => IsStarted(stream')
           /\ pipeline' = p \o NextBatches(p)
           /\ stream'.handshake = s.handshake
           /\ wire' = IF s.handshake THEN [w EXCEPT !.up = @ \o NextBatches(p)]
                                     ELSE w
  <1> DEFINE more == NextBatches(p)
             full == p \o more
             sends == IsOpen(s) /\ s.handshake
             quiet == enabled' /\ full = << >> /\ IsOpen(s)
             s1 == [s EXCEPT !.idle =
                                quiet \/ (@ /\ ~(sends /\ more # << >>))]
  <1>1. /\ pipeline' = full
        /\ wire' = IF sends THEN [w EXCEPT !.up = @ \o more] ELSE w
        /\ stream' = IF ShouldStartWriteStream(full, s1) THEN Start(s1) ELSE s1
    BY Zenon DEF FillWritePipeline
  <1>2. /\ more \in Seq(Batch) /\ full \in Seq(Batch)
        /\ Len(full) <= kMaxPendingWrites
        /\ full = << >> => p = << >> /\ more = << >>
        /\ ~enabled' => more = << >>
    BY MoreBatches DEF Sound
  <1>3. /\ s1 \in StreamState /\ s1.state = s.state
        /\ s1.handshake = s.handshake
        /\ s1.credentials = s.credentials /\ s1.retry = s.retry
        /\ s1.idle <=> quiet \/ (s.idle /\ ~(sends /\ more # << >>))
    <2> HIDE DEF quiet, sends, more
    <2>1. s \in StreamState
      BY DEF Sound
    <2> QED
      BY <2>1 DEF StreamState
  <1>4. s.handshake <=> sends
    BY DEF Sound
  <1>5. wire' \in Call /\ (~IsOpen(s) => wire' = NoWire)
    <2>1. more \in Seq(Batch \cup {Hello})
      BY <1>2, SeqMonotonic
    <2>2. w \in Call /\ w.up \in Seq(Batch \cup {Hello})
      BY DEF Sound, Call
    <2>3. w.up \o more \in Seq(Batch \cup {Hello})
      BY <2>1, <2>2, ConcatProperties
    <2>4. [w EXCEPT !.up = @ \o more] \in Call
      BY <2>2, <2>3 DEF Call
    <2>5. ~IsOpen(s) => w = NoWire
      BY DEF Sound
    <2> QED
      BY <1>1, <2>2, <2>4, <2>5
  <1>6. s1.idle => s1.handshake /\ full = << >>
    <2>1. quiet => s.handshake
      BY <1>2 DEF Sound, IsStarted, IsOpen
    <2>2. s.idle /\ ~(sends /\ more # << >>) => more = << >> /\ p = << >>
      BY <1>4 DEF Sound
    <2>3. << >> \o << >> = << >>
      BY EmptySeq, ConcatEmptySeq
    <2> QED
      BY <1>3, <2>1, <2>2, <2>3 DEF Sound
  <1>7. /\ IsOpen(s1) <=> IsOpen(s)
        /\ IsStarted(s1) <=> IsStarted(s)
        /\ TimersFindTheirState(s1)
    <2>1. s1.idle => s1.state = "Open"
      BY <1>3 DEF Sound, TimersFindTheirState, IsOpen
    <2> QED
      BY <1>3, <2>1 DEF Sound, TimersFindTheirState, IsOpen, IsStarted
  <1> HIDE DEF more, full, s1, sends
  <1>8. CASE ShouldStartWriteStream(full, s1)
    <2>1. stream' = Start(s1) /\ ~IsStarted(s1) /\ enabled' /\ full # << >>
      BY <1>1, <1>8 DEF ShouldStartWriteStream
    <2>2. ~IsOpen(s) /\ ~s.handshake /\ ~sends
      BY <1>4, <1>7, <2>1 DEF IsStarted, IsOpen, Sound
    <2>3. /\ stream' \in StreamState /\ TimersFindTheirState(stream')
          /\ IsStarted(stream') /\ ~IsOpen(stream') /\ ~stream'.idle
          /\ ~stream'.handshake /\ stream'.handshake = s.handshake
      BY <1>3, <1>7, <2>1, <2>2, StreamStarts
    <2> QED
      BY <1>1, <1>2, <1>5, <2>1, <2>2, <2>3 DEF Sound, full, more, sends
  <1>9. CASE ~ShouldStartWriteStream(full, s1)
    <2>1. stream' = s1 /\ (enabled' /\ full # << >> => IsStarted(s1))
      BY <1>1, <1>9 DEF ShouldStartWriteStream
    <2>2. ~enabled' => full = << >> /\ ~IsStarted(s1)
      <3>1. << >> \o << >> = << >>
        BY EmptySeq, ConcatEmptySeq
      <3> QED
        BY <1>2, <1>7, <3>1 DEF Sound, full
    <2>3. s1.handshake => IsOpen(s1)
      BY <1>3, <1>7 DEF Sound
    <2>4. IsStarted(s1) /\ ~s1.handshake => full # << >>
      BY <1>2, <1>3, <1>7 DEF Sound
    <2>5. Sound(full, s1, wire', enabled')
      BY <1>2, <1>3, <1>5, <1>6, <1>7, <2>2, <2>3, <2>4 DEF Sound
    <2> QED
      BY <1>1, <1>3, <1>4, <2>1, <2>2, <2>5 DEF full, more
  <1> QED
    BY <1>8, <1>9

(* A pipeline that is the front of the queue is filled up to be as much of *)
(* it as there is room for.                                                *)
LEMMA FillFollowsQueue ==
    ASSUME NEW p \in Seq(Batch), Len(p) <= kMaxPendingWrites,
           queue'[user'] \in Seq(Batch), InOrder(queue'[user']),
           Len(p) <= Len(queue'[user']),
           \A i \in 1 .. Len(p) : p[i] = queue'[user'][i],
           enabled'
    PROVE  p \o NextBatches(p) = FirstOf(queue'[user'], kMaxPendingWrites)
  <1> DEFINE q == queue'[user']
             k == Len(p)
             last == IF p = << >> THEN 0 ELSE Last(p).id
             rest == BatchesAfter(q, last)
             more == NextBatches(p)
             full == FirstOf(q, kMaxPendingWrites)
  <1>1. /\ k \in 0 .. Len(q) /\ k \in Nat /\ Len(q) \in Nat
        /\ p = << >> <=> k = 0
        /\ kMaxPendingWrites \in Nat /\ k <= kMaxPendingWrites
    BY LenProperties, EmptySeq, WritePipelineAssumption
  <1>2. last = IF k = 0 THEN 0 ELSE q[k].id
    BY <1>1 DEF Last
  <1>3. more = FirstOf(rest, kMaxPendingWrites - k)
    BY DEF NextBatches, Room
  <1> HIDE DEF last, more
  <1>4. rest = SubSeq(q, k + 1, Len(q))
    BY <1>1, <1>2, RowsAfter
  <1>5. /\ rest \in Seq(Batch) /\ Len(rest) = Len(q) - k
        /\ \A i \in 1 .. Len(q) - k : rest[i] = q[k + i]
    <2>1. k + 1 \in Int /\ Len(q) \in Int
      BY <1>1
    <2>2. \A i \in k + 1 .. Len(q) : q[i] \in Batch
      BY <1>1, BatchesOfQueue
    <2>3. /\ SubSeq(q, k + 1, Len(q)) \in Seq(Batch)
          /\ Len(SubSeq(q, k + 1, Len(q))) =
                IF k + 1 <= Len(q) THEN Len(q) - (k + 1) + 1 ELSE 0
          /\ \A i \in 1 .. Len(q) - (k + 1) + 1 :
                SubSeq(q, k + 1, Len(q))[i] = q[k + 1 + i - 1]
      BY <2>1, <2>2, SubSeqProperties
    <2> QED
      BY <1>1, <1>4, <2>3
  <1> HIDE DEF q, k, rest, full
  <1>6. kMaxPendingWrites - k \in Nat
    BY <1>1
  <1>7. /\ more \in Seq(Batch)
        /\ Len(more) = IF kMaxPendingWrites - k <= Len(rest)
                       THEN kMaxPendingWrites - k ELSE Len(rest)
        /\ \A i \in 1 .. Len(more) : more[i] = rest[i]
    BY <1>3, <1>5, <1>6, FirstOfProperties
  <1>8. /\ full \in Seq(Batch)
        /\ Len(full) = IF kMaxPendingWrites <= Len(q) THEN kMaxPendingWrites
                                                      ELSE Len(q)
        /\ \A i \in 1 .. Len(full) : full[i] = q[i]
    BY <1>1, FirstOfProperties DEF full, q
  <1>9. /\ p \o more \in Seq(Batch) /\ Len(p \o more) = k + Len(more)
        /\ \A i \in 1 .. k + Len(more) :
              (p \o more)[i] = IF i <= k THEN p[i] ELSE more[i - k]
    <2>1. more \in Seq(Batch)
      BY <1>7
    <2>2. /\ p \o more \in Seq(Batch) /\ Len(p \o more) = Len(p) + Len(more)
          /\ \A i \in 1 .. Len(p) + Len(more) :
                (p \o more)[i] = IF i <= Len(p) THEN p[i] ELSE more[i - Len(p)]
      BY <2>1, ConcatProperties
    <2> QED
      BY <2>2 DEF k
  <1>10. Len(p \o more) = Len(full)
    BY <1>1, <1>5, <1>7, <1>8, <1>9
  <1>11. ASSUME NEW i \in 1 .. Len(p \o more)
         PROVE  (p \o more)[i] = full[i]
    <2>1. full[i] = q[i]
      BY <1>8, <1>10
    <2>2. Len(more) \in Nat /\ Len(more) <= Len(q) - k
      BY <1>1, <1>5, <1>7
    <2>3. CASE i <= k
      BY <1>1, <1>9, <2>1, <2>2, <2>3 DEF k, q
    <2>4. CASE i > k
      <3>1. i - k \in 1 .. Len(more) /\ i \in 1 .. k + Len(more) /\ ~(i <= k)
        BY <1>1, <1>9, <2>2, <2>4
      <3>2. (p \o more)[i] = more[i - k] /\ more[i - k] = rest[i - k]
        BY <1>7, <1>9, <3>1
      <3>3. rest[i - k] = q[k + (i - k)] /\ k + (i - k) = i
        BY <1>1, <1>5, <2>2, <3>1
      <3> QED
        BY <2>1, <3>2, <3>3
    <2> QED
      BY <1>1, <2>3, <2>4
  <1>12. p \o more = full
    BY <1>8, <1>9, <1>10, <1>11, SeqEqual
  <1> QED
    BY <1>12 DEF more, full, q

-----------------------------------------------------------------------------
(* Batch ids.                                                              *)

(* A set of naturals below n has a greatest: counting up from each member  *)
(* and those below them would else put a finite set into a part of itself. *)
LEMMA Greatest ==
    ASSUME NEW S \in SUBSET Nat, S # {}, NEW n \in Nat, \A x \in S : x < n
    PROVE  Max(S) \in S /\ \A x \in S : x <= Max(S)
  <1>1. \E m \in S : \A x \in S : x <= m
    <2> SUFFICES ASSUME \A m \in S : \E x \in S : m < x
                 PROVE  FALSE
      OBVIOUS
    <2> DEFINE U == {k \in 0 .. n : \E x \in S : k <= x}
               f == [k \in U |-> k + 1]
    <2>1. IsFiniteSet(U) /\ 0 \in U
      <3>1. IsFiniteSet(0 .. n)
        BY FS_Interval
      <3>2. U \in SUBSET (0 .. n)
        OBVIOUS
      <3>3. IsFiniteSet(U)
        BY <3>1, <3>2, FS_Subset
      <3>4. PICK x \in S : TRUE
        OBVIOUS
      <3>5. x \in Nat /\ 0 <= x
        BY <3>4
      <3> QED
        BY <3>3, <3>5
    <2>2. \A k \in U : k \in Nat /\ k + 1 \in U \ {0}
      <3> SUFFICES ASSUME NEW k \in U
                   PROVE  k + 1 \in U \ {0}
        OBVIOUS
      <3>1. PICK x \in S : k <= x
        OBVIOUS
      <3>2. PICK y \in S : x < y
        OBVIOUS
      <3> QED
        BY <3>1, <3>2
    <2> HIDE DEF U
    <2>3. f \in Injection(U, U \ {0})
      BY <2>2 DEF Injection, IsInjective
    <2>4. /\ IsFiniteSet(U \ {0})
          /\ Cardinality(U \ {0}) = Cardinality(U) - 1
      BY <2>1, FS_RemoveElement
    <2>5. Cardinality(U) <= Cardinality(U \ {0})
      BY <2>3, <2>4, FS_Injection
    <2> QED
      BY <2>1, <2>4, <2>5, FS_CardinalityType
  <1>2. \A m \in S : (\A x \in S : m >= x) <=> (\A x \in S : x <= m)
    OBVIOUS
  <1> QED
    BY <1>1, <1>2 DEF Max

StoreTypes ==
    /\ running \in BOOLEAN /\ enabled \in BOOLEAN /\ calm \in BOOLEAN
    /\ user \in User
    /\ queue \in [User -> Seq(Batch)]
    /\ nextBatchId \in Nat \ {0}
    /\ callbacks \in [User -> SUBSET Batch]
    /\ committed \subseteq Write
    /\ doc \in [User -> Write \cup {0}]
    /\ issued \in [User -> SUBSET Write]
    /\ told \in [Write -> {"nothing", "done", "refused"}]

(* An id that is loaded is the id of no batch in LevelDB, of any user.     *)
LEMMA LoadedIdIsNew ==
    ASSUME StoreTypes, QueuesInOrder
    PROVE  /\ LoadNextBatchId(queue) \in Nat \ {0}
           /\ \A u \in User : \A i \in DOMAIN queue[u] :
                 queue[u][i].id < LoadNextBatchId(queue)
  <1> DEFINE ids == UNION {{b.id : b \in ToSet(queue[u])} : u \in User}
  <1>1. \A u \in User : \A i \in DOMAIN queue[u] :
            /\ queue[u][i].id \in Nat \ {0}
            /\ queue[u][i].id < nextBatchId
    BY BatchesOfQueue DEF StoreTypes, QueuesInOrder
  <1>2. \A u \in User : \A i \in DOMAIN queue[u] : queue[u][i].id \in ids
    BY DEF ToSet
  <1>3. \A x \in ids : \E u \in User : \E i \in DOMAIN queue[u] :
            x = queue[u][i].id
    BY DEF ToSet
  <1>4. LoadNextBatchId(queue) = IF ids = {} THEN 1 ELSE Max(ids) + 1
    BY DEF LoadNextBatchId
  <1> HIDE DEF ids
  <1>5. \A x \in ids : x \in Nat \ {0} /\ x < nextBatchId
    BY <1>1, <1>3
  <1>6. CASE ids = {}
    BY <1>2, <1>4, <1>6
  <1>7. CASE ids # {}
    <2>1. ids \in SUBSET Nat /\ nextBatchId \in Nat
      BY <1>5 DEF StoreTypes
    <2>2. Max(ids) \in ids /\ \A x \in ids : x <= Max(ids)
      BY <1>5, <1>7, <2>1, Greatest
    <2> DEFINE m == Max(ids)
    <2> HIDE DEF m
    <2>3. m + 1 \in Nat \ {0} /\ \A x \in ids : x < m + 1
      <3>1. m \in Nat
        BY <1>5, <2>2 DEF m
      <3>2. \A x \in ids : x \in Nat /\ x <= m
        BY <1>5, <2>2 DEF m
      <3> QED
        BY <3>1, <3>2
    <2> QED
      BY <1>2, <1>4, <1>7, <2>3 DEF m
  <1> QED
    BY <1>6, <1>7

-----------------------------------------------------------------------------
(* The pipeline and the queue.                                             *)

DeadKeepsNothing ==
    ~running => pipeline = << >> /\ stream = IdleStream /\ wire = NoWire

PipelineInv ==
    /\ StoreTypes /\ QueuesInOrder /\ StreamInv /\ PipelineIsQueueFront
    /\ pipeline # << >> => IsStarted(stream)
    /\ DeadKeepsNothing

LEMMA TypesHold == PipelineInv => TypeOK
  BY DEF PipelineInv, StoreTypes, StreamInv, Sound, Call, DeadKeepsNothing,
     TypeOK

(* The pipeline is batch by batch the front of the queue.                  *)
LEMMA PipelineInQueue ==
    ASSUME PipelineInv, pipeline # << >>
    PROVE  /\ running /\ enabled /\ pipeline \in Seq(Batch)
           /\ queue[user] \in Seq(Batch) /\ Len(queue[user]) \in Nat
           /\ Len(pipeline) \in Nat \ {0} /\ Len(pipeline) <= Len(queue[user])
           /\ \A i \in 1 .. Len(pipeline) : pipeline[i] = queue[user][i]
  <1> DEFINE q == queue[user]
  <1>1. /\ running /\ enabled /\ q \in Seq(Batch) /\ pipeline \in Seq(Batch)
        /\ pipeline = FirstOf(q, kMaxPendingWrites)
        /\ kMaxPendingWrites \in Nat
    BY WritePipelineAssumption DEF PipelineInv, StreamInv, Sound, StoreTypes,
       DeadKeepsNothing, PipelineIsQueueFront
  <1> HIDE DEF q
  <1>2. /\ Len(q) \in Nat /\ Len(pipeline) \in Nat \ {0}
        /\ Len(pipeline) <= Len(q)
        /\ \A i \in 1 .. Len(pipeline) : pipeline[i] = q[i]
    BY <1>1, EmptySeq, LenProperties, FirstOfProperties
  <1> QED
    BY <1>1, <1>2 DEF q

(* The front of the pipeline is that of the queue, and the rest of it that *)
(* of the rest.                                                            *)
LEMMA FrontOfPipeline ==
    ASSUME PipelineInv, pipeline # << >>
    PROVE  /\ running /\ enabled
           /\ queue[user] \in Seq(Batch) /\ queue[user] # << >>
           /\ Head(pipeline) = Head(queue[user]) /\ Head(pipeline) \in Batch
           /\ Tail(pipeline) \in Seq(Batch)
           /\ Len(Tail(pipeline)) <= kMaxPendingWrites
           /\ Tail(queue[user]) \in Seq(Batch)
           /\ Len(Tail(pipeline)) <= Len(Tail(queue[user]))
           /\ \A i \in 1 .. Len(Tail(pipeline)) :
                 Tail(pipeline)[i] = Tail(queue[user])[i]
  <1> DEFINE q == queue[user]
  <1>1. /\ running /\ enabled /\ q \in Seq(Batch) /\ pipeline \in Seq(Batch)
        /\ Len(pipeline) <= kMaxPendingWrites
        /\ kMaxPendingWrites \in Nat
    BY PipelineInQueue, WritePipelineAssumption DEF PipelineInv, StreamInv,
       Sound
  <1>2. /\ Len(q) \in Nat /\ Len(pipeline) \in Nat \ {0}
        /\ Len(pipeline) <= Len(q)
        /\ \A i \in 1 .. Len(pipeline) : pipeline[i] = q[i]
    BY PipelineInQueue
  <1> HIDE DEF q
  <1>3. q # << >>
    BY <1>1, <1>2, EmptySeq
  <1>4. /\ Tail(q) \in Seq(Batch) /\ Len(Tail(q)) = Len(q) - 1
        /\ \A i \in 1 .. Len(Tail(q)) : Tail(q)[i] = q[i + 1]
    BY <1>1, <1>3, HeadTailProperties
  <1>5. /\ Tail(pipeline) \in Seq(Batch) /\ Head(pipeline) \in Batch
        /\ Len(Tail(pipeline)) = Len(pipeline) - 1
        /\ \A i \in 1 .. Len(Tail(pipeline)) :
              Tail(pipeline)[i] = pipeline[i + 1]
    BY <1>1, HeadTailProperties
  <1>6. Head(pipeline) = pipeline[1] /\ Head(q) = q[1]
    BY <1>1, <1>3
  <1>7. Head(pipeline) = Head(q)
    BY <1>2, <1>6
  <1>8. ASSUME NEW i \in 1 .. Len(Tail(pipeline))
        PROVE  Tail(pipeline)[i] = Tail(q)[i]
    <2>1. i + 1 \in 1 .. Len(pipeline) /\ i \in 1 .. Len(Tail(q))
      BY <1>2, <1>4, <1>5
    <2> QED
      BY <1>2, <1>4, <1>5, <2>1
  <1>9. /\ Len(Tail(pipeline)) <= kMaxPendingWrites
        /\ Len(Tail(pipeline)) <= Len(Tail(q))
    BY <1>1, <1>2, <1>4, <1>5
  <1> QED
    BY <1>1, <1>3, <1>4, <1>5, <1>7, <1>8, <1>9 DEF q

LEMMA TailInOrder ==
    ASSUME NEW q \in Seq(Batch), InOrder(q), q # << >>
    PROVE  /\ Tail(q) \in Seq(Batch) /\ InOrder(Tail(q))
           /\ \A i \in DOMAIN Tail(q) : i + 1 \in DOMAIN q
                                        /\ Tail(q)[i] = q[i + 1]
  <1>1. /\ Tail(q) \in Seq(Batch) /\ Len(Tail(q)) = Len(q) - 1
        /\ \A i \in 1 .. Len(Tail(q)) : Tail(q)[i] = q[i + 1]
    BY HeadTailProperties
  <1>2. /\ Len(q) \in Nat \ {0} /\ DOMAIN q = 1 .. Len(q)
        /\ DOMAIN Tail(q) = 1 .. Len(Tail(q))
    BY <1>1, LenProperties, EmptySeq
  <1>3. \A i \in DOMAIN Tail(q) : i + 1 \in DOMAIN q /\ Tail(q)[i] = q[i + 1]
    BY <1>1, <1>2
  <1>4. InOrder(Tail(q))
    <2> SUFFICES ASSUME NEW i \in DOMAIN Tail(q), NEW j \in DOMAIN Tail(q),
                        i < j
                 PROVE  Tail(q)[i].id < Tail(q)[j].id
      BY DEF InOrder
    <2>1. i + 1 < j + 1
      BY <1>2
    <2> QED
      BY <1>3, <2>1 DEF InOrder
  <1> QED
    BY <1>1, <1>3, <1>4

(* The front of the pipeline settles: it leaves the queue.                 *)
LEMMA SettlesFront ==
    ASSUME PipelineInv, pipeline # << >>, NEW what \in {"done", "refused"},
           Settles(Head(pipeline), what)
    PROVE  /\ queue' = [queue EXCEPT ![user] = Tail(queue[user])]
           /\ queue' \in [User -> Seq(Batch)]
           /\ callbacks' \in [User -> SUBSET Batch]
           /\ told' \in [Write -> {"nothing", "done", "refused"}]
           /\ \A u \in User : InOrder(queue'[u])
           /\ \A u \in User : \A i \in DOMAIN queue'[u] :
                 \E j \in DOMAIN queue[u] : queue'[u][i] = queue[u][j]
  <1> DEFINE b == Head(pipeline)
  <1>1. /\ user \in User /\ queue \in [User -> Seq(Batch)]
        /\ \A u \in User : InOrder(queue[u])
        /\ callbacks \in [User -> SUBSET Batch]
        /\ told \in [Write -> {"nothing", "done", "refused"}]
    BY DEF PipelineInv, StoreTypes, QueuesInOrder
  <1>2. queue[user] # << >> /\ b = Head(queue[user])
    BY FrontOfPipeline
  <1>3. queue' = [queue EXCEPT ![user] = Tail(queue[user])]
    <2>1. queue' = [queue EXCEPT ![user] =
                       RemoveMutationBatch(queue[user], b)]
      BY DEF Settles
    <2>2. RemoveMutationBatch(queue[user], b) = Tail(queue[user])
      BY <1>1, <1>2, FrontRemoved
    <2> QED
      BY <2>1, <2>2
  <1>4. /\ Tail(queue[user]) \in Seq(Batch) /\ InOrder(Tail(queue[user]))
        /\ \A i \in DOMAIN Tail(queue[user]) :
              \E j \in DOMAIN queue[user] : Tail(queue[user])[i] = queue[user][j]
    <2>1. queue[user] \in Seq(Batch) /\ InOrder(queue[user])
      BY <1>1
    <2> QED
      BY <1>2, <2>1, TailInOrder
  <1>5. callbacks' \in [User -> SUBSET Batch]
    <2>1. {c \in callbacks[user] : c.id # b.id} \in SUBSET Batch
      BY <1>1
    <2>2. callbacks' = [callbacks EXCEPT ![user] =
                           {c \in callbacks[user] : c.id # b.id}]
      BY DEF Settles
    <2> QED
      BY <1>1, <2>1, <2>2
  <1>6. told' \in [Write -> {"nothing", "done", "refused"}]
    <2>1. \A c \in callbacks[user] : c.write \in Write
      BY <1>1 DEF Batch
    <2> QED
      BY <1>1, <2>1 DEF Settles, Tells
  <1>7. \A u \in User : queue'[u] = IF u = user THEN Tail(queue[user])
                                                ELSE queue[u]
    BY <1>1, <1>3
  <1>8. queue' \in [User -> Seq(Batch)]
    BY <1>1, <1>3, <1>4
  <1>9. \A u \in User : InOrder(queue'[u])
    BY <1>1, <1>4, <1>7
  <1>10. ASSUME NEW u \in User, NEW i \in DOMAIN queue'[u]
         PROVE  \E j \in DOMAIN queue[u] : queue'[u][i] = queue[u][j]
    BY <1>4, <1>7
  <1> QED
    BY <1>3, <1>5, <1>6, <1>8, <1>9, <1>10

(* What a handler that fills the pipeline has to see to.                   *)
LEMMA FillRestores ==
    ASSUME running', StoreTypes', QueuesInOrder',
           NEW p, NEW s, NEW w, Sound(p, s, w, enabled'),
           Len(p) <= Len(queue'[user']),
           \A i \in 1 .. Len(p) : p[i] = queue'[user'][i],
           FillWritePipeline(p, s, w)
    PROVE  PipelineInv'
  <1>1. /\ enabled' \in BOOLEAN /\ queue'[user'] \in Seq(Batch)
        /\ InOrder(queue'[user'])
    BY DEF StoreTypes, QueuesInOrder
  <1>2. /\ Sound(pipeline', stream', wire', enabled')
        /\ pipeline' # << >> => IsStarted(stream')
        /\ pipeline' = p \o NextBatches(p)
    BY <1>1, FillIsSound
  <1>3. ~enabled' => pipeline' = << >>
    BY <1>2 DEF Sound
  <1>4. enabled' => pipeline' = FirstOf(queue'[user'], kMaxPendingWrites)
    BY <1>1, <1>2, FillFollowsQueue DEF Sound
  <1> QED
    BY <1>2, <1>3, <1>4 DEF PipelineInv, StreamInv, PipelineIsQueueFront,
       DeadKeepsNothing

LEMMA PipelineInit == Init => PipelineInv
  <1> SUFFICES ASSUME Init
               PROVE  PipelineInv
    OBVIOUS
  <1>1. << >> \in Seq(Batch) /\ Len(<< >>) = 0 /\ DOMAIN << >> = {}
    BY EmptySeq
  <1>2. StoreTypes
    <2>1. queue \in [User -> Seq(Batch)]
      BY <1>1 DEF Init
    <2>2. /\ callbacks \in [User -> SUBSET Batch]
          /\ issued \in [User -> SUBSET Write]
          /\ told \in [Write -> {"nothing", "done", "refused"}]
          /\ doc \in [User -> Write \cup {0}]
      BY DEF Init
    <2>3. /\ running \in BOOLEAN /\ enabled \in BOOLEAN /\ calm \in BOOLEAN
          /\ user \in User /\ committed \subseteq Write
      BY DEF Init
    <2>4. nextBatchId \in Nat \ {0}
      BY DEF Init
    <2> QED
      BY <2>1, <2>2, <2>3, <2>4 DEF StoreTypes
  <1>3. QueuesInOrder
    BY <1>1 DEF Init, QueuesInOrder, InOrder
  <1>4. StreamInv
    <2>1. Len(<< >>) <= kMaxPendingWrites /\ "Initial" \in {"Initial", "Error"}
      BY <1>1, WritePipelineAssumption
    <2>2. Sound(<< >>, IdleStream, NoWire, TRUE)
      BY <1>1, <2>1, ClosedIsSound
    <2> QED
      BY <2>2 DEF Init, StreamInv
  <1>5. PipelineIsQueueFront
    <2>1. FirstOf(<< >>, kMaxPendingWrites) = << >>
      <3>1. /\ FirstOf(<< >>, kMaxPendingWrites) \in Seq(Batch)
            /\ Len(FirstOf(<< >>, kMaxPendingWrites)) =
                  IF kMaxPendingWrites <= Len(<< >>) THEN kMaxPendingWrites
                                                     ELSE Len(<< >>)
        BY <1>1, WritePipelineAssumption, FirstOfProperties
      <3>2. Len(FirstOf(<< >>, kMaxPendingWrites)) = 0
        BY <1>1, <3>1, WritePipelineAssumption
      <3> QED
        BY <3>1, <3>2, EmptySeq
    <2> QED
      BY <2>1 DEF Init, PipelineIsQueueFront
  <1> QED
    BY <1>2, <1>3, <1>4, <1>5 DEF Init, PipelineInv, DeadKeepsNothing

(* A new write gets the next id and goes to the end of the user's queue.   *)
LEMMA WriteAppends ==
    ASSUME PipelineInv, WriteMutations
    PROVE  \E w \in Write :
              LET b == [id |-> nextBatchId, write |-> w] IN
              /\ w = Cardinality(UNION {issued[u] : u \in User}) + 1
              /\ b \in Batch
              /\ queue' = [queue EXCEPT ![user] = Append(queue[user], b)]
              /\ issued' = [issued EXCEPT ![user] = @ \cup {w}]
              /\ callbacks' = [callbacks EXCEPT ![user] =
                                 IF \E c \in @ : c.id = b.id THEN @
                                                             ELSE @ \cup {b}]
              /\ FillWritePipeline(pipeline, stream, wire)
              /\ running /\ nextBatchId' = nextBatchId + 1
              /\ UNCHANGED <<running, user, enabled, committed, doc, told,
                             calm>>
  <1> DEFINE w == Cardinality(UNION {issued[u] : u \in User}) + 1
             b == [id |-> nextBatchId, write |-> w]
  <1>1. /\ w \in Write /\ running
        /\ queue' = [queue EXCEPT ![user] = AddMutationBatch(queue[user], b)]
        /\ nextBatchId' = nextBatchId + 1
        /\ callbacks' = [callbacks EXCEPT ![user] =
                           IF \E c \in @ : c.id = b.id THEN @ ELSE @ \cup {b}]
        /\ issued' = [issued EXCEPT ![user] = @ \cup {w}]
        /\ FillWritePipeline(pipeline, stream, wire)
        /\ UNCHANGED <<running, user, enabled, committed, doc, told, calm>>
    BY Zenon DEF WriteMutations, serverVars
  <1> HIDE DEF w
  <1>2. b \in Batch /\ b.id = nextBatchId
    BY <1>1 DEF PipelineInv, StoreTypes, Batch
  <1>3. /\ queue[user] \in Seq(Batch) /\ InOrder(queue[user])
        /\ \A i \in DOMAIN queue[user] : queue[user][i].id < nextBatchId
    BY DEF PipelineInv, StoreTypes, QueuesInOrder
  <1>4. AddMutationBatch(queue[user], b) = Append(queue[user], b)
    BY <1>2, <1>3, AddedAtTheEnd
  <1> QED
    BY <1>1, <1>2, <1>4 DEF w

LEMMA AppendInOrder ==
    ASSUME NEW q \in Seq(Batch), InOrder(q), NEW b \in Batch, NEW n \in Nat,
           \A i \in DOMAIN q : q[i].id < n, b.id = n
    PROVE  /\ Append(q, b) \in Seq(Batch) /\ InOrder(Append(q, b))
           /\ \A i \in DOMAIN Append(q, b) : Append(q, b)[i].id < n + 1
           /\ Len(q) <= Len(Append(q, b))
           /\ \A i \in 1 .. Len(q) : Append(q, b)[i] = q[i]
  <1>1. /\ Append(q, b) \in Seq(Batch) /\ Len(Append(q, b)) = Len(q) + 1
        /\ \A i \in 1 .. Len(q) : Append(q, b)[i] = q[i]
        /\ Append(q, b)[Len(q) + 1] = b
    BY AppendProperties
  <1>2. /\ Len(q) \in Nat /\ DOMAIN q = 1 .. Len(q)
        /\ \A i \in 1 .. Len(q) : q[i].id \in Nat
        /\ DOMAIN Append(q, b) = 1 .. Len(q) + 1
    BY <1>1, BatchesOfQueue
  <1> DEFINE r == Append(q, b)
  <1> HIDE DEF r
  <1>3. \A i \in 1 .. Len(q) : r[i].id = q[i].id
    BY <1>1 DEF r
  <1>4. r[Len(q) + 1].id = n
    BY <1>1 DEF r
  <1>5. \A i \in 1 .. Len(q) + 1 : i = Len(q) + 1 \/ i \in 1 .. Len(q)
    BY <1>2
  <1>6. \A i \in 1 .. Len(q) + 1 : r[i].id < n + 1
    BY <1>2, <1>3, <1>4, <1>5
  <1>7. ASSUME NEW i \in 1 .. Len(q) + 1, NEW j \in 1 .. Len(q) + 1, i < j
        PROVE  r[i].id < r[j].id
    <2>1. i \in 1 .. Len(q)
      BY <1>2, <1>7
    <2>2. CASE j = Len(q) + 1
      BY <1>2, <1>3, <1>4, <2>1, <2>2
    <2>3. CASE j \in 1 .. Len(q)
      BY <1>2, <1>3, <1>7, <2>1, <2>3 DEF InOrder
    <2> QED
      BY <1>5, <2>2, <2>3
  <1> QED
    BY <1>1, <1>2, <1>6, <1>7 DEF r, InOrder

LEMMA WriteStep ==
    ASSUME PipelineInv, WriteMutations
    PROVE  PipelineInv'
  <1>1. PICK w \in Write :
              LET b == [id |-> nextBatchId, write |-> w] IN
              /\ b \in Batch
              /\ queue' = [queue EXCEPT ![user] = Append(queue[user], b)]
              /\ issued' = [issued EXCEPT ![user] = @ \cup {w}]
              /\ callbacks' = [callbacks EXCEPT ![user] =
                                 IF \E c \in @ : c.id = b.id THEN @
                                                             ELSE @ \cup {b}]
              /\ FillWritePipeline(pipeline, stream, wire)
              /\ running /\ nextBatchId' = nextBatchId + 1
              /\ UNCHANGED <<running, user, enabled, committed, doc, told,
                             calm>>
    BY Zenon, WriteAppends
  <1> DEFINE b == [id |-> nextBatchId, write |-> w]
             q == queue[user]
  <1>2. b \in Batch /\ b.id = nextBatchId /\ nextBatchId \in Nat \ {0}
    BY <1>1 DEF PipelineInv, StoreTypes
  <1> HIDE DEF b
  <1>3. /\ q \in Seq(Batch) /\ InOrder(q) /\ user \in User
        /\ \A i \in DOMAIN q : q[i].id < nextBatchId
        /\ queue \in [User -> Seq(Batch)]
    BY DEF PipelineInv, StoreTypes, QueuesInOrder
  <1>4. /\ Append(q, b) \in Seq(Batch) /\ InOrder(Append(q, b))
        /\ \A i \in DOMAIN Append(q, b) : Append(q, b)[i].id < nextBatchId + 1
        /\ Len(q) <= Len(Append(q, b))
        /\ \A i \in 1 .. Len(q) : Append(q, b)[i] = q[i]
    BY <1>2, <1>3, AppendInOrder
  <1>5. queue' = [queue EXCEPT ![user] = Append(q, b)]
    BY <1>1 DEF b
  <1>6. StoreTypes'
    <2>1. queue' \in [User -> Seq(Batch)]
      BY <1>3, <1>4, <1>5
    <2>2. nextBatchId' \in Nat \ {0}
      BY <1>1, <1>2
    <2>3. callbacks' \in [User -> SUBSET Batch]
      BY <1>1, <1>2 DEF PipelineInv, StoreTypes, b
    <2>4. issued' \in [User -> SUBSET Write]
      BY <1>1 DEF PipelineInv, StoreTypes
    <2> QED
      BY <1>1, <2>1, <2>2, <2>3, <2>4 DEF PipelineInv, StoreTypes
  <1>7. QueuesInOrder'
    <2>1. \A u \in User : queue'[u] = IF u = user THEN Append(q, b)
                                                  ELSE queue[u]
      BY <1>3, <1>5
    <2>2. \A u \in User :
            /\ InOrder(queue[u])
            /\ \A i \in DOMAIN queue[u] : queue[u][i].id < nextBatchId
      BY DEF PipelineInv, QueuesInOrder
    <2>3. \A u \in User : \A i \in DOMAIN queue[u] : queue[u][i].id \in Nat
      BY <1>3, BatchesOfQueue
    <2>4. \A u \in User : \A i \in DOMAIN queue[u] :
             queue[u][i].id < nextBatchId + 1
      BY <1>2, <2>2, <2>3
    <2>5. nextBatchId' = nextBatchId + 1
      BY <1>1
    <2> QED
      BY <1>4, <2>1, <2>2, <2>4, <2>5 DEF QueuesInOrder
  <1>8. /\ running' /\ enabled' = enabled /\ user' = user
        /\ FillWritePipeline(pipeline, stream, wire)
    BY <1>1
  <1>9. Sound(pipeline, stream, wire, enabled')
    BY <1>8 DEF PipelineInv, StreamInv
  <1>10. /\ Len(pipeline) <= Len(q)
         /\ \A i \in 1 .. Len(pipeline) : pipeline[i] = q[i]
    <2>1. CASE pipeline = << >>
      BY <1>3, <2>1, LenProperties, EmptySeq
    <2>2. CASE pipeline # << >>
      <3>1. pipeline = FirstOf(q, kMaxPendingWrites)
        BY <2>2, <1>1 DEF PipelineInv, PipelineIsQueueFront
      <3> QED
        BY <1>3, <3>1, FirstOfProperties, LenProperties,
           WritePipelineAssumption
    <2> QED
      BY <2>1, <2>2
  <1>11. /\ queue'[user'] = Append(q, b)
         /\ Len(pipeline) <= Len(queue'[user'])
         /\ \A i \in 1 .. Len(pipeline) : pipeline[i] = queue'[user'][i]
    <2>1. queue'[user'] = Append(q, b)
      BY <1>3, <1>5, <1>8
    <2>2. /\ Len(q) \in Nat /\ Len(pipeline) \in Nat
          /\ Len(Append(q, b)) \in Nat
      BY <1>3, <1>4, <1>9, LenProperties DEF Sound
    <2> QED
      BY <1>4, <1>10, <2>1, <2>2
  <1> QED
    BY <1>6, <1>7, <1>8, <1>9, <1>11, FillRestores

LEMMA SettleStep ==
    ASSUME PipelineInv, pipeline # << >>, NEW what \in {"done", "refused"},
           Settles(Head(pipeline), what),
           UNCHANGED <<running, user, nextBatchId, enabled, serverVars, issued,
                       calm>>,
           NEW s, NEW w, Sound(Tail(pipeline), s, w, TRUE),
           FillWritePipeline(Tail(pipeline), s, w)
    PROVE  PipelineInv'
  <1>1. /\ running /\ enabled
        /\ Len(Tail(pipeline)) <= Len(Tail(queue[user]))
        /\ \A i \in 1 .. Len(Tail(pipeline)) :
              Tail(pipeline)[i] = Tail(queue[user])[i]
    BY FrontOfPipeline
  <1>2. /\ queue' = [queue EXCEPT ![user] = Tail(queue[user])]
        /\ queue' \in [User -> Seq(Batch)]
        /\ callbacks' \in [User -> SUBSET Batch]
        /\ told' \in [Write -> {"nothing", "done", "refused"}]
        /\ \A u \in User : InOrder(queue'[u])
        /\ \A u \in User : \A i \in DOMAIN queue'[u] :
              \E j \in DOMAIN queue[u] : queue'[u][i] = queue[u][j]
    BY SettlesFront
  <1>3. StoreTypes'
    BY <1>2 DEF PipelineInv, StoreTypes, serverVars
  <1>4. QueuesInOrder'
    BY <1>2 DEF PipelineInv, QueuesInOrder
  <1>5. user \in User /\ queue \in [User -> Seq(Batch)]
    BY DEF PipelineInv, StoreTypes
  <1>6. running' /\ enabled' = TRUE /\ queue'[user'] = Tail(queue[user])
    BY <1>1, <1>2, <1>5 DEF PipelineInv, StoreTypes
  <1>7. Sound(Tail(pipeline), s, w, enabled')
    BY <1>6
  <1> HIDE DEF PipelineInv
  <1> QED
    BY <1>1, <1>3, <1>4, <1>6, <1>7, FillRestores

LEMMA ReadType ==
    ASSUME wire \in Call, wire.down # << >>
    PROVE  Read(wire) \in Call
  <1>1. Tail(wire.down) \in Seq(Batch \cup {Hello})
    BY HeadTailProperties DEF Call
  <1> QED
    BY <1>1 DEF Read, Call

LEMMA ReadIsSound ==
    ASSUME PipelineInv, wire.down # << >>, stream.handshake, pipeline # << >>
    PROVE  Sound(Tail(pipeline), stream, Read(wire), TRUE)
  <1>1. Tail(pipeline) \in Seq(Batch) /\ Len(Tail(pipeline)) <= kMaxPendingWrites
    BY FrontOfPipeline
  <1>2. Sound(pipeline, stream, wire, enabled)
    BY DEF PipelineInv, StreamInv
  <1>3. Read(wire) \in Call
    BY <1>2, ReadType DEF Sound
  <1> QED
    BY <1>1, <1>2, <1>3 DEF Sound

LEMMA ResultStep ==
    ASSUME PipelineInv, OnWriteStreamMutationResult
    PROVE  PipelineInv'
  <1>1. /\ wire.down # << >> /\ stream.handshake /\ pipeline # << >>
        /\ Settles(Head(pipeline), "done")
        /\ UNCHANGED <<running, user, nextBatchId, enabled, serverVars, issued,
                       calm>>
        /\ FillWritePipeline(Tail(pipeline), stream, Read(wire))
    BY DEF OnWriteStreamMutationResult
  <1> QED
    BY <1>1, ReadIsSound, SettleStep

LEMMA ErrorStep ==
    ASSUME PipelineInv, HandleWriteError
    PROVE  PipelineInv'
  <1>1. /\ pipeline # << >>
        /\ Settles(Head(pipeline), "refused")
        /\ UNCHANGED <<running, user, nextBatchId, enabled, serverVars, issued,
                       calm>>
        /\ FillWritePipeline(Tail(pipeline), Close(stream, "Initial"), NoWire)
    BY DEF HandleWriteError
  <1>2. Tail(pipeline) \in Seq(Batch) /\ Len(Tail(pipeline)) <= kMaxPendingWrites
    BY <1>1, FrontOfPipeline
  <1>3. Sound(Tail(pipeline), Close(stream, "Initial"), NoWire, TRUE)
    BY <1>2, ClosedIsSound
  <1> QED
    BY <1>1, <1>3, SettleStep

(* The streams start again from nothing.                                   *)
LEMMA EnableStep ==
    ASSUME running', StoreTypes', QueuesInOrder', EnableStreams
    PROVE  PipelineInv'
  <1>1. << >> \in Seq(Batch) /\ Len(<< >>) = 0
    BY EmptySeq
  <1>2. /\ Len(<< >>) <= kMaxPendingWrites /\ 0 <= Len(queue'[user'])
        /\ "Initial" \in {"Initial", "Error"}
    <2>1. queue'[user'] \in Seq(Batch)
      BY DEF StoreTypes
    <2> QED
      BY <1>1, <2>1, LenProperties, WritePipelineAssumption
  <1>3. Sound(<< >>, IdleStream, NoWire, enabled')
    <2>1. /\ Sound(<< >>, IdleStream, NoWire, TRUE)
          /\ Sound(<< >>, IdleStream, NoWire, FALSE)
      BY <1>1, <1>2, ClosedIsSound
    <2>2. enabled' = TRUE \/ enabled' = FALSE
      BY DEF StoreTypes
    <2> QED
      BY <2>1, <2>2
  <1>4. FillWritePipeline(<< >>, IdleStream, NoWire)
    BY DEF EnableStreams
  <1>5. \A i \in 1 .. Len(<< >>) : << >>[i] = queue'[user'][i]
    BY <1>1
  <1> QED
    BY <1>1, <1>2, <1>3, <1>4, <1>5, FillRestores

(* What a step has to see to that leaves the pipeline alone.               *)
LEMMA StreamStep ==
    ASSUME PipelineInv, running,
           UNCHANGED <<running, user, queue, nextBatchId, callbacks, enabled,
                       pipeline, issued, told>>,
           committed' \subseteq Write, doc' \in [User -> Write \cup {0}],
           calm' \in BOOLEAN,
           Sound(pipeline, stream', wire', enabled),
           pipeline # << >> => IsStarted(stream')
    PROVE  PipelineInv'
  <1>1. StoreTypes' /\ QueuesInOrder'
    BY DEF PipelineInv, StoreTypes, QueuesInOrder
  <1>2. StreamInv' /\ PipelineIsQueueFront' /\ DeadKeepsNothing'
    BY DEF PipelineInv, StreamInv, PipelineIsQueueFront, DeadKeepsNothing
  <1> QED
    BY <1>1, <1>2 DEF PipelineInv

LEMMA OpenStep ==
    ASSUME PipelineInv, ResumeStartWithCredentials
    PROVE  PipelineInv'
  <1>1. /\ running /\ stream.credentials /\ stream' = Opened(stream)
        /\ wire' = [NoWire EXCEPT !.up = <<Hello>>]
        /\ UNCHANGED <<running, user, queue, nextBatchId, callbacks, enabled,
                       pipeline, issued, told>>
        /\ committed' = committed /\ doc' = doc /\ calm' = calm
    BY DEF ResumeStartWithCredentials, serverVars
  <1>2. Sound(pipeline, stream, wire, enabled)
    BY DEF PipelineInv, StreamInv
  <1>3. /\ stream.state = "Starting" /\ ~stream.handshake /\ ~stream.idle
        /\ ~stream.retry
    BY <1>1, <1>2 DEF Sound, TimersFindTheirState, IsOpen
  <1>4. /\ stream' \in StreamState /\ stream'.state = "Open"
        /\ ~stream'.handshake /\ ~stream'.credentials /\ ~stream'.retry
        /\ ~stream'.idle
    BY <1>1, <1>2, <1>3 DEF Sound, Opened, StreamState
  <1>5. wire' \in Call
    <2>1. <<Hello>> \in Seq(Batch \cup {Hello})
      OBVIOUS
    <2> QED
      BY <1>1, <2>1, NoWireType DEF Call
  <1>6. pipeline # << >> /\ enabled
    BY <1>2, <1>3 DEF Sound, IsStarted
  <1>7. Sound(pipeline, stream', wire', enabled)
    BY <1>2, <1>4, <1>5, <1>6 DEF Sound, TimersFindTheirState, IsOpen,
       IsStarted
  <1> QED
    BY <1>1, <1>4, <1>7, StreamStep DEF PipelineInv, StoreTypes, IsStarted

LEMMA RetryStep ==
    ASSUME PipelineInv, BackoffElapsed
    PROVE  PipelineInv'
  <1>1. /\ running /\ stream.retry /\ stream' = Retried(stream)
        /\ UNCHANGED <<running, user, queue, nextBatchId, callbacks, enabled,
                       pipeline, issued, told>>
        /\ committed' = committed /\ doc' = doc /\ calm' = calm /\ wire' = wire
    BY DEF BackoffElapsed, serverVars
  <1>2. Sound(pipeline, stream, wire, enabled)
    BY DEF PipelineInv, StreamInv
  <1>3. stream.state = "Backoff" /\ ~stream.handshake /\ ~stream.idle
    BY <1>1, <1>2 DEF Sound, TimersFindTheirState, IsOpen
  <1>4. /\ stream' \in StreamState /\ stream'.state = "Starting"
        /\ ~stream'.handshake /\ stream'.credentials /\ ~stream'.retry
        /\ ~stream'.idle
    BY <1>1, <1>2, <1>3 DEF Sound, Retried, StartNow, StreamState
  <1>5. pipeline # << >> /\ enabled /\ wire' = NoWire
    BY <1>1, <1>2, <1>3 DEF Sound, IsStarted, IsOpen
  <1>6. Sound(pipeline, stream', wire', enabled)
    BY <1>2, <1>4, <1>5, NoWireType DEF Sound, TimersFindTheirState, IsOpen,
       IsStarted
  <1> QED
    BY <1>1, <1>4, <1>6, StreamStep DEF PipelineInv, StoreTypes, IsStarted

LEMMA IdleStep ==
    ASSUME PipelineInv, IdleTimeout
    PROVE  PipelineInv'
  <1>1. /\ running /\ stream.idle /\ stream' = Close(stream, "Initial")
        /\ wire' = NoWire
        /\ UNCHANGED <<running, user, queue, nextBatchId, callbacks, enabled,
                       pipeline, issued, told>>
        /\ committed' = committed /\ doc' = doc /\ calm' = calm
    BY DEF IdleTimeout, serverVars
  <1>2. Sound(pipeline, stream, wire, enabled) /\ enabled \in BOOLEAN
    BY DEF PipelineInv, StreamInv, StoreTypes
  <1>3. pipeline = << >>
    BY <1>1, <1>2 DEF Sound
  <1>4. /\ Sound(pipeline, stream', NoWire, TRUE)
        /\ Sound(pipeline, stream', NoWire, FALSE)
    BY <1>1, <1>2, <1>3, ClosedIsSound DEF Sound
  <1>5. Sound(pipeline, stream', wire', enabled)
    BY <1>1, <1>2, <1>4
  <1> QED
    BY <1>1, <1>3, <1>5, StreamStep DEF PipelineInv, StoreTypes

LEMMA HandshakeStep ==
    ASSUME PipelineInv, HandshakeComplete
    PROVE  PipelineInv'
  <1>1. /\ running /\ wire.down # << >> /\ ~stream.handshake
        /\ stream' = [stream EXCEPT !.handshake = TRUE,
                                    !.idle = @ /\ pipeline = << >>]
        /\ wire' = [Read(wire) EXCEPT !.up = @ \o pipeline]
        /\ UNCHANGED <<running, user, queue, nextBatchId, callbacks, enabled,
                       pipeline, issued, told>>
        /\ committed' = committed /\ doc' = doc /\ calm' = calm
    BY DEF HandshakeComplete, serverVars
  <1>2. Sound(pipeline, stream, wire, enabled)
    BY DEF PipelineInv, StreamInv
  <1>3. stream.state = "Open"
    BY <1>1, <1>2 DEF Sound, NoWire, IsOpen
  <1>4. /\ stream' \in StreamState /\ stream'.state = "Open"
        /\ stream'.handshake /\ stream'.credentials = stream.credentials
        /\ stream'.retry = stream.retry
        /\ stream'.idle => pipeline = << >>
    BY <1>1, <1>2, <1>3 DEF Sound, StreamState
  <1>5. wire' \in Call
    <2>1. Read(wire) \in Call
      BY <1>1, <1>2, ReadType DEF Sound
    <2>2. pipeline \in Seq(Batch \cup {Hello})
      BY <1>2, SeqMonotonic DEF Sound
    <2>3. Read(wire).up \o pipeline \in Seq(Batch \cup {Hello})
      BY <2>1, <2>2, ConcatProperties DEF Call
    <2> QED
      BY <1>1, <2>1, <2>3 DEF Call
  <1>6. enabled
    BY <1>2, <1>3 DEF Sound, IsStarted
  <1>7. Sound(pipeline, stream', wire', enabled)
    BY <1>2, <1>3, <1>4, <1>5, <1>6 DEF Sound, TimersFindTheirState, IsOpen,
       IsStarted
  <1> QED
    BY <1>1, <1>4, <1>7, StreamStep DEF PipelineInv, StoreTypes, IsStarted

LEMMA RestartStep ==
    ASSUME PipelineInv, RetryAfterError
    PROVE  PipelineInv'
  <1>1. /\ running /\ stream' = Restarted(pipeline) /\ wire' = NoWire
        /\ UNCHANGED <<running, user, queue, nextBatchId, callbacks, enabled,
                       pipeline, issued, told>>
        /\ committed' = committed /\ doc' = doc /\ calm' = calm
    BY DEF RetryAfterError, CallFails, serverVars
  <1>2. Sound(pipeline, stream, wire, enabled) /\ enabled \in BOOLEAN
    BY DEF PipelineInv, StreamInv, StoreTypes
  <1> DEFINE s == Close(stream, "Error")
  <1>3. /\ Sound(pipeline, s, NoWire, TRUE) /\ Sound(<< >>, s, NoWire, FALSE)
    BY <1>2, ClosedIsSound DEF Sound
  <1>4. Sound(pipeline, s, NoWire, enabled)
    BY <1>2, <1>3 DEF Sound
  <1>5. /\ s \in StreamState /\ TimersFindTheirState(s) /\ ~IsStarted(s)
        /\ ~s.handshake
    BY StreamCloses
  <1>6. stream' = IF enabled /\ pipeline # << >> THEN Start(s) ELSE s
    BY <1>1, <1>5 DEF Restarted, ShouldStartWriteStream
  <1> HIDE DEF s
  <1>7. CASE enabled /\ pipeline # << >>
    <2>1. /\ stream' \in StreamState /\ TimersFindTheirState(stream')
          /\ IsStarted(stream') /\ ~IsOpen(stream') /\ ~stream'.idle
          /\ ~stream'.handshake
      BY <1>5, <1>6, <1>7, StreamStarts
    <2>2. Sound(pipeline, stream', wire', enabled)
      BY <1>1, <1>2, <1>7, <2>1, NoWireType DEF Sound
    <2> QED
      BY <1>1, <2>1, <2>2, StreamStep DEF PipelineInv, StoreTypes
  <1>8. CASE ~(enabled /\ pipeline # << >>)
    <2>1. pipeline = << >> /\ Sound(pipeline, stream', wire', enabled)
      BY <1>1, <1>2, <1>4, <1>6, <1>8 DEF Sound
    <2> QED
      BY <1>1, <2>1, StreamStep DEF PipelineInv, StoreTypes
  <1> QED
    BY <1>7, <1>8

LEMMA ServerStep ==
    ASSUME PipelineInv, ServerTakes
    PROVE  PipelineInv'
  <1> DEFINE r == Head(wire.up)
  <1>1. /\ wire.up # << >> /\ wire.status = "none"
        /\ \/ /\ wire' = Ended([wire EXCEPT !.up = Tail(@)], "permanent",
                               wire.down)
              /\ committed' = committed /\ doc' = doc
           \/ /\ wire' = [wire EXCEPT !.up = Tail(@), !.down = Append(@, r)]
              /\ committed' = committed \cup ({r.write} \ {0})
              /\ doc' = [u \in User |-> IF r.write \in issued[u] THEN r.write
                                                                ELSE doc[u]]
        /\ UNCHANGED <<running, user, queue, nextBatchId, callbacks, enabled,
                       pipeline, issued, told>>
        /\ calm' = calm /\ stream' = stream
    BY DEF ServerTakes, serverVars
  <1>2. Sound(pipeline, stream, wire, enabled)
    BY DEF PipelineInv, StreamInv
  <1>3. IsOpen(stream) /\ running
    BY <1>1, <1>2, StreamCloses DEF Sound, NoWire, PipelineInv,
       DeadKeepsNothing
  <1>4. /\ r \in Batch \cup {Hello} /\ Tail(wire.up) \in Seq(Batch \cup {Hello})
        /\ wire.down \in Seq(Batch \cup {Hello})
    BY <1>1, <1>2, HeadTailProperties DEF Sound, Call
  <1>5. r.write \in Write \cup {0}
    BY <1>4 DEF Batch, Hello, NoBatch
  <1> HIDE DEF r
  <1>6. Append(wire.down, r) \in Seq(Batch \cup {Hello})
    BY <1>4, AppendProperties
  <1>7. wire' \in Call
    BY <1>1, <1>2, <1>4, <1>6 DEF Sound, Call, Ended
  <1>8. committed' \subseteq Write /\ doc' \in [User -> Write \cup {0}]
    <2>1. committed \subseteq Write /\ doc \in [User -> Write \cup {0}]
      BY DEF PipelineInv, StoreTypes
    <2> QED
      BY <1>1, <1>5, <2>1
  <1>9. Sound(pipeline, stream', wire', enabled)
    BY <1>1, <1>2, <1>3, <1>7 DEF Sound
  <1> QED
    BY <1>1, <1>3, <1>8, <1>9, StreamStep DEF PipelineInv, StoreTypes

LEMMA BreakStep ==
    ASSUME PipelineInv, CallBreaks
    PROVE  PipelineInv'
  <1>1. /\ IsOpen(stream)
        /\ \/ \E n \in 0 .. Len(wire.down) :
                 wire' = Ended(wire, "transient", SubSeq(wire.down, 1, n))
           \/ wire' = Ended(wire, "permanent", << >>)
        /\ UNCHANGED <<running, user, queue, nextBatchId, callbacks, enabled,
                       pipeline, issued, told>>
        /\ committed' = committed /\ doc' = doc /\ calm' = calm
        /\ stream' = stream
    BY DEF CallBreaks, serverVars
  <1>2. Sound(pipeline, stream, wire, enabled)
    BY DEF PipelineInv, StreamInv
  <1>3. running
    BY <1>1, StreamCloses DEF PipelineInv, DeadKeepsNothing
  <1>4. ASSUME NEW q \in Seq(Batch \cup {Hello}),
               NEW status \in {"transient", "permanent"}
        PROVE  Ended(wire, status, q) \in Call
    BY <1>2 DEF Sound, Call, Ended
  <1>5. ASSUME NEW n \in 0 .. Len(wire.down)
        PROVE  SubSeq(wire.down, 1, n) \in Seq(Batch \cup {Hello})
    <2>1. wire.down \in Seq(Batch \cup {Hello})
      BY <1>2 DEF Sound, Call
    <2>2. /\ n \in Int /\ 1 \in Int
          /\ \A i \in 1 .. n : wire.down[i] \in Batch \cup {Hello}
      BY <2>1, LenProperties, ElementOfSeq
    <2> QED
      BY <2>2, SubSeqProperties
  <1>6. wire' \in Call
    <2>1. << >> \in Seq(Batch \cup {Hello})
      BY EmptySeq
    <2> QED
      BY <1>1, <1>4, <1>5, <2>1
  <1>7. Sound(pipeline, stream', wire', enabled)
    BY <1>1, <1>2, <1>6 DEF Sound
  <1> QED
    BY <1>1, <1>3, <1>7, StreamStep DEF PipelineInv, StoreTypes

LEMMA NetworkStep ==
    ASSUME PipelineInv, DisableNetwork \/ EnableNetwork \/ RestartNetwork
    PROVE  PipelineInv'
  <1>1. CASE DisableNetwork
    <2>1. /\ running /\ enabled' = FALSE /\ pipeline' = << >> /\ wire' = NoWire
          /\ stream' = IF IsStarted(stream) THEN Close(stream, "Initial")
                                            ELSE stream
          /\ UNCHANGED <<running, user, queue, nextBatchId, callbacks,
                         committed, doc, issued, told, calm>>
      BY <1>1 DEF DisableNetwork, serverVars
    <2>2. StoreTypes' /\ QueuesInOrder'
      BY <2>1 DEF PipelineInv, StoreTypes, QueuesInOrder
    <2>3. Sound(<< >>, stream', NoWire, FALSE)
      <3>1. Sound(pipeline, stream, wire, enabled)
        BY DEF PipelineInv, StreamInv
      <3>2. Sound(<< >>, Close(stream, "Initial"), NoWire, FALSE)
        BY <3>1, ClosedIsSound DEF Sound
      <3>3. << >> \in Seq(Batch) /\ Len(<< >>) <= kMaxPendingWrites
        BY EmptySeq, WritePipelineAssumption
      <3>4. ~IsStarted(stream) => Sound(<< >>, stream, NoWire, FALSE)
        BY <3>1, <3>3, NoWireType DEF Sound, IsStarted, IsOpen
      <3> QED
        BY <2>1, <3>2, <3>4
    <2> QED
      BY <2>1, <2>2, <2>3 DEF PipelineInv, StreamInv, PipelineIsQueueFront,
         DeadKeepsNothing
  <1>2. CASE EnableNetwork
    <2>1. /\ running /\ ~enabled /\ enabled' = TRUE
          /\ UNCHANGED <<running, user, queue, nextBatchId, callbacks,
                         committed, doc, issued, told, calm>>
          /\ FillWritePipeline(pipeline, stream, wire)
      BY <1>2 DEF EnableNetwork, serverVars
    <2>2. StoreTypes' /\ QueuesInOrder'
      BY <2>1 DEF PipelineInv, StoreTypes, QueuesInOrder
    <2>3. Sound(pipeline, stream, wire, enabled)
      BY DEF PipelineInv, StreamInv
    <2>4. pipeline = << >> /\ ~IsStarted(stream)
      BY <2>1, <2>3 DEF Sound
    <2>5. Sound(pipeline, stream, wire, enabled')
      BY <2>1, <2>3 DEF Sound
    <2>6. Len(pipeline) = 0 /\ Len(pipeline) <= Len(queue'[user'])
      <3>1. queue'[user'] \in Seq(Batch)
        BY <2>2 DEF StoreTypes
      <3> QED
        BY <2>4, <3>1, LenProperties, EmptySeq
    <2>7. running' /\ \A i \in 1 .. Len(pipeline) :
                          pipeline[i] = queue'[user'][i]
      BY <2>1, <2>6
    <2> HIDE DEF PipelineInv
    <2> QED
      BY <2>1, <2>2, <2>5, <2>6, <2>7, FillRestores
  <1>3. CASE RestartNetwork
    <2>1. /\ running'
          /\ UNCHANGED <<running, user, queue, nextBatchId, callbacks, enabled,
                         committed, doc, issued, told, calm>>
          /\ EnableStreams
      BY <1>3 DEF RestartNetwork, serverVars
    <2>2. StoreTypes' /\ QueuesInOrder'
      BY <2>1 DEF PipelineInv, StoreTypes, QueuesInOrder
    <2> QED
      BY <2>1, <2>2, EnableStep
  <1> QED
    BY <1>1, <1>2, <1>3

LEMMA UserStep ==
    ASSUME PipelineInv, NEW u \in User, HandleCredentialChange(u)
    PROVE  PipelineInv'
  <1>1. /\ running /\ user' = u /\ nextBatchId' = LoadNextBatchId(queue)
        /\ UNCHANGED <<running, queue, callbacks, enabled, committed, doc,
                       issued, told, calm>>
        /\ IF enabled THEN EnableStreams
                      ELSE UNCHANGED <<pipeline, stream, wire>>
    BY DEF HandleCredentialChange, serverVars
  <1>2. StoreTypes' /\ QueuesInOrder'
    BY <1>1, LoadedIdIsNew DEF PipelineInv, StoreTypes, QueuesInOrder
  <1>3. CASE enabled
    BY <1>1, <1>2, <1>3, EnableStep
  <1>4. CASE ~enabled
    <2>1. pipeline = << >>
      BY <1>4 DEF PipelineInv, StreamInv, Sound
    <2> QED
      BY <1>1, <1>2, <1>4, <2>1 DEF PipelineInv, StreamInv,
         PipelineIsQueueFront, DeadKeepsNothing
  <1> QED
    BY <1>3, <1>4

LEMMA KillStep ==
    ASSUME PipelineInv, Kill \/ KillAfterNotifyUser
    PROVE  PipelineInv'
  <1>1. /\ ~running' /\ pipeline' = << >> /\ stream' = IdleStream
        /\ wire' = NoWire /\ callbacks' = [u \in User |-> {}]
        /\ UNCHANGED <<user, queue, nextBatchId, enabled, committed, doc,
                       issued, calm>>
    BY DEF Kill, KillAfterNotifyUser, Killed, serverVars
  <1>2. running' \in BOOLEAN
    BY DEF Kill, KillAfterNotifyUser, Killed
  <1>3. told' \in [Write -> {"nothing", "done", "refused"}]
    <2>1. told \in [Write -> {"nothing", "done", "refused"}]
      BY DEF PipelineInv, StoreTypes
    <2>2. \A c \in callbacks[user] : c.write \in Write
      BY DEF PipelineInv, StoreTypes, Batch
    <2> QED
      BY <2>1, <2>2 DEF Kill, KillAfterNotifyUser, Tells
  <1>4. StoreTypes' /\ QueuesInOrder'
    BY <1>1, <1>2, <1>3 DEF PipelineInv, StoreTypes, QueuesInOrder
  <1>5. StreamInv'
    <2>1. << >> \in Seq(Batch) /\ Len(<< >>) <= kMaxPendingWrites
          /\ "Initial" \in {"Initial", "Error"}
      BY EmptySeq, WritePipelineAssumption
    <2>2. /\ Sound(<< >>, IdleStream, NoWire, TRUE)
          /\ Sound(<< >>, IdleStream, NoWire, FALSE)
      BY <2>1, ClosedIsSound
    <2>3. enabled' = TRUE \/ enabled' = FALSE
      BY <1>4 DEF StoreTypes
    <2> QED
      BY <1>1, <2>2, <2>3 DEF StreamInv
  <1> QED
    BY <1>1, <1>4, <1>5 DEF PipelineInv, PipelineIsQueueFront,
       DeadKeepsNothing

LEMMA LaunchStep ==
    ASSUME PipelineInv, Launch
    PROVE  PipelineInv'
  <1>1. /\ running' = TRUE /\ enabled' = TRUE
        /\ nextBatchId' = LoadNextBatchId(queue)
        /\ UNCHANGED <<user, queue, callbacks, committed, doc, issued, told,
                       calm>>
        /\ EnableStreams
    BY DEF Launch, serverVars
  <1>2. StoreTypes' /\ QueuesInOrder'
    BY <1>1, LoadedIdIsNew DEF PipelineInv, StoreTypes, QueuesInOrder
  <1> QED
    BY <1>1, <1>2, EnableStep

LEMMA PipelineStep == PipelineInv /\ [Next]_vars => PipelineInv'
  <1> SUFFICES ASSUME PipelineInv, [Next]_vars
               PROVE  PipelineInv'
    OBVIOUS
  <1>1. CASE CalmDown
    <2>1. /\ running /\ calm' = TRUE
          /\ UNCHANGED <<running, user, queue, nextBatchId, callbacks, enabled,
                         pipeline, stream, wire, committed, doc, issued, told>>
      BY <1>1 DEF CalmDown, clientVars, serverVars
    <2> QED
      BY <2>1, StreamStep DEF PipelineInv, StreamInv, StoreTypes
  <1>2. CASE UNCHANGED vars
    BY <1>2 DEF vars, clientVars, serverVars, PipelineInv, StoreTypes,
       QueuesInOrder, StreamInv, PipelineIsQueueFront, DeadKeepsNothing
  <1> QED
    BY <1>1, <1>2, WriteStep, OpenStep, RetryStep, IdleStep, HandshakeStep,
       ResultStep, ErrorStep, RestartStep, NetworkStep, UserStep, KillStep,
       LaunchStep, ServerStep, BreakStep DEF Next

(* Every variable keeps its type; a token or a timer that is still to come *)
(* finds the stream in the state that asked for it, as stream.cc asserts,  *)
(* and a stream is not stopped as idle while there is something to send.   *)
THEOREM TypeCorrect == Spec => []TypeOK
  BY PipelineInit, PipelineStep, TypesHold, PTL DEF Spec

(* The pipeline is the front of the signed-in user's queue, as much of it  *)
(* as there is room for (RemoteStore::FillWritePipeline,                   *)
(* LocalStore::GetNextMutationBatch), whatever ids LevelDB gives out again *)
(* and however users change, calls break and the process is killed.        *)
THEOREM PipelineFollowsQueue == Spec => []PipelineIsQueueFront
  <1>1. PipelineInv => PipelineIsQueueFront
    BY DEF PipelineInv
  <1> QED
    BY <1>1, PipelineInit, PipelineStep, PTL DEF Spec

-----------------------------------------------------------------------------
(* The call and the pipeline.                                              *)

Request == Batch \cup {Hello}

LEMMA PrefixByElements ==
    ASSUME NEW S, NEW s \in Seq(S), NEW t \in Seq(S)
    PROVE  IsPrefix(s, t) <=> /\ Len(s) <= Len(t)
                              /\ \A i \in 1 .. Len(s) : s[i] = t[i]
  <1>1. Len(s) \in Nat /\ Len(t) \in Nat
    BY LenProperties
  <1>2. SubSeq(s, 1, Len(s)) = s
    BY SubSeqFull
  <1>3. ASSUME Len(s) <= Len(t)
        PROVE  s = SubSeq(t, 1, Len(s)) <=>
                  \A i \in 1 .. Len(s) : s[i] = t[i]
    <2>1. /\ 1 \in Int /\ Len(s) \in Int
          /\ \A i \in 1 .. Len(s) : t[i] \in S
      BY <1>1, <1>3, ElementOfSeq
    <2>2. /\ SubSeq(t, 1, Len(s)) \in Seq(S)
          /\ Len(SubSeq(t, 1, Len(s))) =
                IF 1 <= Len(s) THEN Len(s) - 1 + 1 ELSE 0
          /\ \A i \in 1 .. Len(s) - 1 + 1 :
                SubSeq(t, 1, Len(s))[i] = t[1 + i - 1]
      BY <2>1, SubSeqProperties
    <2>3. /\ Len(SubSeq(t, 1, Len(s))) = Len(s)
          /\ \A i \in 1 .. Len(s) : SubSeq(t, 1, Len(s))[i] = t[i]
      BY <1>1, <2>2
    <2>4. ASSUME \A i \in 1 .. Len(s) : s[i] = t[i]
          PROVE  s = SubSeq(t, 1, Len(s))
      <3>1. \A i \in 1 .. Len(s) : s[i] = SubSeq(t, 1, Len(s))[i]
        BY <2>3, <2>4
      <3> QED
        BY <2>2, <2>3, <3>1, SeqEqual
    <2> QED
      BY <2>3, <2>4
  <1> QED
    BY <1>2, <1>3 DEF IsPrefix

LEMMA RequestsConcat ==
    \A s, t, u \in Seq(Request) : (s \o t) \o u = s \o (t \o u)
  BY ConcatAssociative

LEMMA OneMovesOver ==
    ASSUME NEW s \in Seq(Request), NEW x \in Request, NEW t \in Seq(Request)
    PROVE  /\ (s \o <<x>>) \o t = s \o (<<x>> \o t)
           /\ (<<x>> \o t) \o s = <<x>> \o (t \o s)
  <1> DEFINE one == <<x>>
  <1>1. one \in Seq(Request)
    OBVIOUS
  <1> HIDE DEF one
  <1>2. (s \o one) \o t = s \o (one \o t)
    BY <1>1, RequestsConcat
  <1>3. (one \o t) \o s = one \o (t \o s)
    BY <1>1, RequestsConcat
  <1> QED
    BY <1>2, <1>3 DEF one

(* The batches taken into the pipeline are sent with the others.           *)
LEMMA AfterMore ==
    ASSUME NEW p \in Seq(Batch), NEW w \in Call, NEW done,
           AfterHandshake(p, w, done), NEW more \in Seq(Batch)
    PROVE  AfterHandshake(p \o more, [w EXCEPT !.up = @ \o more], done)
  <1> DEFINE v == [w EXCEPT !.up = @ \o more]
             full == p \o more
  <1>1. /\ w.down \in Seq(Request) /\ w.up \in Seq(Request)
        /\ p \in Seq(Request) /\ more \in Seq(Request)
    BY SeqMonotonic DEF Call, Request
  <1>2. v.down = w.down /\ v.up = w.up \o more /\ v.status = w.status
    BY DEF Call
  <1>3. /\ full \in Seq(Request) /\ Len(full) = Len(p) + Len(more)
        /\ \A i \in 1 .. Len(p) + Len(more) :
              full[i] = IF i <= Len(p) THEN p[i] ELSE more[i - Len(p)]
    BY <1>1, ConcatProperties
  <1>4. /\ Len(p) \in Nat /\ Len(more) \in Nat /\ Len(w.down) \in Nat
    BY <1>1, LenProperties
  <1>5. \A i \in 1 .. Len(p) : full[i] = p[i] /\ i \in 1 .. Len(full)
    BY <1>3, <1>4
  <1>6. Len(w.down) <= Len(p) /\ \A i \in 1 .. Len(w.down) : w.down[i] = p[i]
    BY <1>1, PrefixByElements DEF AfterHandshake
  <1>7. \A i \in 1 .. Len(w.down) : i \in 1 .. Len(p)
    BY <1>4, <1>6
  <1> HIDE DEF v, full
  <1>8. IsPrefix(v.down, full)
    <2>1. Len(w.down) <= Len(full)
      BY <1>3, <1>4, <1>6
    <2>2. \A i \in 1 .. Len(w.down) : w.down[i] = full[i]
      BY <1>5, <1>6, <1>7
    <2> QED
      BY <1>1, <1>2, <1>3, <2>1, <2>2, PrefixByElements
  <1>9. v.status = "none" => v.down \o v.up = full
    <2>1. w.down \o (w.up \o more) = (w.down \o w.up) \o more
      BY <1>1, RequestsConcat, Zenon
    <2> QED
      BY <1>2, <2>1 DEF AfterHandshake, full
  <1>10. \A i \in 1 .. Len(v.down) : full[i].write \in done
    BY <1>2, <1>5, <1>7 DEF AfterHandshake
  <1>11. ASSUME NEW j \in 1 .. Len(p), RefusedAt(p, w, done, j)
         PROVE  j \in 1 .. Len(full) /\ RefusedAt(full, v, done, j)
    <2>1. \A i \in 1 .. j - 1 : i \in 1 .. Len(p)
      BY <1>4
    <2> QED
      BY <1>2, <1>5, <1>11, <2>1 DEF RefusedAt
  <1> QED
    BY <1>2, <1>8, <1>9, <1>10, <1>11 DEF AfterHandshake, v, full

(* An answer is read: it is that to the front of the pipeline.             *)
LEMMA AfterRead ==
    ASSUME NEW p \in Seq(Batch), NEW w \in Call, NEW done,
           AfterHandshake(p, w, done), w.down # << >>
    PROVE  /\ p # << >> /\ Head(p).write \in done
           /\ AfterHandshake(Tail(p), Read(w), done)
  <1> DEFINE v == Read(w)
             rest == Tail(p)
  <1>1. /\ w.down \in Seq(Request) /\ w.up \in Seq(Request)
        /\ p \in Seq(Request)
    BY SeqMonotonic DEF Call, Request
  <1>2. v.down = Tail(w.down) /\ v.up = w.up /\ v.status = w.status
    BY DEF Call, Read
  <1>3. /\ Len(w.down) \in Nat \ {0} /\ Len(p) \in Nat
        /\ Len(w.down) <= Len(p)
        /\ \A i \in 1 .. Len(w.down) : w.down[i] = p[i]
    BY <1>1, EmptySeq, LenProperties, PrefixByElements DEF AfterHandshake
  <1>4. p # << >>
    BY <1>3, EmptySeq
  <1>5. /\ rest \in Seq(Request) /\ Len(rest) = Len(p) - 1
        /\ \A i \in 1 .. Len(rest) : rest[i] = p[i + 1]
    BY <1>1, <1>4, HeadTailProperties
  <1>6. /\ Tail(w.down) \in Seq(Request) /\ Len(Tail(w.down)) = Len(w.down) - 1
        /\ \A i \in 1 .. Len(Tail(w.down)) : Tail(w.down)[i] = w.down[i + 1]
    BY <1>1, HeadTailProperties
  <1>7. Head(p).write \in done
    <2>1. 1 \in 1 .. Len(w.down) /\ Head(p) = p[1]
      BY <1>3
    <2> QED
      BY <2>1 DEF AfterHandshake
  <1> HIDE DEF v, rest
  <1>8. IsPrefix(v.down, rest)
    <2>1. Len(Tail(w.down)) <= Len(rest)
      BY <1>3, <1>5, <1>6
    <2>2. ASSUME NEW i \in 1 .. Len(Tail(w.down))
          PROVE  Tail(w.down)[i] = rest[i]
      <3>1. i + 1 \in 1 .. Len(w.down) /\ i \in 1 .. Len(rest)
        BY <1>3, <1>5, <1>6
      <3> QED
        BY <1>3, <1>5, <1>6, <3>1
    <2> QED
      BY <1>2, <1>5, <1>6, <2>1, <2>2, PrefixByElements
  <1>9. v.status = "none" => v.down \o v.up = rest
    <2> SUFFICES ASSUME w.down \o w.up = p
                 PROVE  Tail(w.down) \o w.up = Tail(p)
      BY <1>2 DEF AfterHandshake, rest
    <2>1. w.down = <<Head(w.down)>> \o Tail(w.down)
      <3>1. /\ SubSeq(w.down, 1, Len(w.down)) = w.down
            /\ 1 \in 1 .. Len(w.down) /\ Len(w.down) \in 1 .. Len(w.down)
        BY <1>1, <1>3, SubSeqFull
      <3>2. w.down = <<w.down[1]>> \o SubSeq(w.down, 1 + 1, Len(w.down))
        BY <1>1, <3>1, SubSeqRecursiveFirst
      <3>3. 1 + 1 = 2 /\ Head(w.down) = w.down[1]
        BY <1>1
      <3> QED
        BY <1>1, <3>2, <3>3, TailIsSubSeq
    <2>2. Head(w.down) \in Request /\ <<Head(w.down)>> \in Seq(Request)
      BY <1>1, HeadTailProperties
    <2>3. p = <<Head(w.down)>> \o (Tail(w.down) \o w.up)
      <3>1. (<<Head(w.down)>> \o Tail(w.down)) \o w.up
                = <<Head(w.down)>> \o (Tail(w.down) \o w.up)
        BY <1>1, <1>6, <2>2, OneMovesOver
      <3> QED
        BY <2>1, <3>1
    <2>4. Tail(w.down) \o w.up \in Seq(Request)
      BY <1>1, <1>6, ConcatProperties
    <2> DEFINE t == Tail(w.down) \o w.up
               h == Head(w.down)
    <2> HIDE DEF t, h
    <2>5. /\ Len(<<h>> \o t) = 1 + Len(t)
          /\ \A i \in 1 .. 1 + Len(t) :
                (<<h>> \o t)[i] = IF i <= 1 THEN <<h>>[i] ELSE t[i - 1]
      <3>1. Len(<<h>>) = 1 /\ <<h>> \in Seq(Request) /\ t \in Seq(Request)
        BY <2>2, <2>4 DEF h, t
      <3> QED
        BY <3>1, ConcatProperties
    <2>6. p = <<h>> \o t /\ Len(t) \in Nat /\ t \in Seq(Request)
      BY <2>3, <2>4, LenProperties DEF h, t
    <2>7. Len(rest) = Len(t)
      BY <1>5, <2>5, <2>6
    <2>8. ASSUME NEW i \in 1 .. Len(t)
          PROVE  rest[i] = t[i]
      <3>1. i + 1 \in 1 .. 1 + Len(t) /\ ~(i + 1 <= 1) /\ i + 1 - 1 = i
        BY <2>6
      <3>2. p[i + 1] = t[i]
        BY <2>5, <2>6, <3>1
      <3> QED
        BY <1>5, <2>7, <3>2
    <2>9. rest = t
      BY <1>5, <2>6, <2>7, <2>8, SeqEqual
    <2> QED
      BY <2>9 DEF rest, t
  <1>10. \A i \in 1 .. Len(v.down) : rest[i].write \in done
    <2> SUFFICES ASSUME NEW i \in 1 .. Len(Tail(w.down))
                 PROVE  rest[i].write \in done
      BY <1>2
    <2>1. i + 1 \in 1 .. Len(w.down) /\ i \in 1 .. Len(rest)
      BY <1>3, <1>5, <1>6
    <2> QED
      BY <1>5, <2>1 DEF AfterHandshake
  <1>11. ASSUME NEW j \in 1 .. Len(p), RefusedAt(p, w, done, j)
         PROVE  j - 1 \in 1 .. Len(rest) /\ RefusedAt(rest, v, done, j - 1)
    <2>1. /\ j > Len(w.down) /\ p[j].write \in Bad
          /\ \A i \in 1 .. j - 1 : p[i].write \in done
      BY <1>11 DEF RefusedAt
    <2>2. j - 1 \in 1 .. Len(rest) /\ j - 1 > Len(v.down) /\ (j - 1) + 1 = j
      BY <1>2, <1>3, <1>5, <1>6, <2>1
    <2>3. ASSUME NEW i \in 1 .. (j - 1) - 1
          PROVE  rest[i].write \in done
      <3>1. i + 1 \in 1 .. j - 1 /\ i \in 1 .. Len(rest)
        BY <1>3, <1>5
      <3> QED
        BY <1>5, <2>1, <3>1
    <2>4. rest[j - 1] = p[j]
      BY <1>5, <2>2
    <2> QED
      BY <2>1, <2>2, <2>3, <2>4 DEF RefusedAt
  <1> QED
    BY <1>2, <1>4, <1>7, <1>8, <1>9, <1>10, <1>11
       DEF AfterHandshake, v, rest

(* The server takes a request: it is that of the first batch that is not   *)
(* answered.                                                               *)
LEMMA NextRequest ==
    ASSUME NEW p \in Seq(Batch), NEW w \in Call, NEW done,
           AfterHandshake(p, w, done), w.status = "none", w.up # << >>
    PROVE  /\ Len(w.down) + 1 \in 1 .. Len(p)
           /\ Head(w.up) = p[Len(w.down) + 1]
           /\ Head(w.up) \in Batch
           /\ Head(w.up).write \in Write /\ Head(w.up) # Hello
  <1>1. /\ w.down \in Seq(Request) /\ w.up \in Seq(Request)
        /\ w.down \o w.up = p
    BY DEF Call, Request, AfterHandshake
  <1>2. /\ Len(w.down) \in Nat /\ Len(w.up) \in Nat \ {0}
        /\ Head(w.up) = w.up[1]
    BY <1>1, EmptySeq, LenProperties
  <1>3. /\ Len(p) = Len(w.down) + Len(w.up)
        /\ \A i \in 1 .. Len(w.down) + Len(w.up) : p[i] =
              IF i <= Len(w.down) THEN w.down[i] ELSE w.up[i - Len(w.down)]
    BY <1>1, ConcatProperties
  <1> DEFINE k == Len(w.down) + 1
  <1>4. /\ k \in 1 .. Len(w.down) + Len(w.up) /\ ~(k <= Len(w.down))
        /\ k - Len(w.down) = 1
    <2> DEFINE m == Len(w.down)
               n == Len(w.up)
    <2>1. m \in Nat /\ n \in Nat \ {0}
      BY <1>2
    <2> HIDE DEF m, n
    <2>2. m + 1 \in 1 .. m + n /\ ~(m + 1 <= m) /\ (m + 1) - m = 1
      BY <2>1
    <2> QED
      BY <2>2 DEF m, n
  <1>5. p[k] = w.up[1]
    BY <1>3, <1>4
  <1>6. p[k] \in Batch /\ p[k].write \in Write
    BY <1>3, <1>4, BatchesOfQueue
  <1>7. Head(w.up) # Hello
    <2>1. Hello.write = 0
      BY DEF Hello, NoBatch
    <2> QED
      BY <1>2, <1>5, <1>6, <2>1, WritePipelineAssumption DEF Write
  <1> QED
    BY <1>2, <1>3, <1>4, <1>5, <1>6, <1>7

LEMMA AfterRefused ==
    ASSUME NEW p \in Seq(Batch), NEW w \in Call, NEW done,
           AfterHandshake(p, w, done), w.status = "none", w.up # << >>,
           Head(w.up).write \in Bad
    PROVE  AfterHandshake(p, Ended([w EXCEPT !.up = Tail(@)], "permanent",
                                   w.down), done)
  <1> DEFINE v == Ended([w EXCEPT !.up = Tail(@)], "permanent", w.down)
             j == Len(w.down) + 1
  <1>1. v.down = w.down /\ v.status = "permanent"
    BY DEF Call, Ended
  <1>2. Len(w.down) \in Nat
    BY LenProperties DEF Call
  <1>3. j \in 1 .. Len(p) /\ p[j].write \in Bad
    BY NextRequest
  <1>4. j > Len(w.down) /\ j - 1 = Len(w.down)
    BY <1>2
  <1> HIDE DEF v, j
  <1>5. RefusedAt(p, v, done, j)
    BY <1>1, <1>3, <1>4 DEF RefusedAt, AfterHandshake
  <1> QED
    BY <1>1, <1>3, <1>5 DEF AfterHandshake, v

LEMMA AfterAnswered ==
    ASSUME NEW p \in Seq(Batch), NEW w \in Call, NEW done,
           AfterHandshake(p, w, done), w.status = "none", w.up # << >>,
           NEW more, done \subseteq more, Head(w.up).write \in more
    PROVE  AfterHandshake(p, [w EXCEPT !.up = Tail(@),
                                       !.down = Append(@, Head(w.up))], more)
  <1> DEFINE r == Head(w.up)
             v == [w EXCEPT !.up = Tail(@), !.down = Append(@, r)]
             k == Len(w.down) + 1
  <1>1. /\ v.down = Append(w.down, r) /\ v.up = Tail(w.up)
        /\ v.status = "none"
    BY DEF Call
  <1>2. /\ w.down \in Seq(Request) /\ w.up \in Seq(Request)
        /\ p \in Seq(Request)
    BY SeqMonotonic DEF Call, Request
  <1>3. k \in 1 .. Len(p) /\ r = p[k] /\ r \in Request
    BY NextRequest DEF Request
  <1>4. /\ Tail(w.up) \in Seq(Request)
        /\ Append(w.down, r) \in Seq(Request)
        /\ Len(Append(w.down, r)) = Len(w.down) + 1
        /\ \A i \in 1 .. Len(w.down) : Append(w.down, r)[i] = w.down[i]
        /\ Append(w.down, r)[Len(w.down) + 1] = r
    BY <1>2, <1>3, HeadTailProperties, AppendProperties
  <1>5. Len(w.down) \in Nat /\ Len(p) \in Nat
    BY <1>2, LenProperties
  <1>6. \A i \in 1 .. k : i = k \/ i \in 1 .. Len(w.down)
    BY <1>5
  <1>7. \A i \in 1 .. Len(w.down) : w.down[i] = p[i] /\ p[i].write \in done
    <2>1. IsPrefix(w.down, p) /\ \A i \in 1 .. Len(w.down) : p[i].write \in done
      BY DEF AfterHandshake
    <2> QED
      BY <1>2, <2>1, PrefixByElements
  <1>8. v.down \o v.up = p
    <2>1. w.up = <<r>> \o Tail(w.up)
      <3>1. /\ Len(w.up) \in Nat \ {0}
            /\ SubSeq(w.up, 1, Len(w.up)) = w.up
        BY <1>2, EmptySeq, SubSeqFull
      <3>2. 1 \in 1 .. Len(w.up) /\ Len(w.up) \in 1 .. Len(w.up)
        BY <3>1
      <3>3. w.up = <<w.up[1]>> \o SubSeq(w.up, 1 + 1, Len(w.up))
        BY <1>2, <3>1, <3>2, SubSeqRecursiveFirst
      <3>4. 1 + 1 = 2 /\ Head(w.up) = w.up[1]
        BY <1>2
      <3> QED
        BY <1>2, <3>3, <3>4, TailIsSubSeq
    <2>2. <<r>> \in Seq(Request)
      BY <1>3
    <2>3. Append(w.down, r) = w.down \o <<r>>
      BY <1>2, <1>3, AppendIsConcat
    <2>4. (w.down \o <<r>>) \o Tail(w.up) = w.down \o (<<r>> \o Tail(w.up))
      <3>1. r \in Request /\ Tail(w.up) \in Seq(Request)
        BY <1>3, <1>4
      <3> HIDE DEF v, r, k
      <3> QED
        BY <1>2, <3>1, OneMovesOver
    <2> QED
      BY <1>1, <2>1, <2>3, <2>4 DEF AfterHandshake
  <1> HIDE DEF v, r, k
  <1>9. IsPrefix(v.down, p)
    <2>1. Len(v.down) = k /\ k <= Len(p)
      BY <1>1, <1>3, <1>4, <1>5 DEF k
    <2>2. \A i \in 1 .. k : v.down[i] = p[i]
      BY <1>1, <1>3, <1>4, <1>6, <1>7 DEF k
    <2> QED
      BY <1>1, <1>2, <1>4, <2>1, <2>2, PrefixByElements
  <1>10. \A i \in 1 .. Len(v.down) : p[i].write \in more
    BY <1>1, <1>3, <1>4, <1>6, <1>7 DEF k, r
  <1> QED
    BY <1>1, <1>8, <1>9, <1>10 DEF AfterHandshake, v, r

LEMMA AfterBreak ==
    ASSUME NEW p \in Seq(Batch), NEW w \in Call, NEW done,
           AfterHandshake(p, w, done), NEW n \in 0 .. Len(w.down)
    PROVE  AfterHandshake(p, Ended(w, "transient", SubSeq(w.down, 1, n)),
                          done)
  <1> DEFINE v == Ended(w, "transient", SubSeq(w.down, 1, n))
  <1>1. v.down = SubSeq(w.down, 1, n) /\ v.status = "transient"
    BY DEF Call, Ended
  <1>2. w.down \in Seq(Request) /\ p \in Seq(Request)
    BY SeqMonotonic DEF Call, Request
  <1>3. Len(w.down) \in Nat /\ Len(p) \in Nat
    BY <1>2, LenProperties
  <1>4. /\ v.down \in Seq(Request) /\ Len(v.down) = n
        /\ \A i \in 1 .. n : v.down[i] = w.down[i]
    <2>1. /\ 1 \in Int /\ n \in Int
          /\ \A i \in 1 .. n : w.down[i] \in Request
      BY <1>2, <1>3, ElementOfSeq
    <2>2. /\ SubSeq(w.down, 1, n) \in Seq(Request)
          /\ Len(SubSeq(w.down, 1, n)) = IF 1 <= n THEN n - 1 + 1 ELSE 0
          /\ \A i \in 1 .. n - 1 + 1 : SubSeq(w.down, 1, n)[i] =
                                          w.down[1 + i - 1]
      BY <2>1, SubSeqProperties
    <2>3. /\ n \in Nat /\ (IF 1 <= n THEN n - 1 + 1 ELSE 0) = n
          /\ n - 1 + 1 = n /\ \A i \in 1 .. n : 1 + i - 1 = i
      BY <1>3
    <2> QED
      BY <1>1, <2>2, <2>3
  <1> HIDE DEF v
  <1>5. /\ Len(w.down) <= Len(p)
        /\ \A i \in 1 .. Len(w.down) : w.down[i] = p[i] /\ p[i].write \in done
    BY <1>2, PrefixByElements DEF AfterHandshake
  <1>6. \A i \in 1 .. n : i \in 1 .. Len(w.down)
    BY <1>3
  <1>7. IsPrefix(v.down, p)
    <2>1. Len(v.down) <= Len(p) /\ \A i \in 1 .. Len(v.down) : v.down[i] = p[i]
      BY <1>3, <1>4, <1>5, <1>6
    <2> QED
      BY <1>2, <1>4, <2>1, PrefixByElements
  <1> QED
    BY <1>1, <1>4, <1>5, <1>6, <1>7 DEF AfterHandshake, v

(* The first answer completes the handshake, and the pipeline is sent.     *)
LEMMA AfterFirstAnswer ==
    ASSUME NEW p \in Seq(Batch), NEW w \in Call, NEW done,
           BeforeHandshake(w), w.down # << >>
    PROVE  AfterHandshake(p, [Read(w) EXCEPT !.up = @ \o p], done)
  <1> DEFINE v == [Read(w) EXCEPT !.up = @ \o p]
  <1>1. w.down = <<Hello>> /\ w.up = << >> /\ w.status # "permanent"
    BY DEF BeforeHandshake
  <1>2. Tail(<<Hello>>) = << >>
    OBVIOUS
  <1>3. v.down = << >> /\ v.up = << >> \o p /\ v.status = w.status
    BY <1>1, <1>2 DEF Call, Read
  <1> HIDE DEF v
  <1>4. << >> \o p = p
    BY ConcatEmptySeq
  <1>5. << >> \in Seq(Batch) /\ Len(<< >>) = 0 /\ Len(p) \in Nat
    BY EmptySeq, LenProperties
  <1>6. IsPrefix(<< >>, p)
    <2>1. /\ Len(<< >>) <= Len(p)
          /\ \A i \in 1 .. Len(<< >>) : << >>[i] = p[i]
      BY <1>5
    <2> QED
      BY <1>5, <2>1, PrefixByElements
  <1>7. v.down \o v.up = p
    BY <1>3, <1>4
  <1>8. \A i \in 1 .. Len(v.down) : FALSE
    BY <1>3, <1>5
  <1> QED
    BY <1>1, <1>3, <1>6, <1>7, <1>8 DEF AfterHandshake, v

LEMMA FillKeepsCall ==
    ASSUME PipelineInv', NEW p, NEW s, NEW w, Sound(p, s, w, enabled'),
           FillWritePipeline(p, s, w), committed' = committed,
           s.handshake => AfterHandshake(p, w, committed),
           ~s.handshake => BeforeHandshake(w)
    PROVE  CallInv'
  <1>1. enabled' \in BOOLEAN /\ queue'[user'] \in Seq(Batch)
    BY DEF PipelineInv, StoreTypes
  <1>2. /\ pipeline' = p \o NextBatches(p)
        /\ stream'.handshake = s.handshake
        /\ wire' = IF s.handshake THEN [w EXCEPT !.up = @ \o NextBatches(p)]
                                  ELSE w
    BY <1>1, FillIsSound
  <1>3. /\ p \in Seq(Batch) /\ w \in Call /\ Len(p) <= kMaxPendingWrites
    BY DEF Sound
  <1>4. NextBatches(p) \in Seq(Batch)
    BY <1>1, <1>3, MoreBatches
  <1>5. s.handshake => AfterHandshake(pipeline', wire', committed')
    BY <1>2, <1>3, <1>4, AfterMore
  <1> QED
    BY <1>2, <1>5 DEF CallInv

LEMMA BeforeNoWire == BeforeHandshake(NoWire)
  BY DEF BeforeHandshake, NoWire

LEMMA EnableKeepsCall ==
    ASSUME PipelineInv', EnableStreams, committed' = committed
    PROVE  CallInv'
  <1>1. << >> \in Seq(Batch) /\ Len(<< >>) <= kMaxPendingWrites
        /\ "Initial" \in {"Initial", "Error"}
    BY EmptySeq, WritePipelineAssumption
  <1>2. /\ Sound(<< >>, IdleStream, NoWire, TRUE)
        /\ Sound(<< >>, IdleStream, NoWire, FALSE)
    BY <1>1, ClosedIsSound
  <1>3. enabled' = TRUE \/ enabled' = FALSE
    BY DEF PipelineInv, StoreTypes
  <1>4. Sound(<< >>, IdleStream, NoWire, enabled')
    BY <1>2, <1>3
  <1>5. FillWritePipeline(<< >>, IdleStream, NoWire)
    BY DEF EnableStreams
  <1>6. ~IdleStream.handshake
    BY DEF IdleStream
  <1> QED
    BY <1>4, <1>5, <1>6, BeforeNoWire, FillKeepsCall

(* A stream that closes or starts again is to shake hands again.           *)
LEMMA HandshakeIsLost ==
    ASSUME PipelineInv, PipelineInv',
           \/ ResumeStartWithCredentials \/ BackoffElapsed \/ IdleTimeout
           \/ RetryAfterError \/ DisableNetwork \/ Kill \/ KillAfterNotifyUser
           \/ RestartNetwork \/ Launch
           \/ \E u \in User : HandleCredentialChange(u)
    PROVE  ~stream'.handshake
  <1>1. Sound(pipeline, stream, wire, enabled)
    BY DEF PipelineInv, StreamInv
  <1>2. CASE ResumeStartWithCredentials
    <2>1. stream' = Opened(stream) /\ stream.credentials
      BY <1>2 DEF ResumeStartWithCredentials
    <2>2. ~stream.handshake /\ stream \in StreamState
      BY <1>1, <2>1 DEF Sound, TimersFindTheirState, IsOpen
    <2> QED
      BY <2>1, <2>2 DEF Opened, StreamState
  <1>3. CASE BackoffElapsed
    <2>1. stream' = Retried(stream) /\ stream.retry
      BY <1>3 DEF BackoffElapsed
    <2>2. ~stream.handshake /\ stream \in StreamState
      BY <1>1, <2>1 DEF Sound, TimersFindTheirState, IsOpen
    <2> QED
      BY <2>1, <2>2 DEF Retried, StartNow, StreamState
  <1>4. CASE IdleTimeout \/ DisableNetwork \/ Kill \/ KillAfterNotifyUser
    <2>1. \/ stream' = Close(stream, "Initial")
          \/ stream' = IdleStream
          \/ stream' = stream /\ ~IsStarted(stream)
      BY <1>4 DEF IdleTimeout, DisableNetwork, Kill, KillAfterNotifyUser,
         Killed
    <2> QED
      BY <1>1, <2>1, StreamCloses DEF Sound, IsOpen, IsStarted, IdleStream
  <1>5. CASE RetryAfterError
    <2> DEFINE s == Close(stream, "Error")
    <2>1. /\ s \in StreamState /\ TimersFindTheirState(s) /\ ~IsStarted(s)
          /\ ~s.handshake
      BY StreamCloses
    <2>2. stream' = s \/ stream' = Start(s)
      BY <1>5 DEF RetryAfterError, Restarted
    <2> HIDE DEF s
    <2> QED
      BY <2>1, <2>2, StreamStarts
  <1>6. CASE EnableStreams
    <2>1. /\ enabled' \in BOOLEAN /\ queue'[user'] \in Seq(Batch)
          /\ FillWritePipeline(<< >>, IdleStream, NoWire)
      BY <1>6 DEF PipelineInv, StoreTypes, EnableStreams
    <2>2. << >> \in Seq(Batch) /\ Len(<< >>) <= kMaxPendingWrites
          /\ "Initial" \in {"Initial", "Error"}
      BY EmptySeq, WritePipelineAssumption
    <2>3. /\ Sound(<< >>, IdleStream, NoWire, TRUE)
          /\ Sound(<< >>, IdleStream, NoWire, FALSE)
      BY <2>2, ClosedIsSound
    <2>4. Sound(<< >>, IdleStream, NoWire, enabled')
      BY <2>1, <2>3
    <2> QED
      BY <2>1, <2>4, FillIsSound DEF IdleStream
  <1>7. CASE RestartNetwork \/ Launch
              \/ \E u \in User : HandleCredentialChange(u)
    <2>1. EnableStreams \/ (stream' = stream /\ ~enabled)
      BY <1>7 DEF RestartNetwork, Launch, HandleCredentialChange
    <2>2. ~enabled => ~stream.handshake
      BY <1>1 DEF Sound, IsOpen, IsStarted
    <2> QED
      BY <1>6, <2>1, <2>2
  <1> QED
    BY <1>2, <1>3, <1>4, <1>5, <1>7

LEMMA CallInit == Init => CallInv
  BY BeforeNoWire DEF Init, CallInv, IdleStream

LEMMA CallStep ==
    PipelineInv /\ PipelineInv' /\ CallInv /\ [Next]_vars => CallInv'
  <1> SUFFICES ASSUME PipelineInv, PipelineInv', CallInv, [Next]_vars
               PROVE  CallInv'
    OBVIOUS
  <1>1. /\ Sound(pipeline, stream, wire, enabled)
        /\ pipeline \in Seq(Batch) /\ wire \in Call
        /\ stream.handshake => AfterHandshake(pipeline, wire, committed)
        /\ ~stream.handshake => BeforeHandshake(wire)
    BY DEF PipelineInv, StreamInv, Sound, CallInv
  <1>2. CASE WriteMutations \/ EnableNetwork
    <2>1. /\ FillWritePipeline(pipeline, stream, wire)
          /\ committed' = committed
      BY <1>2 DEF WriteMutations, EnableNetwork, serverVars
    <2>2. Sound(pipeline, stream, wire, enabled')
      <3>1. enabled' = enabled \/ enabled' = TRUE
        BY <1>2 DEF WriteMutations, EnableNetwork
      <3> QED
        BY <1>1, <3>1 DEF Sound
    <2> QED
      BY <1>1, <2>1, <2>2, FillKeepsCall
  <1>3. CASE ResumeStartWithCredentials
    <2>1. wire'.down = << >> /\ wire'.up = <<Hello>>
      BY <1>3 DEF ResumeStartWithCredentials, NoWire
    <2> QED
      BY <1>3, <2>1, HandshakeIsLost DEF CallInv, BeforeHandshake
  <1>4. CASE BackoffElapsed
    <2>1. stream.retry /\ wire' = wire
      BY <1>4 DEF BackoffElapsed
    <2>2. ~stream.handshake
      BY <1>1, <2>1 DEF Sound, TimersFindTheirState, IsOpen
    <2> QED
      BY <1>1, <1>4, <2>1, <2>2, HandshakeIsLost DEF CallInv
  <1>6. CASE \/ IdleTimeout \/ DisableNetwork \/ Kill \/ KillAfterNotifyUser
             \/ RetryAfterError
    <2>1. wire' = NoWire
      BY <1>6 DEF IdleTimeout, DisableNetwork, Kill, KillAfterNotifyUser,
         Killed, RetryAfterError
    <2> QED
      BY <1>6, <2>1, HandshakeIsLost, BeforeNoWire DEF CallInv
  <1>8. CASE HandshakeComplete
    <2>1. /\ ~stream.handshake /\ wire.down # << >>
          /\ stream' = [stream EXCEPT !.handshake = TRUE,
                                      !.idle = @ /\ pipeline = << >>]
          /\ wire' = [Read(wire) EXCEPT !.up = @ \o pipeline]
          /\ pipeline' = pipeline
      BY <1>8 DEF HandshakeComplete
    <2>2. stream'.handshake
      BY <1>1, <2>1 DEF Sound, StreamState
    <2>3. \A done : AfterHandshake(pipeline,
                           [Read(wire) EXCEPT !.up = @ \o pipeline], done)
      BY <1>1, <2>1, AfterFirstAnswer
    <2> QED
      BY <2>1, <2>2, <2>3 DEF CallInv
  <1>9. CASE OnWriteStreamMutationResult
    <2>1. /\ wire.down # << >> /\ stream.handshake /\ pipeline # << >>
          /\ FillWritePipeline(Tail(pipeline), stream, Read(wire))
          /\ committed' = committed /\ enabled' = enabled
      BY <1>9 DEF OnWriteStreamMutationResult, serverVars
    <2>2. Sound(Tail(pipeline), stream, Read(wire), enabled')
      BY <2>1, ReadIsSound, FrontOfPipeline DEF Sound
    <2>3. AfterHandshake(Tail(pipeline), Read(wire), committed)
      BY <1>1, <2>1, AfterRead
    <2> QED
      BY <2>1, <2>2, <2>3, FillKeepsCall
  <1>10. CASE HandleWriteError
    <2>1. /\ pipeline # << >>
          /\ FillWritePipeline(Tail(pipeline), Close(stream, "Initial"),
                               NoWire)
          /\ committed' = committed /\ enabled' = enabled
      BY <1>10 DEF HandleWriteError, serverVars
    <2>2. /\ Sound(Tail(pipeline), Close(stream, "Initial"), NoWire, enabled')
          /\ ~Close(stream, "Initial").handshake
      BY <2>1, ClosedIsSound, StreamCloses, FrontOfPipeline DEF Sound
    <2> QED
      BY <2>1, <2>2, BeforeNoWire, FillKeepsCall
  <1>11. CASE RestartNetwork \/ Launch
              \/ \E u \in User : HandleCredentialChange(u)
    <2>1. committed' = committed
      BY <1>11 DEF RestartNetwork, Launch, HandleCredentialChange, serverVars
    <2>2. EnableStreams \/ UNCHANGED <<pipeline, stream, wire>>
      BY <1>11 DEF RestartNetwork, Launch, HandleCredentialChange
    <2> QED
      BY <2>1, <2>2, EnableKeepsCall DEF CallInv
  <1>12. CASE ServerTakes
    <2> DEFINE r == Head(wire.up)
    <2>1. /\ wire.up # << >> /\ wire.status = "none"
          /\ pipeline' = pipeline /\ stream' = stream
          /\ \/ /\ r.write \in Bad /\ committed' = committed
                /\ wire' = Ended([wire EXCEPT !.up = Tail(@)], "permanent",
                                 wire.down)
             \/ /\ r.write \notin Bad
                /\ wire' = [wire EXCEPT !.up = Tail(@), !.down = Append(@, r)]
                /\ committed' = committed \cup ({r.write} \ {0})
      BY <1>12 DEF ServerTakes, serverVars
    <2>2. CASE stream.handshake
      <3>1. r.write \in Write /\ AfterHandshake(pipeline, wire, committed)
        BY <1>1, <2>1, <2>2, NextRequest
      <3>2. CASE r.write \in Bad
        <4>1. AfterHandshake(pipeline, wire', committed')
          BY <1>1, <2>1, <3>1, <3>2, AfterRefused
        <4> QED
          BY <2>1, <2>2, <4>1 DEF CallInv
      <3>3. CASE r.write \notin Bad
        <4>1. committed \subseteq committed' /\ r.write \in committed'
          BY <2>1, <3>1, <3>3, WritePipelineAssumption DEF Write
        <4>2. wire' = [wire EXCEPT !.up = Tail(@),
                                   !.down = Append(@, Head(wire.up))]
          BY <2>1, <3>3
        <4>3. AfterHandshake(pipeline, wire', committed')
          BY <1>1, <2>1, <3>1, <4>1, <4>2, AfterAnswered
        <4> QED
          BY <2>1, <2>2, <4>3 DEF CallInv
      <3> QED
        BY <3>2, <3>3
    <2>3. CASE ~stream.handshake
      <3>1. wire.down = << >> /\ wire.up = <<Hello>>
        BY <1>1, <2>1, <2>3 DEF BeforeHandshake
      <3>2. r = Hello /\ Hello.write = 0
        BY <3>1 DEF Hello, NoBatch
      <3>3. r.write \notin Bad
        BY <3>2, WritePipelineAssumption DEF Write
      <3>4. wire' = [wire EXCEPT !.up = Tail(@), !.down = Append(@, Hello)]
        BY <2>1, <3>2, <3>3
      <3>5. Tail(<<Hello>>) = << >> /\ Append(<< >>, Hello) = <<Hello>>
        OBVIOUS
      <3>6. wire'.down = <<Hello>> /\ wire'.up = << >> /\ wire'.status = "none"
        BY <1>1, <2>1, <3>1, <3>4, <3>5 DEF Call
      <3> QED
        BY <2>1, <2>3, <3>6 DEF CallInv, BeforeHandshake
    <2> QED
      BY <2>2, <2>3
  <1>13. CASE CallBreaks
    <2>1. /\ pipeline' = pipeline /\ stream' = stream /\ committed' = committed
          /\ \/ \E n \in 0 .. Len(wire.down) :
                   wire' = Ended(wire, "transient", SubSeq(wire.down, 1, n))
             \/ /\ wire.up # << >> /\ Head(wire.up) = Hello
                /\ wire.status = "none"
                /\ wire' = Ended(wire, "permanent", << >>)
      BY <1>13 DEF CallBreaks, serverVars
    <2>2. CASE stream.handshake
      <3>1. AfterHandshake(pipeline, wire, committed)
        BY <1>1, <2>2
      <3>2. PICK n \in 0 .. Len(wire.down) :
                    wire' = Ended(wire, "transient", SubSeq(wire.down, 1, n))
        BY <1>1, <2>1, <3>1, NextRequest
      <3>3. AfterHandshake(pipeline, wire', committed)
        BY <1>1, <3>1, <3>2, AfterBreak
      <3> QED
        BY <2>1, <2>2, <3>3 DEF CallInv
    <2>3. CASE ~stream.handshake
      <3>1. BeforeHandshake(wire)
        BY <1>1, <2>3
      <3>2. ASSUME NEW status, NEW down
            PROVE  /\ Ended(wire, status, down).up = wire.up
                   /\ Ended(wire, status, down).down = down
                   /\ Ended(wire, status, down).status = status
        BY <1>1 DEF Call, Ended
      <3>3. ASSUME NEW n \in 0 .. Len(wire.down)
            PROVE  SubSeq(wire.down, 1, n) \in {<< >>, wire.down}
        <4>1. Len(wire.down) = 0 \/ Len(wire.down) = 1
          <5>1. Len(<< >>) = 0 /\ Len(<<Hello>>) = 1
            BY EmptySeq
          <5>2. wire.down = << >> \/ wire.down = <<Hello>>
            BY <3>1 DEF BeforeHandshake
          <5> QED
            BY <5>1, <5>2
        <4>2. wire.down \in Seq(Request)
          BY <1>1 DEF Call, Request
        <4>3. CASE n = 0
          <5>1. SubSeq(wire.down, 1, 0) = << >>
            BY SubSeqEmpty
          <5> QED
            BY <4>3, <5>1
        <4>4. CASE n # 0
          <5>1. n \in 0 .. Len(wire.down)
            OBVIOUS
          <5>2. n = Len(wire.down)
            <6> DEFINE k == Len(wire.down)
            <6>1. (k = 0 \/ k = 1) /\ n \in 0 .. k /\ n # 0
              BY <4>1, <4>4, <5>1
            <6> HIDE DEF k
            <6>2. n = k
              BY <6>1
            <6> QED
              BY <6>2 DEF k
          <5> QED
            BY <4>2, <5>2, SubSeqFull
        <4> QED
          BY <4>3, <4>4
      <3>4. BeforeHandshake(wire')
        <4>1. CASE wire' = Ended(wire, "permanent", << >>) /\ wire.up # << >>
          BY <3>1, <3>2, <4>1 DEF BeforeHandshake
        <4>2. CASE \E n \in 0 .. Len(wire.down) :
                     wire' = Ended(wire, "transient", SubSeq(wire.down, 1, n))
          <5>0. PICK n \in 0 .. Len(wire.down) :
                     wire' = Ended(wire, "transient", SubSeq(wire.down, 1, n))
            BY <4>2
          <5>1. /\ wire'.up = wire.up /\ wire'.status = "transient"
                /\ wire'.down = SubSeq(wire.down, 1, n)
            <6> DEFINE q == SubSeq(wire.down, 1, n)
            <6>1. wire' = Ended(wire, "transient", q)
              BY <5>0
            <6> HIDE DEF q
            <6>2. /\ wire'.up = wire.up /\ wire'.status = "transient"
                  /\ wire'.down = q
              BY <3>2, <6>1
            <6> QED
              BY <6>2 DEF q
          <5>2. wire'.down \in {<< >>, wire.down}
            BY <3>3, <5>1
          <5> QED
            BY <3>1, <5>1, <5>2 DEF BeforeHandshake
        <4> QED
          BY <2>1, <4>1, <4>2
      <3> QED
        BY <2>1, <2>3, <3>4 DEF CallInv
    <2> QED
      BY <2>2, <2>3
  <1>14. CASE UNCHANGED <<pipeline, stream, wire, committed>>
    BY <1>14 DEF CallInv
  <1> QED
    BY <1>2, <1>3, <1>4, <1>6, <1>8, <1>9, <1>10, <1>11, <1>12, <1>13,
       <1>14 DEF Next, CalmDown, vars, clientVars, serverVars

(* "This is a response to a write containing mutations and should be       *)
(* correlated to the first write in our write pipeline"                    *)
(* (remote_store.cc): once the handshake is done the answers and requests  *)
(* of the call are the pipeline, in its order, also while the call breaks. *)
THEOREM AnswersFollowPipeline == Spec => []AnswersMatchPipeline
  <1>1. CallInv => AnswersMatchPipeline
    BY DEF CallInv, AfterHandshake, AnswersMatchPipeline
  <1> QED
    BY <1>1, PipelineInit, PipelineStep, CallInit, CallStep, PTL DEF Spec

-----------------------------------------------------------------------------
(* What writers are told.                                                  *)

ToldInv == WritesInOrder /\ CallbacksMatchQueue /\ RefusedHasCause

(* The callback that is found for the front of the pipeline is that of the *)
(* front.                                                                  *)
LEMMA TellsFront ==
    ASSUME PipelineInv, CallbacksMatchQueue, pipeline # << >>, NEW what,
           Tells(Head(pipeline), what)
    PROVE  \/ told' = told
           \/ told' = [told EXCEPT ![Head(pipeline).write] = what]
  <1> DEFINE b == Head(pipeline)
             q == queue[user]
  <1>1. /\ q \in Seq(Batch) /\ q # << >> /\ b = Head(q) /\ user \in User
        /\ InOrder(q)
    BY FrontOfPipeline DEF PipelineInv, StoreTypes, QueuesInOrder
  <1>2. /\ DOMAIN q = 1 .. Len(q) /\ Len(q) \in Nat \ {0} /\ b = q[1]
        /\ \A i \in 1 .. Len(q) : q[i].id \in Nat
    BY <1>1, EmptySeq, BatchesOfQueue
  <1>3. \A i \in 1 .. Len(q) : q[i].id = q[1].id => i = 1
    BY <1>1, <1>2 DEF InOrder
  <1>4. \A c \in callbacks[user] : \E i \in 1 .. Len(q) : c = q[i]
    BY <1>1, <1>2 DEF CallbacksMatchQueue, ToSet
  <1> HIDE DEF b, q
  <1>5. \A c \in callbacks[user] : c.id = b.id => c = b
    BY <1>2, <1>3, <1>4
  <1>6. CASE \E c \in callbacks[user] : c.id = b.id
    <2> DEFINE d == CHOOSE c \in callbacks[user] : c.id = b.id
    <2>1. d = b
      BY <1>5, <1>6
    <2>2. told' = [told EXCEPT ![d.write] = what]
      BY <1>6 DEF Tells, b
    <2> QED
      BY <2>1, <2>2 DEF b
  <1>7. CASE ~ \E c \in callbacks[user] : c.id = b.id
    BY <1>7 DEF Tells, b
  <1> QED
    BY <1>6, <1>7

(* The front of the pipeline is a write of the user, and no other user's.  *)
LEMMA FrontIsIssued ==
    ASSUME PipelineInv, WritesInOrder, pipeline # << >>
    PROVE  /\ Head(pipeline).write \in issued[user]
           /\ Head(pipeline).write \in Write
           /\ user \in User
           /\ \A u \in User : Head(pipeline).write \in issued[u] => u = user
  <1>1. /\ queue[user] \in Seq(Batch) /\ queue[user] # << >>
        /\ Head(pipeline) = Head(queue[user]) /\ Head(pipeline) \in Batch
        /\ user \in User
    BY FrontOfPipeline DEF PipelineInv, StoreTypes
  <1>2. 1 \in DOMAIN queue[user] /\ Head(pipeline) = queue[user][1]
    <2>1. Len(queue[user]) \in Nat \ {0} /\ DOMAIN queue[user] =
                                               1 .. Len(queue[user])
      BY <1>1, EmptySeq, LenProperties
    <2> QED
      BY <1>1, <2>1
  <1>3. Head(pipeline).write \in issued[user]
    BY <1>1, <1>2 DEF WritesInOrder
  <1>4. \A u \in User : u # user => issued[u] \cap issued[user] = {}
    BY <1>1 DEF WritesInOrder, Numbered
  <1> QED
    BY <1>1, <1>3, <1>4 DEF Batch

(* The steps that settle the front of the pipeline or tell its writer.     *)
LEMMA SettleKeepsTold ==
    ASSUME PipelineInv, ToldInv, pipeline # << >>,
           NEW what \in {"done", "refused"},
           Settles(Head(pipeline), what), issued' = issued,
           committed' = committed, user' = user,
           what = "done" => Head(pipeline).write \in committed,
           what = "refused" =>
              \/ Head(pipeline).write \in Bad
              \/ /\ Head(pipeline).write \in committed
                 /\ \E b \in issued[user] \cap Bad : b > Head(pipeline).write
    PROVE  ToldInv'
  <1> DEFINE w == Head(pipeline).write
  <1>1. /\ queue' = [queue EXCEPT ![user] = Tail(queue[user])]
        /\ queue \in [User -> Seq(Batch)] /\ user \in User
        /\ callbacks \in [User -> SUBSET Batch]
        /\ told \in [Write -> {"nothing", "done", "refused"}]
    BY SettlesFront DEF PipelineInv, StoreTypes
  <1>2. /\ queue[user] \in Seq(Batch) /\ InOrder(queue[user])
        /\ queue[user] # << >> /\ Head(pipeline) = Head(queue[user])
    BY <1>1, FrontOfPipeline DEF PipelineInv, QueuesInOrder
  <1>3. /\ \A u \in User : queue'[u] = IF u = user THEN Tail(queue[user])
                                                   ELSE queue[u]
        /\ \A i \in DOMAIN Tail(queue[user]) :
              /\ i + 1 \in DOMAIN queue[user]
              /\ Tail(queue[user])[i] = queue[user][i + 1]
        /\ DOMAIN Tail(queue[user]) \subseteq Nat
    <2>1. DOMAIN Tail(queue[user]) \subseteq Nat
      BY <1>2, HeadTailProperties, LenProperties
    <2> QED
      BY <1>1, <1>2, <2>1, TailInOrder
  <1>4. \/ told' = told
        \/ told' = [told EXCEPT ![w] = what]
    BY TellsFront DEF Settles, ToldInv
  <1>5. /\ w \in issued[user] /\ w \in Write
        /\ \A u \in User : w \in issued[u] => u = user
    BY FrontIsIssued DEF ToldInv
  <1> HIDE DEF w
  <1>6. \A x \in Write : told'[x] = told[x] \/ (x = w /\ told'[x] = what)
    BY <1>1, <1>4, <1>5
  <1>7. WritesInOrder'
    <2>1. \E n \in Nat : Numbered(n)'
      <3>1. \A n \in Nat : Numbered(n)' = Numbered(n)
        BY DEF Numbered
      <3> QED
        BY <3>1 DEF ToldInv, WritesInOrder
    <2>2. \A x \in Write : told'[x] # "nothing" =>
                              \E u \in User : x \in issued'[u]
      BY <1>1, <1>5, <1>6 DEF ToldInv, WritesInOrder
    <2>3. ASSUME NEW u \in User
          PROVE  /\ \A i \in DOMAIN queue'[u] : queue'[u][i].write \in issued'[u]
                 /\ \A i, j \in DOMAIN queue'[u] :
                       i < j => queue'[u][i].write < queue'[u][j].write
      <3>1. /\ \A i \in DOMAIN queue[u] : queue[u][i].write \in issued[u]
            /\ \A i, j \in DOMAIN queue[u] :
                  i < j => queue[u][i].write < queue[u][j].write
        BY DEF ToldInv, WritesInOrder
      <3>2. CASE u = user
        <4> DEFINE rest == Tail(queue[user])
        <4>1. queue'[u] = rest /\ rest = Tail(queue[user])
          BY <1>3, <3>2
        <4> HIDE DEF rest
        <4>2. /\ DOMAIN rest \subseteq Nat
              /\ \A i \in DOMAIN rest : /\ i + 1 \in DOMAIN queue[user]
                                       /\ rest[i] = queue[user][i + 1]
          BY <1>3, <4>1
        <4>3. \A i \in DOMAIN rest : rest[i].write \in issued[user]
          BY <3>1, <3>2, <4>2
        <4>4. ASSUME NEW i \in DOMAIN rest, NEW j \in DOMAIN rest, i < j
              PROVE  rest[i].write < rest[j].write
          <5>1. /\ i + 1 \in DOMAIN queue[user] /\ j + 1 \in DOMAIN queue[user]
                /\ rest[i] = queue[user][i + 1] /\ rest[j] = queue[user][j + 1]
                /\ i + 1 < j + 1
            BY <4>2, <4>4
          <5> QED
            BY <3>1, <3>2, <5>1
        <4> QED
          BY <3>2, <4>1, <4>3, <4>4
      <3>3. CASE u # user
        BY <1>3, <3>1, <3>3
      <3> QED
        BY <3>2, <3>3
    <2> QED
      BY <2>1, <2>2, <2>3 DEF WritesInOrder
  <1>8. CallbacksMatchQueue'
    <2>1. \A u \in User : callbacks'[u] = IF u = user
             THEN {c \in callbacks[user] : c.id # Head(pipeline).id}
             ELSE callbacks[u]
      BY <1>1 DEF Settles
    <2>2. {c \in callbacks[user] : c.id # Head(pipeline).id}
              \subseteq ToSet(Tail(queue[user]))
      <3> SUFFICES ASSUME NEW c \in callbacks[user], c.id # Head(pipeline).id
                   PROVE  c \in ToSet(Tail(queue[user]))
        OBVIOUS
      <3>1. PICK i \in DOMAIN queue[user] : c = queue[user][i]
        BY <1>1 DEF ToldInv, CallbacksMatchQueue, ToSet
      <3>2. /\ DOMAIN queue[user] = 1 .. Len(queue[user])
            /\ Len(queue[user]) \in Nat
            /\ Head(queue[user]) = queue[user][1]
            /\ Len(Tail(queue[user])) = Len(queue[user]) - 1
            /\ DOMAIN Tail(queue[user]) = 1 .. Len(Tail(queue[user]))
        BY <1>2, HeadTailProperties, LenProperties
      <3>3. i # 1
        BY <1>2, <3>1, <3>2
      <3>4. i - 1 \in DOMAIN Tail(queue[user]) /\ (i - 1) + 1 = i
        BY <3>2, <3>3
      <3>5. c = Tail(queue[user])[i - 1]
        BY <1>3, <3>1, <3>4
      <3> QED
        BY <3>4, <3>5 DEF ToSet
    <2>3. \A u \in User : callbacks'[u] \subseteq ToSet(queue'[u])
      BY <1>3, <2>1, <2>2 DEF ToldInv, CallbacksMatchQueue
    <2>4. \A x \in Write : told'[x] = "done" => x \in committed'
      BY <1>6 DEF ToldInv, CallbacksMatchQueue, w
    <2> QED
      BY <2>3, <2>4 DEF CallbacksMatchQueue
  <1>9. RefusedHasCause'
    <2> SUFFICES ASSUME NEW u \in User, NEW x \in issued[u],
                        told'[x] = "refused"
                 PROVE  \/ x \in Bad
                        \/ /\ x \in committed
                           /\ \E b \in issued[u] \cap Bad : b > x
      BY DEF RefusedHasCause
    <2>1. x \in Write
      BY DEF PipelineInv, StoreTypes
    <2>2. CASE told'[x] = told[x]
      BY <2>2 DEF ToldInv, RefusedHasCause
    <2>3. CASE x = w /\ told'[x] = what
      BY <1>5, <2>3 DEF w
    <2> QED
      BY <1>6, <2>1, <2>2, <2>3
  <1> QED
    BY <1>7, <1>8, <1>9 DEF ToldInv

LEMMA ToldInit == Init => ToldInv
  <1> SUFFICES ASSUME Init
               PROVE  ToldInv
    OBVIOUS
  <1>1. /\ \A u \in User : queue[u] = << >> /\ callbacks[u] = {} /\ issued[u] = {}
        /\ \A w \in Write : told[w] = "nothing"
    BY DEF Init
  <1>2. \A u \in User : DOMAIN queue[u] = {}
    BY <1>1, EmptySeq
  <1>3. Numbered(0)
    <2>1. UNION {issued[u] : u \in User} = 1 .. 0
      BY <1>1
    <2> QED
      BY <1>1, <2>1 DEF Numbered
  <1>4. WritesInOrder
    BY <1>1, <1>2, <1>3 DEF WritesInOrder
  <1> QED
    BY <1>1, <1>4 DEF ToldInv, CallbacksMatchQueue, RefusedHasCause

(* The steps that tell nobody anything: the server may take a write, and   *)
(* another user may sign in.                                               *)
LEMMA SilentKeepsTold ==
    ASSUME ToldInv, UNCHANGED <<queue, callbacks, issued, told>>,
           committed \subseteq committed'
    PROVE  ToldInv'
  <1>1. \A n \in Nat : Numbered(n)' = Numbered(n)
    BY DEF Numbered
  <1>2. WritesInOrder'
    BY <1>1 DEF ToldInv, WritesInOrder
  <1>3. CallbacksMatchQueue'
    BY DEF ToldInv, CallbacksMatchQueue
  <1>4. RefusedHasCause'
    BY DEF ToldInv, RefusedHasCause
  <1> QED
    BY <1>2, <1>3, <1>4 DEF ToldInv

(* A new write is the latest of all and goes to the end of the queue, and  *)
(* its writer is told nothing yet.                                         *)
LEMMA WriteKeepsTold ==
    ASSUME PipelineInv, ToldInv, WriteMutations
    PROVE  ToldInv'
  <1>1. PICK w \in Write :
          LET b == [id |-> nextBatchId, write |-> w] IN
          /\ w = Cardinality(UNION {issued[u] : u \in User}) + 1
          /\ b \in Batch
          /\ queue' = [queue EXCEPT ![user] = Append(queue[user], b)]
          /\ issued' = [issued EXCEPT ![user] = @ \cup {w}]
    BY WriteAppends
  <1> DEFINE b == [id |-> nextBatchId, write |-> w]
  <1>2. /\ b \in Batch /\ b.write = w /\ b.id = nextBatchId
        /\ queue' = [queue EXCEPT ![user] = Append(queue[user], b)]
    BY <1>1
  <1> HIDE DEF b
  <1>3. /\ queue \in [User -> Seq(Batch)] /\ user \in User
        /\ callbacks \in [User -> SUBSET Batch]
        /\ issued \in [User -> SUBSET Write]
    BY DEF PipelineInv, StoreTypes
  <1>4. PICK n \in Nat : Numbered(n)
    BY DEF ToldInv, WritesInOrder
  <1>5. w = n + 1
    BY <1>1, <1>4, CountUpTo DEF Numbered
  <1>6. \A u \in User : issued'[u] = IF u = user THEN issued[u] \cup {w}
                                                 ELSE issued[u]
    BY <1>1, <1>3
  <1>7. \A u \in User : issued[u] \subseteq 1 .. n
    BY <1>4 DEF Numbered
  <1>8. Numbered(n + 1)'
    <2>1. UNION {issued'[u] : u \in User} =
              (UNION {issued[u] : u \in User}) \cup {w}
      <3>1. ASSUME NEW x
            PROVE  (\E u \in User : x \in issued'[u]) <=>
                       (\E u \in User : x \in issued[u]) \/ x = w
        <4>1. x = w => \E u \in User : x \in issued'[u]
          BY <1>3, <1>6
        <4>2. ASSUME NEW u \in User, x \in issued[u]
              PROVE  x \in issued'[u]
          BY <1>6, <4>2
        <4>3. ASSUME NEW u \in User, x \in issued'[u]
              PROVE  x \in issued[u] \/ x = w
          BY <1>6, <4>3
        <4> QED
          BY <4>1, <4>2, <4>3
      <3> DEFINE old == UNION {issued[u] : u \in User}
                 new == UNION {issued'[u] : u \in User}
      <3>2. \A x : x \in old <=> \E u \in User : x \in issued[u]
        OBVIOUS
      <3>3. \A x : x \in new <=> \E u \in User : x \in issued'[u]
        OBVIOUS
      <3> HIDE DEF old, new
      <3>4. new = old \cup {w}
        BY <3>1, <3>2, <3>3
      <3> QED
        BY <3>4 DEF old, new
    <2>2. (1 .. n) \cup {n + 1} = 1 .. n + 1
      OBVIOUS
    <2>3. UNION {issued'[u] : u \in User} = 1 .. n + 1
      <3>1. UNION {issued[u] : u \in User} = 1 .. n
        BY <1>4 DEF Numbered
      <3>2. UNION {issued'[u] : u \in User} = (1 .. n) \cup {w}
        BY <2>1, <3>1, Zenon
      <3> QED
        BY <1>5, <2>2, <3>2, Zenon
    <2>4. \A u \in User : w \notin issued[u]
      BY <1>5, <1>7
    <2>5. \A u, v \in User : u # v => issued'[u] \cap issued'[v] = {}
      BY <1>4, <1>6, <2>4 DEF Numbered
    <2> QED
      BY <2>3, <2>5 DEF Numbered
  <1>9. told' = told /\ committed' = committed /\ user' = user
    BY DEF WriteMutations, serverVars
  <1>10. told[w] = "nothing"
    BY <1>5, <1>7 DEF ToldInv, WritesInOrder
  <1> DEFINE q == queue[user]
             r == Append(q, b)
  <1>11. /\ \A u \in User : queue'[u] = IF u = user THEN r ELSE queue[u]
         /\ q \in Seq(Batch)
    BY <1>2, <1>3
  <1>12. /\ DOMAIN q = 1 .. Len(q) /\ Len(q) \in Nat
         /\ DOMAIN r = 1 .. Len(q) + 1
         /\ \A i \in 1 .. Len(q) : r[i] = q[i]
         /\ r[Len(q) + 1] = b
    <2>1. r \in Seq(Batch) /\ Len(r) = Len(q) + 1
      BY <1>2, <1>11, AppendProperties
    <2> QED
      BY <1>2, <1>11, <2>1, AppendProperties, LenProperties
  <1>13. /\ \A i \in DOMAIN q : q[i].write \in issued[user]
         /\ \A i, j \in DOMAIN q : i < j => q[i].write < q[j].write
    BY <1>3 DEF ToldInv, WritesInOrder
  <1> HIDE DEF r, q
  <1>14. ASSUME NEW i \in DOMAIN r
         PROVE  r[i].write \in issued'[user]
    <2>1. issued'[user] = issued[user] \cup {w}
      BY <1>3, <1>6
    <2>2. CASE i = Len(q) + 1
      BY <1>2, <1>12, <2>1, <2>2
    <2>3. CASE i \in 1 .. Len(q)
      BY <1>12, <1>13, <2>1, <2>3
    <2> QED
      BY <1>12, <2>2, <2>3
  <1>15. ASSUME NEW i \in DOMAIN r, NEW j \in DOMAIN r, i < j
         PROVE  r[i].write < r[j].write
    <2>1. i \in 1 .. Len(q) /\ r[i] = q[i] /\ q[i].write \in 1 .. n
      BY <1>3, <1>7, <1>12, <1>13, <1>15
    <2>2. CASE j = Len(q) + 1
      BY <1>2, <1>5, <1>12, <2>1, <2>2
    <2>3. CASE j \in 1 .. Len(q)
      BY <1>12, <1>13, <1>15, <2>1, <2>3
    <2> QED
      BY <1>12, <2>2, <2>3
  <1>16. WritesInOrder'
    <2>1. \E m \in Nat : Numbered(m)'
      BY <1>8
    <2>2. \A x \in Write : told'[x] # "nothing" =>
                              \E u \in User : x \in issued'[u]
      BY <1>6, <1>9 DEF ToldInv, WritesInOrder
    <2>3. ASSUME NEW u \in User
          PROVE  /\ \A i \in DOMAIN queue'[u] : queue'[u][i].write \in issued'[u]
                 /\ \A i, j \in DOMAIN queue'[u] :
                       i < j => queue'[u][i].write < queue'[u][j].write
      <3>1. CASE u = user
        BY <1>11, <1>14, <1>15, <3>1
      <3>2. CASE u # user
        BY <1>6, <1>11, <3>2 DEF ToldInv, WritesInOrder
      <3> QED
        BY <3>1, <3>2
    <2> QED
      BY <2>1, <2>2, <2>3 DEF WritesInOrder
  <1>17. CallbacksMatchQueue'
    <2>1. \A u \in User : callbacks'[u] \subseteq
                             callbacks[u] \cup (IF u = user THEN {b} ELSE {})
      BY <1>1, <1>3 DEF WriteMutations, b
    <2>2. \A u \in User : callbacks[u] \subseteq ToSet(queue[u])
      BY DEF ToldInv, CallbacksMatchQueue
    <2>3. ToSet(q) \cup {b} \subseteq ToSet(r)
      BY <1>12 DEF ToSet
    <2>4. \A u \in User : callbacks'[u] \subseteq ToSet(queue'[u])
      BY <1>3, <1>11, <2>1, <2>2, <2>3 DEF q
    <2> QED
      BY <1>9, <2>4 DEF ToldInv, CallbacksMatchQueue
  <1>18. RefusedHasCause'
    BY <1>6, <1>9, <1>10 DEF ToldInv, RefusedHasCause
  <1> QED
    BY <1>16, <1>17, <1>18 DEF ToldInv

(* The answer that is read is for a write that the server has carried out. *)
LEMMA ResultKeepsTold ==
    ASSUME PipelineInv, CallInv, ToldInv, OnWriteStreamMutationResult
    PROVE  ToldInv'
  <1>1. /\ wire.down # << >> /\ stream.handshake /\ pipeline # << >>
        /\ Settles(Head(pipeline), "done")
        /\ issued' = issued /\ committed' = committed /\ user' = user
    BY DEF OnWriteStreamMutationResult, serverVars
  <1>2. /\ pipeline \in Seq(Batch) /\ wire \in Call
        /\ AfterHandshake(pipeline, wire, committed)
    BY <1>1 DEF PipelineInv, StreamInv, Sound, CallInv
  <1>3. Head(pipeline).write \in committed
    BY <1>1, <1>2, AfterRead
  <1>4. "done" \in {"done", "refused"}
    OBVIOUS
  <1> QED
    BY <1>1, <1>3, <1>4, SettleKeepsTold

(* The refused write is the front of the pipeline, or one after it, which  *)
(* the same user made later.                                               *)
LEMMA ErrorKeepsTold ==
    ASSUME PipelineInv, CallInv, ToldInv, HandleWriteError
    PROVE  ToldInv'
  <1>1. /\ wire.status = "permanent" /\ stream.handshake /\ pipeline # << >>
        /\ Settles(Head(pipeline), "refused")
        /\ issued' = issued /\ committed' = committed /\ user' = user
    BY DEF HandleWriteError, serverVars
  <1>2. /\ pipeline \in Seq(Batch)
        /\ AfterHandshake(pipeline, wire, committed)
    BY <1>1 DEF PipelineInv, StreamInv, Sound, CallInv
  <1>3. PICK j \in 1 .. Len(pipeline) : RefusedAt(pipeline, wire, committed, j)
    BY <1>1, <1>2 DEF AfterHandshake
  <1>4. /\ pipeline[j].write \in Bad
        /\ \A i \in 1 .. j - 1 : pipeline[i].write \in committed
    BY <1>3 DEF RefusedAt
  <1>5. Head(pipeline) = pipeline[1] /\ Len(pipeline) \in Nat
    BY <1>1, <1>2, LenProperties, EmptySeq
  <1>6. CASE j = 1
    <2>1. Head(pipeline).write \in Bad
      BY <1>4, <1>5, <1>6
    <2>2. "refused" \in {"done", "refused"} /\ "refused" # "done"
      OBVIOUS
    <2> QED
      BY <1>1, <2>1, <2>2, SettleKeepsTold
  <1>7. CASE j # 1
    <2>1. 1 \in 1 .. j - 1 /\ 1 \in 1 .. Len(pipeline) /\ 1 < j
      BY <1>3, <1>5, <1>7
    <2>2. Head(pipeline).write \in committed
      BY <1>4, <1>5, <2>1
    <2>3. /\ running /\ enabled /\ queue[user] \in Seq(Batch) /\ user \in User
      BY <1>1, FrontOfPipeline DEF PipelineInv, StoreTypes
    <2>5. /\ Len(pipeline) <= Len(queue[user])
          /\ \A i \in 1 .. Len(pipeline) : pipeline[i] = queue[user][i]
          /\ DOMAIN queue[user] = 1 .. Len(queue[user])
          /\ Len(queue[user]) \in Nat
      <3>1. DOMAIN queue[user] = 1 .. Len(queue[user])
        BY <2>3, LenProperties
      <3> QED
        BY <1>1, <3>1, PipelineInQueue
    <2>6. /\ 1 \in DOMAIN queue[user] /\ j \in DOMAIN queue[user]
          /\ pipeline[1] = queue[user][1] /\ pipeline[j] = queue[user][j]
      BY <1>3, <1>5, <2>1, <2>5
    <2>7. /\ queue[user][j].write \in issued[user]
          /\ queue[user][1].write < queue[user][j].write
      BY <2>1, <2>3, <2>6 DEF ToldInv, WritesInOrder
    <2>8. /\ pipeline[j].write \in issued[user] \cap Bad
          /\ Head(pipeline).write \in Write /\ pipeline[j].write \in Write
          /\ pipeline[j].write > Head(pipeline).write
      <3>1. issued[user] \subseteq Write
        BY <2>3 DEF PipelineInv, StoreTypes
      <3>2. queue[user][1].write \in Write
        BY <2>3, <2>5, <2>6, BatchesOfQueue
      <3> QED
        BY <1>4, <1>5, <2>6, <2>7, <3>1, <3>2 DEF Write
    <2>9. "refused" \in {"done", "refused"} /\ "refused" # "done"
      OBVIOUS
    <2> QED
      BY <1>1, <2>2, <2>8, <2>9, SettleKeepsTold
  <1> QED
    BY <1>6, <1>7

(* The process dies with all callbacks, at worst after it has told one     *)
(* writer of an answer.                                                    *)
LEMMA KillKeepsTold ==
    ASSUME PipelineInv, CallInv, ToldInv, Kill \/ KillAfterNotifyUser
    PROVE  ToldInv'
  <1>1. /\ UNCHANGED <<queue, issued, committed>>
        /\ callbacks' = [u \in User |-> {}]
    BY DEF Kill, KillAfterNotifyUser, Killed, serverVars
  <1>2. ASSUME KillAfterNotifyUser
        PROVE  /\ Head(pipeline).write \in committed
               /\ Head(pipeline).write \in Write
               /\ \E u \in User : Head(pipeline).write \in issued[u]
               /\ \/ told' = told
                  \/ told' = [told EXCEPT ![Head(pipeline).write] = "done"]
    <2>1. /\ wire.down # << >> /\ stream.handshake /\ pipeline # << >>
          /\ Tells(Head(pipeline), "done")
      BY <1>2 DEF KillAfterNotifyUser
    <2>2. /\ pipeline \in Seq(Batch) /\ wire \in Call
          /\ AfterHandshake(pipeline, wire, committed)
      BY <2>1 DEF PipelineInv, StreamInv, Sound, CallInv
    <2>3. Head(pipeline).write \in committed
      BY <2>1, <2>2, AfterRead
    <2>4. /\ Head(pipeline).write \in issued[user] /\ user \in User
          /\ Head(pipeline).write \in Write
      BY <2>1, FrontIsIssued DEF ToldInv
    <2>5. \/ told' = told
          \/ told' = [told EXCEPT ![Head(pipeline).write] = "done"]
      BY <2>1, TellsFront DEF ToldInv
    <2> QED
      BY <2>3, <2>4, <2>5
  <1>3. \A x \in Write : \/ told'[x] = told[x]
                         \/ /\ told'[x] = "done" /\ x \in committed
                            /\ \E u \in User : x \in issued[u]
    <2>1. told \in [Write -> {"nothing", "done", "refused"}]
      BY DEF PipelineInv, StoreTypes
    <2>2. CASE Kill
      BY <2>2 DEF Kill
    <2>3. CASE KillAfterNotifyUser
      BY <1>2, <2>1, <2>3
    <2> QED
      BY <2>2, <2>3
  <1>4. \A n \in Nat : Numbered(n)' = Numbered(n)
    BY <1>1 DEF Numbered
  <1>5. WritesInOrder'
    BY <1>1, <1>3, <1>4 DEF ToldInv, WritesInOrder
  <1>6. CallbacksMatchQueue'
    BY <1>1, <1>3 DEF ToldInv, CallbacksMatchQueue
  <1>7. RefusedHasCause'
    <2>1. \A u \in User : issued[u] \subseteq Write
      BY DEF PipelineInv, StoreTypes
    <2>2. "done" # "refused"
      OBVIOUS
    <2> QED
      BY <1>1, <1>3, <2>1, <2>2 DEF ToldInv, RefusedHasCause
  <1> QED
    BY <1>5, <1>6, <1>7 DEF ToldInv

LEMMA ToldStep ==
    PipelineInv /\ CallInv /\ ToldInv /\ [Next]_vars => ToldInv'
  <1> SUFFICES ASSUME PipelineInv, CallInv, ToldInv, [Next]_vars
               PROVE  ToldInv'
    OBVIOUS
  <1>1. CASE \/ ResumeStartWithCredentials \/ BackoffElapsed \/ IdleTimeout
             \/ HandshakeComplete \/ RetryAfterError \/ RestartNetwork
             \/ \E u \in User : HandleCredentialChange(u)
             \/ DisableNetwork \/ EnableNetwork \/ Launch \/ CallBreaks
             \/ CalmDown \/ UNCHANGED vars
    <2>1. UNCHANGED <<queue, callbacks, issued, told, committed>>
      BY <1>1 DEF ResumeStartWithCredentials, BackoffElapsed, IdleTimeout,
         HandshakeComplete, RetryAfterError, RestartNetwork,
         HandleCredentialChange, DisableNetwork, EnableNetwork, Launch,
         CallBreaks, CalmDown, vars, clientVars, serverVars
    <2> QED
      BY <2>1, SilentKeepsTold
  <1>2. CASE ServerTakes
    <2>1. UNCHANGED <<queue, callbacks, issued, told>>
      BY <1>2 DEF ServerTakes
    <2>2. committed \subseteq committed'
      BY <1>2 DEF ServerTakes, serverVars
    <2> QED
      BY <2>1, <2>2, SilentKeepsTold
  <1> QED
    BY <1>1, <1>2, WriteKeepsTold, ResultKeepsTold, ErrorKeepsTold,
       KillKeepsTold DEF Next

(* SyncEngine::NotifyUser finds the writer to be told by the batch id      *)
(* alone: every callback in mutation_callbacks_ is that of a batch in the  *)
(* queue, so that an id that LevelDB gives out again never meets the       *)
(* callback of another write, and who is told "done" can rely on it.       *)
THEOREM CallbacksFollowQueue == Spec => []CallbacksMatchQueue
  <1>1. ToldInv => CallbacksMatchQueue
    BY DEF ToldInv
  <1> QED
    BY <1>1, PipelineInit, PipelineStep, CallInit, CallStep, ToldInit, ToldStep,
       PTL DEF Spec

(* "If this was a permanent error, the request itself was the problem"     *)
(* (remote_store.cc:513): RemoteStore::HandleWriteError blames only a      *)
(* write that the server refused, or one that it carried out when a later  *)
(* write of the same user was refused before the answer was read.          *)
THEOREM RefusalsHaveCause == Spec => []RefusedHasCause
  <1>1. ToldInv => RefusedHasCause
    BY DEF ToldInv
  <1> QED
    BY <1>1, PipelineInit, PipelineStep, CallInit, CallStep, ToldInit, ToldStep,
       PTL DEF Spec

-----------------------------------------------------------------------------
(* The client and the server are the outbox that the app counts on.        *)

(* How many writes of the pipeline the server has carried out in a call.   *)
Carried(s, w) ==
    IF s.handshake THEN Len(w.down) + (IF w.status = "permanent" THEN 1 ELSE 0)
                   ELSE 0

LEMMA DoneOfUser ==
    ASSUME PipelineInv
    PROVE  /\ doneOf = [u \in User |->
                           IF u = user THEN Carried(stream, wire) ELSE 0]
           /\ Carried(stream, wire) \in Nat
  <1>1. \A u \in User :
           doneOf[u] = IF u = user THEN Carried(stream, wire) ELSE 0
    BY DEF doneOf, Carried
  <1>2. doneOf = [u \in User |-> doneOf[u]]
    BY DEF doneOf
  <1>3. Len(wire.down) \in Nat
    <2>1. wire.down \in Seq(Batch \cup {Hello})
      BY DEF PipelineInv, StreamInv, Sound, Call
    <2> QED
      BY <2>1, LenProperties
  <1>4. Carried(stream, wire) \in Nat
    <2> DEFINE n == Len(wire.down)
    <2>1. Carried(stream, wire) \in {n + 1, n + 0, 0}
      BY DEF Carried
    <2>2. n \in Nat
      BY <1>3
    <2> HIDE DEF n
    <2> QED
      BY <2>1, <2>2
  <1> QED
    BY <1>1, <1>2, <1>4

(* The writes of a queue.                                                  *)
WritesOf(q) == [i \in DOMAIN q |-> q[i].write]

LEMMA WaitingIsQueue ==
    waitingOf = [u \in User |-> WritesOf(queue[u])]
  BY DEF waitingOf, WritesOf

LEMMA WritesOfQueue ==
    ASSUME NEW q \in Seq(Batch)
    PROVE  /\ WritesOf(q) \in Seq(Write) /\ Len(WritesOf(q)) = Len(q)
           /\ Len(q) \in Nat
           /\ \A i \in 1 .. Len(q) : WritesOf(q)[i] = q[i].write
  <1> DEFINE n == Len(q)
             p == WritesOf(q)
  <1>1. /\ n \in Nat /\ DOMAIN q = 1 .. n
        /\ \A i \in 1 .. n : q[i].write \in Write
    BY BatchesOfQueue
  <1>2. p = [i \in 1 .. n |-> q[i].write]
    BY <1>1 DEF WritesOf
  <1> HIDE DEF n, p
  <1>3. p \in [1 .. n -> Write]
    BY <1>1, <1>2
  <1>4. p \in Seq(Write) /\ DOMAIN p = 1 .. n
    BY <1>1, <1>3, SeqDef
  <1>5. Len(p) = n
    BY <1>1, <1>4, LenProperties
  <1> QED
    BY <1>1, <1>2, <1>4, <1>5 DEF n, p

LEMMA WritesOfTail ==
    ASSUME NEW q \in Seq(Batch), q # << >>
    PROVE  WritesOf(Tail(q)) = Tail(WritesOf(q))
  <1> DEFINE n == Len(q)
             rest == Tail(q)
             p == WritesOf(q)
             r == WritesOf(rest)
  <1>1. /\ rest \in Seq(Batch) /\ Len(rest) = n - 1
        /\ \A i \in 1 .. Len(rest) : rest[i] = q[i + 1]
    BY HeadTailProperties
  <1>2. /\ p \in Seq(Write) /\ Len(p) = n /\ n \in Nat
        /\ \A i \in 1 .. n : p[i] = q[i].write
    BY WritesOfQueue
  <1> HIDE DEF rest, p, r, n
  <1>3. /\ r \in Seq(Write) /\ Len(r) = Len(rest)
        /\ \A i \in 1 .. Len(rest) : r[i] = rest[i].write
    BY <1>1, WritesOfQueue DEF r
  <1>4. n # 0
    BY EmptySeq DEF n
  <1>5. p # << >>
    BY <1>2, <1>4, EmptySeq
  <1>6. /\ Tail(p) \in Seq(Write) /\ Len(Tail(p)) = n - 1
        /\ \A i \in 1 .. Len(Tail(p)) : Tail(p)[i] = p[i + 1]
    BY <1>2, <1>5, HeadTailProperties
  <1>7. ASSUME NEW i \in 1 .. n - 1
        PROVE  r[i] = Tail(p)[i]
    <2>1. i \in 1 .. Len(rest) /\ i + 1 \in 1 .. n
      BY <1>1, <1>2
    <2>2. r[i] = rest[i].write /\ rest[i] = q[i + 1]
      BY <1>1, <1>3, <2>1
    <2>3. Tail(p)[i] = p[i + 1] /\ p[i + 1] = q[i + 1].write
      BY <1>2, <1>6, <2>1
    <2> QED
      BY <2>2, <2>3
  <1>8. r = Tail(p)
    BY <1>1, <1>3, <1>6, <1>7, SeqEqual
  <1> QED
    BY <1>8 DEF r, rest, p

LEMMA WritesOfAppend ==
    ASSUME NEW q \in Seq(Batch), NEW b \in Batch
    PROVE  WritesOf(Append(q, b)) = Append(WritesOf(q), b.write)
  <1> DEFINE n == Len(q)
             longer == Append(q, b)
             p == WritesOf(q)
             r == WritesOf(longer)
             w == b.write
  <1>1. /\ longer \in Seq(Batch) /\ Len(longer) = n + 1
        /\ \A i \in 1 .. n : longer[i] = q[i]
        /\ longer[n + 1] = b
    BY AppendProperties
  <1>2. /\ p \in Seq(Write) /\ Len(p) = n /\ n \in Nat
        /\ \A i \in 1 .. n : p[i] = q[i].write
    BY WritesOfQueue
  <1> HIDE DEF longer, p, r, n
  <1>3. /\ r \in Seq(Write) /\ Len(r) = Len(longer)
        /\ \A i \in 1 .. Len(longer) : r[i] = longer[i].write
    BY <1>1, WritesOfQueue DEF r
  <1>4. w \in Write
    BY DEF Batch
  <1> DEFINE s == Append(p, w)
  <1>5. /\ s \in Seq(Write) /\ Len(s) = n + 1
        /\ \A i \in 1 .. n : s[i] = p[i]
        /\ s[n + 1] = w
    BY <1>2, <1>4, AppendProperties
  <1> HIDE DEF s
  <1>6. ASSUME NEW i \in 1 .. n + 1
        PROVE  r[i] = s[i]
    <2>1. CASE i = n + 1
      BY <1>1, <1>2, <1>3, <1>5, <2>1
    <2>2. CASE i \in 1 .. n
      BY <1>1, <1>2, <1>3, <1>5, <2>2
    <2> QED
      BY <1>2, <2>1, <2>2
  <1>7. r = s
    BY <1>1, <1>3, <1>5, <1>6, SeqEqual
  <1> QED
    BY <1>7 DEF r, longer, s, p

OutboxUnchanged == UNCHANGED <<issued, waitingOf, doneOf, doc>>

(* Batches that are taken into the pipeline change nothing about what the  *)
(* server has carried out.                                                 *)
LEMMA FillKeepsCarried ==
    ASSUME NEW p, NEW s \in StreamState, NEW w \in Call,
           FillWritePipeline(p, s, w)
    PROVE  /\ Carried(stream', wire') = Carried(s, w)
           /\ stream'.handshake = s.handshake
           /\ wire'.down = w.down /\ wire'.status = w.status
  <1>1. stream'.handshake = s.handshake
    BY DEF FillWritePipeline, Start, StartNow, StreamState
  <1>2. wire'.down = w.down /\ wire'.status = w.status
    BY DEF FillWritePipeline, Call
  <1> QED
    BY <1>1, <1>2 DEF Carried

(* The server's work is lost in part, or nothing happens to the outbox.    *)
LEMMA FallsBack ==
    ASSUME PipelineInv, queue' = queue, issued' = issued, doc' = doc,
           NEW n \in 0 .. Carried(stream, wire),
           \A u \in User : doneOf'[u] = IF u = user THEN n ELSE 0
    PROVE  Box!Next \/ OutboxUnchanged
  <1>1. waitingOf' = waitingOf
    BY DEF waitingOf
  <1>2. /\ doneOf = [u \in User |->
                        IF u = user THEN Carried(stream, wire) ELSE 0]
        /\ Carried(stream, wire) \in Nat /\ user \in User
    BY DoneOfUser DEF PipelineInv, StoreTypes
  <1>3. doneOf' = [u \in User |-> doneOf'[u]]
    BY DEF doneOf
  <1>4. CASE n = Carried(stream, wire)
    <2>1. doneOf' = doneOf
      BY <1>2, <1>3, <1>4
    <2> QED
      BY <1>1, <2>1 DEF OutboxUnchanged
  <1>5. CASE n < Carried(stream, wire)
    <2>1. doneOf' = [doneOf EXCEPT ![user] = n]
      BY <1>2, <1>3
    <2>2. n \in 0 .. doneOf[user] - 1
      BY <1>2, <1>5
    <2>3. Box!Interrupt(user)
      BY <1>1, <2>1, <2>2 DEF Box!Interrupt
    <2> QED
      BY <1>2, <2>3 DEF Box!Next
  <1> QED
    BY <1>2, <1>4, <1>5

(* The front of the queue is settled, and perhaps the call is over.        *)
LEMMA SettlesInOutbox ==
    ASSUME PipelineInv, pipeline # << >>, NEW what \in {"done", "refused"},
           Settles(Head(pipeline), what), issued' = issued, doc' = doc,
           PipelineInv', NEW n \in Nat, n < Carried(stream, wire),
           \A u \in User : doneOf'[u] = IF u = user THEN n ELSE 0
    PROVE  Box!Next
  <1>1. /\ queue' = [queue EXCEPT ![user] = Tail(queue[user])]
        /\ queue \in [User -> Seq(Batch)] /\ user \in User
        /\ queue[user] \in Seq(Batch) /\ queue[user] # << >>
    BY SettlesFront, FrontOfPipeline DEF PipelineInv, StoreTypes
  <1>2. /\ doneOf = [u \in User |->
                        IF u = user THEN Carried(stream, wire) ELSE 0]
        /\ Carried(stream, wire) \in Nat
    BY DoneOfUser
  <1>3. doneOf' = [u \in User |-> doneOf'[u]]
    BY DEF doneOf
  <1>4. doneOf' = [doneOf EXCEPT ![user] = n]
    BY <1>2, <1>3
  <1>5. doneOf[user] > 0 /\ n \in 0 .. doneOf[user] - 1
    BY <1>1, <1>2
  <1>6. \A u \in User : queue'[u] = IF u = user THEN Tail(queue[user])
                                                ELSE queue[u]
    BY <1>1
  <1>7. waitingOf' = [waitingOf EXCEPT ![user] = Tail(@)]
    <2>1. WritesOf(Tail(queue[user])) = Tail(WritesOf(queue[user]))
      BY <1>1, WritesOfTail
    <2>2. waitingOf' = [u \in User |-> WritesOf(queue'[u])]
      BY DEF waitingOf, WritesOf
    <2> QED
      BY <1>1, <1>6, <2>1, <2>2, WaitingIsQueue
  <1>8. Box!Settle(user)
    BY <1>4, <1>5, <1>7 DEF Box!Settle
  <1> QED
    BY <1>1, <1>8 DEF Box!Next

LEMMA WriteIsIssued ==
    ASSUME PipelineInv, PipelineInv', ToldInv, WriteMutations
    PROVE  Box!Next
  <1>1. PICK w \in Write :
          LET b == [id |-> nextBatchId, write |-> w] IN
          /\ w = Cardinality(UNION {issued[u] : u \in User}) + 1
          /\ b \in Batch
          /\ queue' = [queue EXCEPT ![user] = Append(queue[user], b)]
          /\ issued' = [issued EXCEPT ![user] = @ \cup {w}]
    BY WriteAppends
  <1> DEFINE b == [id |-> nextBatchId, write |-> w]
  <1>2. /\ b \in Batch /\ b.write = w
        /\ queue' = [queue EXCEPT ![user] = Append(queue[user], b)]
    BY <1>1
  <1> HIDE DEF b
  <1>3. /\ queue \in [User -> Seq(Batch)] /\ user \in User
        /\ queue[user] \in Seq(Batch)
    BY DEF PipelineInv, StoreTypes
  <1>4. \A v \in User : w \notin issued[v]
    <2>1. PICK n \in Nat : Numbered(n)
      BY DEF ToldInv, WritesInOrder
    <2>2. w = n + 1
      BY <1>1, <2>1, CountUpTo DEF Numbered
    <2>3. \A v \in User : issued[v] \subseteq 1 .. n
      BY <2>1 DEF Numbered
    <2> QED
      BY <2>2, <2>3
  <1>5. waitingOf' = [waitingOf EXCEPT ![user] = Append(@, w)]
    <2>1. WritesOf(Append(queue[user], b)) = Append(WritesOf(queue[user]), w)
      BY <1>2, <1>3, WritesOfAppend
    <2>2. waitingOf' = [u \in User |-> WritesOf(queue'[u])]
      BY DEF waitingOf, WritesOf
    <2>3. \A u \in User : queue'[u] = IF u = user THEN Append(queue[user], b)
                                                  ELSE queue[u]
      BY <1>2, <1>3
    <2> QED
      BY <1>3, <2>1, <2>2, <2>3, WaitingIsQueue
  <1>6. user' = user /\ doc' = doc
    BY DEF WriteMutations, serverVars
  <1>7. Carried(stream', wire') = Carried(stream, wire)
    BY FillKeepsCarried DEF WriteMutations, PipelineInv, StreamInv, Sound
  <1>8. doneOf' = doneOf
    <2>1. doneOf' = [u \in User |->
                        IF u = user' THEN Carried(stream', wire') ELSE 0]
      BY DEF doneOf, Carried
    <2> QED
      BY <1>6, <1>7, <2>1, DoneOfUser
  <1>9. Box!Issue(user, w)
    BY <1>1, <1>4, <1>5, <1>6, <1>8 DEF Box!Issue
  <1> QED
    BY <1>3, <1>9 DEF Box!Next

(* An answer is read: the work for the others goes on.                     *)
LEMMA ResultInOutbox ==
    ASSUME PipelineInv, PipelineInv', CallInv, OnWriteStreamMutationResult
    PROVE  Box!Next
  <1>1. /\ wire.down # << >> /\ stream.handshake /\ pipeline # << >>
        /\ Settles(Head(pipeline), "done") /\ "done" \in {"done", "refused"}
        /\ issued' = issued /\ doc' = doc /\ user' = user /\ enabled' = enabled
        /\ FillWritePipeline(Tail(pipeline), stream, Read(wire))
    BY DEF OnWriteStreamMutationResult, serverVars
  <1>2. stream \in StreamState /\ wire \in Call
    BY DEF PipelineInv, StreamInv, Sound
  <1>3. /\ stream'.handshake
        /\ wire'.down = Tail(wire.down) /\ wire'.status = wire.status
    <2>1. Read(wire) \in Call
      BY <1>1, <1>2, ReadType
    <2>2. /\ Read(wire).down = Tail(wire.down)
          /\ Read(wire).status = wire.status
      BY <1>2 DEF Read, Call
    <2> QED
      BY <1>1, <1>2, <2>1, <2>2, FillKeepsCarried
  <1>4. Len(wire.down) \in Nat \ {0} /\ Len(Tail(wire.down)) = Len(wire.down) - 1
    <2>1. wire.down \in Seq(Batch \cup {Hello})
      BY DEF PipelineInv, StreamInv, Sound, Call
    <2> QED
      BY <1>1, <2>1, HeadTailProperties, LenProperties, EmptySeq
  <1> DEFINE n == Carried(stream', wire')
  <1>5. n \in Nat /\ n < Carried(stream, wire)
    <2> DEFINE k == Len(wire.down)
               x == IF wire.status = "permanent" THEN 1 ELSE 0
    <2>1. n = k - 1 + x /\ Carried(stream, wire) = k + x
      BY <1>1, <1>3, <1>4 DEF Carried
    <2>2. k \in Nat \ {0} /\ x \in {0, 1}
      BY <1>4
    <2> HIDE DEF k, x, n
    <2> QED
      BY <2>1, <2>2
  <1>6. \A u \in User : doneOf'[u] = IF u = user THEN n ELSE 0
    BY <1>1 DEF doneOf, Carried
  <1> HIDE DEF n
  <1> QED
    BY <1>1, <1>5, <1>6, SettlesInOutbox

(* The front is refused, and with the call the rest of the work is lost.   *)
LEMMA ErrorInOutbox ==
    ASSUME PipelineInv, PipelineInv', CallInv, HandleWriteError
    PROVE  Box!Next
  <1>1. /\ wire.status = "permanent" /\ stream.handshake /\ pipeline # << >>
        /\ Settles(Head(pipeline), "refused")
        /\ "refused" \in {"done", "refused"}
        /\ issued' = issued /\ doc' = doc /\ user' = user /\ enabled' = enabled
        /\ FillWritePipeline(Tail(pipeline), Close(stream, "Initial"), NoWire)
    BY DEF HandleWriteError, serverVars
  <1>2. ~stream'.handshake
    <2>1. /\ Sound(Tail(pipeline), Close(stream, "Initial"), NoWire, enabled')
          /\ ~Close(stream, "Initial").handshake
      BY <1>1, ClosedIsSound, StreamCloses, FrontOfPipeline DEF Sound
    <2>2. enabled' \in BOOLEAN /\ queue'[user'] \in Seq(Batch)
      BY DEF PipelineInv, StoreTypes
    <2> QED
      BY <1>1, <2>1, <2>2, FillIsSound
  <1>3. 0 < Carried(stream, wire)
    <2>1. wire.down \in Seq(Batch \cup {Hello})
      BY DEF PipelineInv, StreamInv, Sound, Call
    <2>2. Len(wire.down) \in Nat
      BY <2>1, LenProperties
    <2>3. Carried(stream, wire) = Len(wire.down) + 1
      BY <1>1 DEF Carried
    <2> QED
      BY <2>2, <2>3
  <1>4. \A u \in User : doneOf'[u] = IF u = user THEN 0 ELSE 0
    BY <1>2 DEF doneOf
  <1> QED
    BY <1>1, <1>3, <1>4, SettlesInOutbox

(* The server carries out the next request of the call, which is the next  *)
(* write that waits.                                                       *)
LEMMA ServerCarriesOut ==
    ASSUME PipelineInv, PipelineInv', CallInv, ToldInv, ServerTakes
    PROVE  Box!Next \/ OutboxUnchanged
  <1> DEFINE r == Head(wire.up)
             w == r.write
  <1>1. /\ wire.up # << >> /\ wire.status = "none"
        /\ queue' = queue /\ issued' = issued /\ user' = user
        /\ stream' = stream
        /\ \/ /\ w \in Bad /\ doc' = doc
              /\ wire' = Ended([wire EXCEPT !.up = Tail(@)], "permanent",
                               wire.down)
           \/ /\ w \notin Bad
              /\ wire' = [wire EXCEPT !.up = Tail(@), !.down = Append(@, r)]
              /\ doc' = [u \in User |-> IF w \in issued[u] THEN w ELSE doc[u]]
    BY DEF ServerTakes, serverVars
  <1>2. /\ pipeline \in Seq(Batch) /\ wire \in Call /\ user \in User
        /\ issued \in [User -> SUBSET Write]
        /\ doc \in [User -> Write \cup {0}]
    BY DEF PipelineInv, StreamInv, Sound, StoreTypes
  <1>3. waitingOf' = waitingOf
    BY <1>1 DEF waitingOf
  <1>4. CASE stream.handshake
    <2> DEFINE k == Len(wire.down)
    <2>1. AfterHandshake(pipeline, wire, committed)
      BY <1>4 DEF CallInv
    <2>2. /\ k + 1 \in 1 .. Len(pipeline) /\ r = pipeline[k + 1]
          /\ r \in Batch /\ w \in Write
      BY <1>1, <1>2, <2>1, NextRequest
    <2>3. k \in Nat
      BY <1>2, LenProperties DEF Call
    <2>4. /\ pipeline # << >>
          /\ Len(pipeline) \in Nat
      BY <1>2, <2>2, <2>3, EmptySeq, LenProperties
    <2>5. /\ queue[user] \in Seq(Batch) /\ Len(queue[user]) \in Nat
          /\ Len(pipeline) <= Len(queue[user])
          /\ \A i \in 1 .. Len(pipeline) : pipeline[i] = queue[user][i]
      BY <2>4, PipelineInQueue
    <2>6. doneOf[user] = k /\ Carried(stream, wire) = k
      <3>1. Carried(stream, wire) = k
        BY <1>1, <1>4, <2>3 DEF Carried
      <3> QED
        BY <1>2, <3>1, DoneOfUser
    <2>7. /\ wire'.down = wire.down /\ wire'.status = "permanent" /\ w \in Bad
          \/ /\ wire'.down = Append(wire.down, r) /\ wire'.status = "none"
             /\ w \notin Bad
      BY <1>1, <1>2 DEF Ended, Call
    <2>8. Carried(stream', wire') = k + 1
      <3>1. Len(Append(wire.down, r)) = k + 1
        BY <1>2, <2>2, AppendProperties DEF Call
      <3> QED
        <4>1. CASE wire'.down = wire.down /\ wire'.status = "permanent"
          BY <1>1, <1>4, <4>1 DEF Carried
        <4>2. CASE wire'.down = Append(wire.down, r) /\ wire'.status = "none"
          <5>1. Carried(stream', wire') = Len(Append(wire.down, r)) + 0
            BY <1>1, <1>4, <4>2 DEF Carried
          <5> QED
            BY <2>3, <3>1, <5>1
        <4> QED
          BY <2>7, <4>1, <4>2
    <2> HIDE DEF k
    <2>9. doneOf' = [doneOf EXCEPT ![user] = @ + 1]
      <3>1. doneOf' = [u \in User |->
                         IF u = user' THEN Carried(stream', wire') ELSE 0]
        BY DEF doneOf, Carried
      <3>2. doneOf = [u \in User |->
                         IF u = user THEN Carried(stream, wire) ELSE 0]
        BY DoneOfUser
      <3> QED
        BY <1>1, <1>2, <2>6, <2>8, <3>1, <3>2
    <2>10. /\ doneOf[user] < Len(waitingOf[user])
           /\ waitingOf[user][doneOf[user] + 1] = w
      <3>1. waitingOf[user] = WritesOf(queue[user])
        BY <1>2, WaitingIsQueue
      <3>2. /\ Len(waitingOf[user]) = Len(queue[user])
            /\ \A i \in 1 .. Len(queue[user]) :
                  waitingOf[user][i] = queue[user][i].write
        BY <2>5, <3>1, WritesOfQueue
      <3>3. k + 1 \in 1 .. Len(queue[user]) /\ r = queue[user][k + 1]
        BY <2>2, <2>3, <2>4, <2>5
      <3> QED
        BY <2>3, <2>5, <2>6, <3>2, <3>3
    <2>11. doc' = IF w \in Bad THEN doc ELSE [doc EXCEPT ![user] = w]
      <3>1. w \in issued[user] /\ \A u \in User : w \in issued[u] => u = user
        <4>1. k + 1 \in DOMAIN queue[user] /\ r = queue[user][k + 1]
          BY <2>2, <2>3, <2>4, <2>5, LenProperties
        <4>2. w \in issued[user]
          BY <1>2, <4>1 DEF ToldInv, WritesInOrder
        <4>3. \A u \in User : u # user => issued[u] \cap issued[user] = {}
          BY <1>2 DEF ToldInv, WritesInOrder, Numbered
        <4> QED
          BY <4>2, <4>3
      <3> HIDE DEF w
      <3> QED
        BY <1>1, <1>2, <3>1
    <2>12. Box!CarryOut(user)
      BY <1>1, <1>3, <2>9, <2>10, <2>11 DEF Box!CarryOut
    <2> QED
      BY <1>2, <2>12 DEF Box!Next
  <1>5. CASE ~stream.handshake
    <2>1. wire.down = << >> /\ wire.up = <<Hello>>
      BY <1>1, <1>5 DEF CallInv, BeforeHandshake
    <2>2. w = 0
      BY <2>1 DEF Hello, NoBatch
    <2>3. w \notin Bad /\ \A u \in User : w \notin issued[u]
      BY <1>2, <2>2, WritePipelineAssumption DEF Write
    <2> HIDE DEF w
    <2>4. doc' = doc
      BY <1>1, <1>2, <2>3
    <2>5. doneOf' = doneOf
      BY <1>1, <1>5 DEF doneOf
    <2> QED
      BY <1>1, <1>3, <2>4, <2>5 DEF OutboxUnchanged
  <1> QED
    BY <1>4, <1>5

(* The connection is lost with some of the answers.                        *)
LEMMA BreakInOutbox ==
    ASSUME PipelineInv, PipelineInv', CallInv, CallBreaks
    PROVE  Box!Next \/ OutboxUnchanged
  <1>1. /\ wire.status # "transient"
        /\ queue' = queue /\ issued' = issued /\ user' = user /\ doc' = doc
        /\ stream' = stream
        /\ \/ \E n \in 0 .. Len(wire.down) :
                 wire' = Ended(wire, "transient", SubSeq(wire.down, 1, n))
           \/ /\ wire.up # << >> /\ Head(wire.up) = Hello
              /\ wire.status = "none"
    BY DEF CallBreaks, serverVars
  <1>2. /\ pipeline \in Seq(Batch) /\ wire \in Call
        /\ Carried(stream, wire) \in Nat
    BY DoneOfUser DEF PipelineInv, StreamInv, Sound
  <1>3. CASE stream.handshake
    <2>1. AfterHandshake(pipeline, wire, committed)
      BY <1>3 DEF CallInv
    <2>2. PICK n \in 0 .. Len(wire.down) :
                  wire' = Ended(wire, "transient", SubSeq(wire.down, 1, n))
      BY <1>1, <1>2, <2>1, NextRequest
    <2>3. Len(SubSeq(wire.down, 1, n)) = n
      <3>1. wire.down \in Seq(Request) /\ Len(wire.down) \in Nat
        BY <1>2, LenProperties DEF Call, Request
      <3>2. \A i \in 1 .. n : wire.down[i] \in Request
        BY <3>1, ElementOfSeq
      <3> QED
        BY <3>1, <3>2, SubSeqProperties
    <2> DEFINE q == SubSeq(wire.down, 1, n)
    <2>4. wire' = Ended(wire, "transient", q)
      BY <2>2
    <2>5. Len(q) = n
      BY <2>3
    <2> HIDE DEF q
    <2>6. wire'.down = q /\ wire'.status = "transient"
      BY <1>2, <2>4 DEF Ended, Call
    <2>7. n \in 0 .. Carried(stream, wire)
      <3> DEFINE k == Len(wire.down)
      <3>1. Carried(stream, wire) \in {k + 1, k + 0}
        BY <1>3 DEF Carried
      <3>2. k \in Nat /\ n \in 0 .. k
        BY <1>2, LenProperties DEF Call
      <3> HIDE DEF k
      <3> QED
        BY <3>1, <3>2
    <2>8. \A u \in User : doneOf'[u] = IF u = user THEN n ELSE 0
      BY <1>1, <1>3, <2>5, <2>6 DEF doneOf
    <2> QED
      BY <1>1, <2>7, <2>8, FallsBack
  <1>4. CASE ~stream.handshake
    <2>1. \A u \in User : doneOf'[u] = IF u = user THEN 0 ELSE 0
      BY <1>1, <1>4 DEF doneOf
    <2>2. 0 \in 0 .. Carried(stream, wire)
      BY <1>2
    <2> QED
      BY <1>1, <2>1, <2>2, FallsBack
  <1> QED
    BY <1>3, <1>4

LEMMA BoxInit == Init => Box!Init
  <1> SUFFICES ASSUME Init
               PROVE  Box!Init
    OBVIOUS
  <1>1. doneOf = [u \in User |-> 0]
    BY DEF Init, IdleStream, doneOf
  <1>2. waitingOf = [u \in User |-> << >>]
    <2>1. \A u \in User : queue[u] = << >> /\ DOMAIN queue[u] = {}
      BY EmptySeq DEF Init
    <2>2. \A u \in User : waitingOf[u] = << >>
      BY <2>1 DEF waitingOf
    <2> QED
      BY <2>2 DEF waitingOf
  <1> QED
    BY <1>1, <1>2 DEF Init, Box!Init

LEMMA BoxStep ==
    PipelineInv /\ PipelineInv' /\ CallInv /\ ToldInv /\ [Next]_vars
        => [Box!Next]_(Box!vars)
  <1> SUFFICES ASSUME PipelineInv, PipelineInv', CallInv, ToldInv, [Next]_vars
               PROVE  Box!Next \/ OutboxUnchanged
    BY DEF OutboxUnchanged, Box!vars
  <1>1. CASE \/ ResumeStartWithCredentials \/ BackoffElapsed \/ IdleTimeout
             \/ RetryAfterError \/ DisableNetwork \/ Kill \/ KillAfterNotifyUser
             \/ RestartNetwork \/ Launch
             \/ \E u \in User : HandleCredentialChange(u)
    <2>1. queue' = queue /\ issued' = issued /\ doc' = doc
      BY <1>1 DEF ResumeStartWithCredentials, BackoffElapsed, IdleTimeout,
         RetryAfterError, DisableNetwork, Kill, KillAfterNotifyUser, Killed,
         RestartNetwork, Launch, HandleCredentialChange, serverVars
    <2>2. ~stream'.handshake
      BY <1>1, HandshakeIsLost
    <2>3. \A u \in User : doneOf'[u] = IF u = user THEN 0 ELSE 0
      BY <2>2 DEF doneOf
    <2>4. 0 \in 0 .. Carried(stream, wire)
      BY DoneOfUser
    <2> QED
      BY <2>1, <2>3, <2>4, FallsBack
  <1>2. CASE HandshakeComplete
    <2>1. /\ queue' = queue /\ issued' = issued /\ doc' = doc
          /\ ~stream.handshake /\ wire.down # << >>
          /\ wire' = [Read(wire) EXCEPT !.up = @ \o pipeline]
      BY <1>2 DEF HandshakeComplete, serverVars
    <2>2. wire.down = <<Hello>> /\ wire.status # "permanent" /\ wire \in Call
      BY <2>1 DEF CallInv, BeforeHandshake, PipelineInv, StreamInv, Sound
    <2>3. wire'.down = Tail(<<Hello>>) /\ wire'.status = wire.status
      BY <2>1, <2>2 DEF Read, Call
    <2>4. Len(Tail(<<Hello>>)) = 0
      BY EmptySeq
    <2>5. \A u \in User : doneOf'[u] = IF u = user THEN 0 ELSE 0
      BY <2>2, <2>3, <2>4 DEF doneOf
    <2>6. 0 \in 0 .. Carried(stream, wire)
      BY DoneOfUser
    <2> QED
      BY <2>1, <2>5, <2>6, FallsBack
  <1>3. CASE EnableNetwork
    <2>1. /\ queue' = queue /\ issued' = issued /\ doc' = doc /\ user' = user
          /\ FillWritePipeline(pipeline, stream, wire)
      BY <1>3 DEF EnableNetwork, serverVars
    <2>2. \A u \in User :
             doneOf'[u] = IF u = user THEN Carried(stream, wire) ELSE 0
      <3>1. Carried(stream', wire') = Carried(stream, wire)
        BY <2>1, FillKeepsCarried DEF PipelineInv, StreamInv, Sound
      <3>2. \A u \in User :
               doneOf'[u] = IF u = user' THEN Carried(stream', wire') ELSE 0
        BY DEF doneOf, Carried
      <3> QED
        BY <2>1, <3>1, <3>2
    <2>3. Carried(stream, wire) \in 0 .. Carried(stream, wire)
      BY DoneOfUser
    <2> QED
      BY <2>1, <2>2, <2>3, FallsBack
  <1>4. CASE CalmDown \/ UNCHANGED vars
    BY <1>4 DEF CalmDown, vars, clientVars, serverVars, OutboxUnchanged,
       waitingOf, doneOf
  <1> QED
    BY <1>1, <1>2, <1>3, <1>4, WriteIsIssued, ResultInOutbox, ErrorInOutbox,
       ServerCarriesOut, BreakInOutbox DEF Next

(* RemoteStore, LocalStore and the stream make up the outbox that an app   *)
(* counts on that does not await its writes: each reaches the server, in   *)
(* the order of the queue, until it is answered, across lost connections,  *)
(* changes of user and kills.                                              *)
THEOREM WritePathImplementsOutbox == Spec => ImplementsOutbox
  BY PipelineInit, PipelineStep, CallInit, CallStep, ToldInit, ToldStep,
     BoxInit, BoxStep, PTL DEF Spec, Box!Spec, ImplementsOutbox
=============================================================================
