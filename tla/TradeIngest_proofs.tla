-------------------------- MODULE TradeIngest_proofs --------------------------
(***************************************************************************)
(* The ingest worker's safety properties: of the writer, for any sizes of  *)
(* queue, batch and insert and any number of failures and restarts; and of *)
(* the live runtime's buffers, for any underlyings and size of the buffer. *)
(***************************************************************************)
EXTENDS TradeIngest, Sorting, SequenceTheorems, FiniteSetTheorems,
        WellFoundedInduction, TLAPS

-----------------------------------------------------------------------------
(* Queues and batches *)

\* A queue cut in two keeps its records.
LEMMA CutFacts ==
  ASSUME NEW q \in Seq(Trades), NEW k \in 0 .. Len(q)
  PROVE  /\ SubSeq(q, 1, k) \in Seq(Trades) /\ Len(SubSeq(q, 1, k)) = k
         /\ SubSeq(q, k + 1, Len(q)) \in Seq(Trades)
         /\ Len(SubSeq(q, k + 1, Len(q))) = Len(q) - k
         /\ Range(q) = Range(SubSeq(q, 1, k)) \cup Range(SubSeq(q, k + 1, Len(q)))
<1>1. Len(q) \in Nat /\ \A i \in 1 .. Len(q) : q[i] \in Trades
  BY LenProperties, ElementOfSeq
<1>2. SubSeq(q, 1, k) \in Seq(Trades) /\ Len(SubSeq(q, 1, k)) = k
  BY <1>1, SubSeqProperties
<1>3. /\ SubSeq(q, k + 1, Len(q)) \in Seq(Trades)
      /\ Len(SubSeq(q, k + 1, Len(q))) = Len(q) - k
  BY <1>1, SubSeqProperties
<1>4. SubSeq(q, 1, k) \o SubSeq(q, k + 1, Len(q)) = q
  <2>1. 1 \in 1 .. Len(q) + 1 /\ k \in 1 - 1 .. Len(q) /\ Len(q) \in k .. Len(q)
    BY <1>1
  <2>2. SubSeq(q, 1, k) \o SubSeq(q, k + 1, Len(q)) = SubSeq(q, 1, Len(q))
    BY <2>1, ConcatAdjacentSubSeq
  <2>. QED  BY <2>2, SubSeqFull
<1>. QED  BY <1>2, <1>3, <1>4, RangeConcatenation

\* A flush takes records from the queue, and loses none.
LEMMA StartFlushFacts ==
  ASSUME NEW q \in Seq(Trades), q # <<>>, StartFlush(q)
  PROVE  /\ batch' \in Seq(Trades) /\ queue' \in Seq(Trades) /\ inserted' = 0
         /\ batch' # <<>> /\ Len(batch') <= FlushBatch
         /\ Len(batch') + Len(queue') = Len(q)
         /\ Len(q) <= MaxPending + FlushBatch => Len(queue') <= MaxPending
         /\ Len(batch') < FlushBatch => queue' = <<>>
         /\ Range(q) = Range(batch') \cup Range(queue')
<1>. DEFINE k == IF Len(q) < FlushBatch THEN Len(q) ELSE FlushBatch
<1>1. Len(q) \in Nat \ {0} /\ FlushBatch \in Nat \ {0} /\ MaxPending \in Nat
  BY EmptySeq, SizesAssumption
<1>2. k \in 1 .. Len(q) /\ k <= FlushBatch
  BY <1>1
<1>3. batch' = SubSeq(q, 1, k) /\ inserted' = 0
  BY DEF StartFlush
<1>4. queue' = SubSeq(q, k + 1, Len(q))
  <2>1. CASE Len(q) < FlushBatch
    BY <1>1, <2>1, SubSeqEmpty DEF StartFlush
  <2>2. CASE ~ (Len(q) < FlushBatch)
    BY <2>2 DEF StartFlush
  <2>. QED  BY <2>1, <2>2
<1>5. /\ batch' \in Seq(Trades) /\ Len(batch') = k
      /\ queue' \in Seq(Trades) /\ Len(queue') = Len(q) - k
      /\ Range(q) = Range(batch') \cup Range(queue')
  <2>1. k \in 0 .. Len(q)
    BY <1>1, <1>2
  <2>. HIDE DEF k
  <2>. QED  BY <1>3, <1>4, <2>1, CutFacts
<1>6. batch' # <<>>
  BY <1>2, <1>5, EmptySeq
<1>7. Len(q) <= MaxPending + FlushBatch => Len(q) - k <= MaxPending
  BY <1>1
<1>8. k + (Len(q) - k) = Len(q) /\ (k < FlushBatch => Len(q) - k = 0)
  BY <1>1
<1>9. k < FlushBatch => queue' = <<>>
  <2>. HIDE DEF k
  <2>. QED  BY <1>5, <1>8, EmptySeq
<1>. HIDE DEF k
<1>. QED  BY <1>2, <1>3, <1>5, <1>6, <1>7, <1>8, <1>9

\* A trimmed queue is within its limit; what it lost is what was dropped.
LEMMA TrimFacts ==
  ASSUME NEW q \in Seq(Trades)
  PROVE  /\ Trimmed(q) \in Seq(Trades)
         /\ Len(Trimmed(q)) <= MaxPending
         /\ Range(SubSeq(q, 1, Excess(q))) \subseteq Trades
         /\ Range(q) = Range(SubSeq(q, 1, Excess(q))) \cup Range(Trimmed(q))
<1>1. Len(q) \in Nat /\ MaxPending \in Nat
  BY LenProperties, SizesAssumption
<1>2. Excess(q) \in 0 .. Len(q) /\ Len(q) - Excess(q) <= MaxPending
  BY <1>1 DEF Excess
<1>3. /\ SubSeq(q, 1, Excess(q)) \in Seq(Trades)
      /\ Trimmed(q) \in Seq(Trades) /\ Len(Trimmed(q)) = Len(q) - Excess(q)
      /\ Range(q) = Range(SubSeq(q, 1, Excess(q))) \cup Range(Trimmed(q))
  BY <1>2, CutFacts DEF Trimmed
<1>. QED  BY <1>2, <1>3, RangeOfSeq

\* The insert under way covers the next InsertBatch records of the batch.
LEMMA ChunkFacts ==
  ASSUME TypeOK
  PROVE  /\ Chunk \in Seq(Trades)
         /\ \A i \in DOMAIN batch :
              inserted < i /\ i <= inserted + InsertBatch => batch[i] \in Range(Chunk)
<1>. DEFINE last == IF inserted + InsertBatch < Len(batch) THEN inserted + InsertBatch ELSE Len(batch)
<1>1. /\ Len(batch) \in Nat /\ DOMAIN batch = 1 .. Len(batch)
      /\ inserted \in Nat /\ InsertBatch \in Nat
      /\ \A i \in 1 .. Len(batch) : batch[i] \in Trades
  BY LenProperties, ElementOfSeq, SizesAssumption DEF TypeOK
<1>2. last \in Nat /\ last <= Len(batch)
  BY <1>1
<1>3. \A i \in inserted + 1 .. last : batch[i] \in Trades
  BY <1>1, <1>2
<1>4. Chunk = SubSeq(batch, inserted + 1, last)
  BY DEF Chunk
<1>5. /\ Chunk \in Seq(Trades)
      /\ Len(Chunk) = IF inserted + 1 <= last THEN last - (inserted + 1) + 1 ELSE 0
      /\ \A j \in 1 .. last - (inserted + 1) + 1 : Chunk[j] = batch[(inserted + 1) + j - 1]
  <2>. HIDE DEF last
  <2>. QED  BY <1>1, <1>2, <1>3, <1>4, SubSeqProperties
<1>6. ASSUME NEW i \in DOMAIN batch, inserted < i, i <= inserted + InsertBatch
      PROVE  batch[i] \in Range(Chunk)
  <2>1. i <= last
    BY <1>1, <1>6
  <2>. HIDE DEF last
  <2>2. i - inserted \in 1 .. last - (inserted + 1) + 1
    BY <1>1, <1>2, <1>6, <2>1
  <2>3. Len(Chunk) = last - inserted
    BY <1>1, <1>2, <1>5, <1>6, <2>1
  <2>4. i - inserted \in DOMAIN Chunk
    BY <1>1, <1>2, <1>5, <2>2, <2>3, LenProperties
  <2>5. (inserted + 1) + (i - inserted) - 1 = i
    BY <1>1
  <2>6. Chunk[i - inserted] = batch[i]
    BY <1>5, <2>2, <2>5
  <2>. QED  BY <2>4, <2>6 DEF Range
<1>. HIDE DEF last
<1>. QED  BY <1>5, <1>6

\* An insert adds rows, none of them twice.
LEMMA InsertedFacts ==
  ASSUME TypeOK, NEW records \in Seq(Trades)
  PROVE  /\ Inserted(records) \in [Trades -> Nat]
         /\ \A t \in Trades : rows[t] > 0 => Inserted(records)[t] > 0
         /\ \A t \in Range(records) : Inserted(records)[t] > 0
         /\ StoredOnce => \A t \in Trades : Inserted(records)[t] <= 1
<1>1. Range(records) \subseteq Trades
  BY RangeOfSeq
<1>2. \A t \in Trades : rows[t] \in Nat
  BY DEF TypeOK
<1>. QED  BY <1>1, <1>2 DEF Inserted, StoredOnce
-----------------------------------------------------------------------------
(* What a step leaves behind: a batch just taken, or none *)

\* A queue that accounts for everything still does once a flush has started.
LEMMA FlushStarts ==
  ASSUME NEW q \in Seq(Trades), q # <<>>, Len(q) <= MaxPending + FlushBatch,
         StartFlush(q),
         accepted' \subseteq Stored' \cup Range(q) \cup dropped'
  PROVE  /\ queue' \in Seq(Trades) /\ batch' \in Seq(Trades) /\ inserted' \in Nat
         /\ BatchInv' /\ InsertedInv' /\ Accounted' /\ MemoryBounded'
<1>1. /\ batch' \in Seq(Trades) /\ queue' \in Seq(Trades) /\ inserted' = 0
      /\ batch' # <<>> /\ Len(batch') <= FlushBatch
      /\ Len(batch') + Len(queue') = Len(q)
      /\ Len(queue') <= MaxPending
      /\ Range(q) = Range(batch') \cup Range(queue')
  BY StartFlushFacts
<1>2. /\ Len(batch') \in Nat /\ Len(queue') \in Nat /\ DOMAIN batch' = 1 .. Len(batch')
      /\ FlushBatch \in Nat /\ MaxPending \in Nat
  BY <1>1, LenProperties, SizesAssumption
<1>3. BatchInv'
  BY <1>1, <1>2 DEF BatchInv
<1>4. InsertedInv'
  BY <1>1, <1>2 DEF InsertedInv
<1>5. Accounted'
  BY <1>1 DEF Accounted
<1>6. MemoryBounded'
  BY <1>1, <1>2 DEF MemoryBounded
<1>. QED  BY <1>1, <1>3, <1>4, <1>5, <1>6

\* And so it does when no flush is under way.
LEMMA FlushIdle ==
  ASSUME queue' \in Seq(Trades), Len(queue') <= MaxPending + FlushBatch,
         batch' = <<>>, inserted' = 0, shutdown' # "draining",
         accepted' \subseteq Stored' \cup Range(queue') \cup dropped'
  PROVE  /\ batch' \in Seq(Trades) /\ inserted' \in Nat
         /\ BatchInv' /\ InsertedInv' /\ Accounted' /\ MemoryBounded'
<1>1. /\ batch' \in Seq(Trades) /\ Len(batch') = 0 /\ DOMAIN batch' = {}
      /\ Len(queue') \in Nat /\ FlushBatch \in Nat /\ MaxPending \in Nat
  BY EmptySeq, LenProperties, SizesAssumption
<1>2. BatchInv' /\ MemoryBounded'
  BY <1>1 DEF BatchInv, MemoryBounded
<1>3. InsertedInv'
  BY <1>1 DEF InsertedInv
<1>4. Accounted'
  BY DEF Accounted
<1>. QED  BY <1>1, <1>2, <1>3, <1>4

\* A batch that fails goes back whole.
LEMMA FlushFailsFacts ==
  ASSUME IInv, batch # <<>>, FlushFails, Stored \subseteq Stored',
         UNCHANGED <<accepted, dropped>>
  PROVE  /\ queue' \in Seq(Trades) /\ batch' \in Seq(Trades) /\ inserted' \in Nat
         /\ backingOff' \in BOOLEAN /\ shutdown' \in {"no", "draining", "done"}
         /\ queuedBeforeFlush' \in Nat /\ owed' = {}
         /\ BatchInv' /\ InsertedInv' /\ Accounted' /\ MemoryBounded'
<1>1. /\ queue \in Seq(Trades) /\ batch \in Seq(Trades)
      /\ Len(queue) \in Nat /\ Len(batch) \in Nat
      /\ FlushBatch \in Nat /\ MaxPending \in Nat
  BY LenProperties, SizesAssumption DEF IInv, TypeOK
<1>2. /\ queue' \in Seq(Trades) /\ Len(queue') = Len(batch) + Len(queue)
      /\ Range(queue') = Range(batch) \cup Range(queue)
  BY <1>1, ConcatProperties, RangeConcatenation DEF FlushFails
<1>3. Len(queue') <= MaxPending + FlushBatch
  BY <1>1, <1>2 DEF IInv, MemoryBounded
<1>4. batch' = <<>> /\ inserted' = 0 /\ shutdown' # "draining"
  BY DEF FlushFails
<1>5. accepted' \subseteq Stored' \cup Range(queue') \cup dropped'
  BY <1>2 DEF IInv, Accounted
<1>6. /\ backingOff' \in BOOLEAN /\ shutdown' \in {"no", "draining", "done"}
      /\ queuedBeforeFlush' \in Nat /\ owed' = {}
  BY DEF FlushFails, IInv, TypeOK
<1>. QED  BY <1>2, <1>3, <1>4, <1>5, <1>6, FlushIdle
-----------------------------------------------------------------------------
(* The actions *)

\* A trade is accepted.
LEMMA PushInv ==
  ASSUME IInv, NEW t \in Trades, Push(t)
  PROVE  IInv'
<1>. DEFINE q == Append(queue, t)
<1>1. /\ q \in Seq(Trades)
      /\ Range(q) = Range(queue) \cup {t}
  <2>1. queue \in Seq(Trades) /\ <<t>> \in Seq(Trades)
    BY DEF IInv, TypeOK
  <2>2. Range(<<t>>) = {t}
    BY DEF Range
  <2>3. q \in Seq(Trades) /\ q = queue \o <<t>>
    BY <2>1, AppendProperties, AppendIsConcat
  <2>4. Range(queue \o <<t>>) = Range(queue) \cup Range(<<t>>)
    BY <2>1, RangeConcatenation
  <2>. QED  BY <2>2, <2>3, <2>4
<1>2. /\ Trimmed(q) \in Seq(Trades) /\ Len(Trimmed(q)) <= MaxPending
      /\ Range(SubSeq(q, 1, Excess(q))) \subseteq Trades
      /\ Range(q) = Range(SubSeq(q, 1, Excess(q))) \cup Range(Trimmed(q))
  BY <1>1, TrimFacts
<1>3. /\ Len(Trimmed(q)) \in Nat /\ MaxPending \in Nat /\ FlushBatch \in Nat \ {0}
  BY <1>2, LenProperties, SizesAssumption
<1>4. /\ accepted' = accepted \cup {t} /\ accepted' \subseteq Trades
      /\ dropped' = dropped \cup Range(SubSeq(q, 1, Excess(q))) /\ dropped' \subseteq Trades
  BY <1>2 DEF Push, IInv, TypeOK
<1>5. accepted' \subseteq Stored \cup Range(Trimmed(q)) \cup Range(batch) \cup dropped'
  BY <1>1, <1>2, <1>4 DEF IInv, Accounted
<1>6. /\ UNCHANGED <<backingOff, shutdown, queuedBeforeFlush, owed, rows, failures, restarts>>
      /\ pushes' \in Nat /\ late' \in Nat
  BY DEF Push, drainVars, IInv, TypeOK
<1>7. Stored' = Stored /\ StoredOnce'
  BY <1>6 DEF IInv, StoredOnce, Stored
<1>8. CASE Len(Trimmed(q)) >= FlushBatch /\ MayFlush(Trimmed(q))
  <2>1. StartFlush(Trimmed(q)) /\ Trimmed(q) # <<>> /\ batch = <<>>
    BY <1>8 DEF Push, MayFlush
  <2>2. Range(batch) = {}
    BY <2>1 DEF Range
  <2>3. accepted' \subseteq Stored' \cup Range(Trimmed(q)) \cup dropped'
    BY <1>5, <1>7, <2>2
  <2>4. Len(Trimmed(q)) <= MaxPending + FlushBatch
    BY <1>2, <1>3
  <2>5. /\ queue' \in Seq(Trades) /\ batch' \in Seq(Trades) /\ inserted' \in Nat
        /\ BatchInv' /\ InsertedInv' /\ Accounted' /\ MemoryBounded'
    <3>. HIDE DEF q
    <3>. QED  BY <1>2, <2>1, <2>3, <2>4, FlushStarts
  <2>. QED  BY <1>4, <1>6, <1>7, <2>5 DEF IInv, TypeOK
<1>9. CASE ~ (Len(Trimmed(q)) >= FlushBatch /\ MayFlush(Trimmed(q)))
  <2>1. queue' = Trimmed(q) /\ UNCHANGED <<batch, inserted>>
    BY <1>9 DEF Push
  <2>2. BatchInv' /\ MemoryBounded'
    <3>1. Len(batch) \in Nat /\ Len(batch) <= FlushBatch
      BY LenProperties DEF IInv, TypeOK, BatchInv
    <3>. QED  BY <1>2, <1>3, <1>6, <2>1, <3>1 DEF IInv, BatchInv, MemoryBounded
  <2>3. InsertedInv' /\ Accounted'
    BY <1>5, <1>6, <1>7, <2>1 DEF IInv, InsertedInv, Accounted
  <2>. QED  BY <1>2, <1>4, <1>6, <1>7, <2>1, <2>2, <2>3 DEF IInv, TypeOK
<1>. QED  BY <1>8, <1>9

\* The timer, or the first flush of flushAll, takes a batch.
LEMMA TakeBatchInv ==
  ASSUME IInv, MayFlush(queue), StartFlush(queue), backingOff' \in BOOLEAN,
         shutdown' \in {"no", "draining", "done"}, queuedBeforeFlush' \in Nat,
         owed' \subseteq Trades, late' \in Nat,
         UNCHANGED <<rows, accepted, dropped, pushes, failures, restarts>>
  PROVE  IInv'
<1>1. /\ queue \in Seq(Trades) /\ queue # <<>> /\ batch = <<>>
      /\ Len(queue) <= MaxPending + FlushBatch
  BY DEF MayFlush, IInv, TypeOK, BatchInv
<1>2. Range(batch) = {} /\ Stored' = Stored
  BY <1>1 DEF Range, Stored
<1>3. accepted' \subseteq Stored' \cup Range(queue) \cup dropped'
  BY <1>2 DEF IInv, Accounted
<1>4. /\ queue' \in Seq(Trades) /\ batch' \in Seq(Trades) /\ inserted' \in Nat
      /\ BatchInv' /\ InsertedInv' /\ Accounted' /\ MemoryBounded'
  BY <1>1, <1>3, FlushStarts
<1>. QED  BY <1>4 DEF IInv, TypeOK, StoredOnce

\* An insert that is answered finishes the batch, or a part of it.
LEMMA InsertAnsweredInv ==
  ASSUME IInv, InsertAnswered
  PROVE  IInv'
<1>1. /\ TypeOK /\ StoredOnce /\ batch # <<>>
      /\ rows' = Inserted(Chunk) /\ Chunk \in Seq(Trades)
      /\ UNCHANGED <<accepted, dropped, late, pushes, failures, restarts>>
  BY ChunkFacts DEF IInv, InsertAnswered
<1>2. rows' \in [Trades -> Nat] /\ StoredOnce' /\ Stored \subseteq Stored'
  BY <1>1, InsertedFacts DEF StoredOnce, Stored
<1>3. /\ Len(queue) \in Nat /\ Len(batch) \in Nat /\ inserted \in Nat
      /\ InsertBatch \in Nat \ {0} /\ DOMAIN batch = 1 .. Len(batch)
      /\ queue \in Seq(Trades) /\ batch \in Seq(Trades)
  BY <1>1, LenProperties, SizesAssumption DEF TypeOK
<1>4. \A i \in DOMAIN batch : i <= inserted + InsertBatch => rows'[batch[i]] > 0
  <2>. SUFFICES ASSUME NEW i \in DOMAIN batch, i <= inserted + InsertBatch
                PROVE  rows'[batch[i]] > 0
    OBVIOUS
  <2>1. batch[i] \in Trades
    BY <1>3, ElementOfSeq
  <2>2. CASE i <= inserted
    BY <1>1, <2>1, <2>2, InsertedFacts DEF IInv, InsertedInv
  <2>3. CASE inserted < i
    BY <1>1, <2>3, ChunkFacts, InsertedFacts
  <2>. QED  BY <1>3, <2>2, <2>3
<1>5. CASE /\ inserted + InsertBatch >= Len(batch) /\ FlushSucceeds
           /\ UNCHANGED <<backingOff, owed>>
  <2>1. Range(batch) \subseteq Stored'
    <3>1. \A i \in DOMAIN batch : batch[i] \in Trades /\ rows'[batch[i]] > 0
      BY <1>3, <1>4, <1>5, ElementOfSeq
    <3>. QED  BY <3>1 DEF Range, Stored
  <2>2. accepted' \subseteq Stored' \cup Range(queue) \cup dropped'
    BY <1>1, <1>2, <2>1 DEF IInv, Accounted
  <2>3. Len(queue) <= MaxPending + FlushBatch
    BY DEF IInv, BatchInv
  <2>4. CASE queue' = queue /\ batch' = <<>> /\ inserted' = 0 /\ shutdown' # "draining"
    <3>1. /\ batch' \in Seq(Trades) /\ inserted' \in Nat
          /\ BatchInv' /\ InsertedInv' /\ Accounted' /\ MemoryBounded'
      BY <1>3, <2>2, <2>3, <2>4, FlushIdle
    <3>2. shutdown' \in {"no", "draining", "done"} /\ queuedBeforeFlush' \in Nat
      BY <1>1, <1>5, <1>3 DEF FlushSucceeds, Drain, drainVars, TypeOK
    <3>. QED  BY <1>1, <1>2, <1>5, <2>4, <3>1, <3>2 DEF IInv, TypeOK
  <2>5. CASE queue # <<>> /\ StartFlush(queue) /\ queuedBeforeFlush' = Len(queue) /\ UNCHANGED shutdown
    <3>1. /\ queue' \in Seq(Trades) /\ batch' \in Seq(Trades) /\ inserted' \in Nat
          /\ BatchInv' /\ InsertedInv' /\ Accounted' /\ MemoryBounded'
      BY <1>3, <2>2, <2>3, <2>5, FlushStarts
    <3>. QED  BY <1>1, <1>2, <1>3, <1>5, <2>5, <3>1 DEF IInv, TypeOK
  <2>. QED  BY <1>5, <2>4, <2>5 DEF FlushSucceeds, Drain, drainVars
<1>6. CASE /\ inserted' = inserted + InsertBatch
           /\ UNCHANGED <<queue, batch, backingOff, drainVars, owed>>
  <2>1. InsertedInv'
    BY <1>4, <1>6 DEF InsertedInv
  <2>2. Accounted'
    BY <1>1, <1>2, <1>6 DEF IInv, Accounted
  <2>3. BatchInv' /\ MemoryBounded'
    BY <1>6 DEF IInv, BatchInv, MemoryBounded, drainVars
  <2>4. inserted' \in Nat
    BY <1>3, <1>6
  <2>. QED  BY <1>1, <1>2, <1>6, <2>1, <2>2, <2>3, <2>4 DEF IInv, TypeOK, drainVars
<1>7. CASE FlushFails
  BY <1>1, <1>2, <1>7, FlushFailsFacts DEF IInv, TypeOK
<1>. QED  BY <1>5, <1>6, <1>7 DEF InsertAnswered

\* An insert that fails is taken back, whether it was committed or not.
LEMMA InsertFailsInv ==
  ASSUME IInv, InsertFails
  PROVE  IInv'
<1>1. /\ TypeOK /\ StoredOnce /\ batch # <<>> /\ FlushFails
      /\ rows' \in {rows, Inserted(Chunk)} /\ Chunk \in Seq(Trades)
      /\ failures' \in Nat /\ UNCHANGED <<accepted, dropped, late, pushes, restarts>>
  BY ChunkFacts DEF IInv, InsertFails, TypeOK
<1>2. rows' \in [Trades -> Nat] /\ StoredOnce' /\ Stored \subseteq Stored'
  BY <1>1, InsertedFacts DEF StoredOnce, Stored, TypeOK
<1>. QED  BY <1>1, <1>2, FlushFailsFacts DEF IInv, TypeOK

\* Shutdown takes a batch of its own, or ends.
LEMMA ShutdownInv ==
  ASSUME IInv, Shutdown
  PROVE  IInv'
<1>1. UNCHANGED <<backingOff, rows, accepted, dropped, late, pushes, failures, restarts>>
  BY DEF Shutdown
<1>2. CASE /\ MayFlush(queue) /\ StartFlush(queue)
           /\ shutdown' = "draining" /\ queuedBeforeFlush' = Len(queue)
           /\ owed' = Range(queue)
  <2>1. /\ Len(queue) \in Nat /\ backingOff' \in BOOLEAN
        /\ owed' \subseteq Trades /\ late' \in Nat
    BY <1>1, <1>2, LenProperties, RangeOfSeq DEF IInv, TypeOK
  <2>. QED  BY <1>1, <1>2, <2>1, TakeBatchInv
<1>3. CASE shutdown' = "done" /\ UNCHANGED <<queue, batch, inserted, queuedBeforeFlush, owed>>
  BY <1>1, <1>3 DEF IInv, TypeOK, BatchInv, InsertedInv, Accounted, StoredOnce,
                    MemoryBounded, Stored
<1>. QED  BY <1>2, <1>3 DEF Shutdown

\* A new worker starts with nothing but the table.
LEMMA RestartInv ==
  ASSUME IInv, Restart
  PROVE  IInv'
<1>1. /\ TypeOK /\ StoredOnce
      /\ rows' \in {rows, Inserted(Chunk)} /\ Chunk \in Seq(Trades)
      /\ queue' = <<>> /\ batch' = <<>> /\ inserted' = 0 /\ backingOff' = FALSE
      /\ shutdown' = "no" /\ queuedBeforeFlush' = 0
      /\ accepted' = {} /\ dropped' = {} /\ owed' = {} /\ late' = 0 /\ restarts' \in Nat
      /\ UNCHANGED <<pushes, failures>>
  BY ChunkFacts DEF IInv, Restart, TypeOK
<1>2. rows' \in [Trades -> Nat] /\ StoredOnce'
  BY <1>1, InsertedFacts DEF StoredOnce, TypeOK
<1>3. queue' \in Seq(Trades) /\ Len(queue') <= MaxPending + FlushBatch
  BY <1>1, EmptySeq, SizesAssumption
<1>4. /\ batch' \in Seq(Trades) /\ inserted' \in Nat
      /\ BatchInv' /\ InsertedInv' /\ Accounted' /\ MemoryBounded'
  BY <1>1, <1>3, FlushIdle
<1>. QED  BY <1>1, <1>2, <1>3, <1>4 DEF IInv, TypeOK
-----------------------------------------------------------------------------
(* Theorems *)

\* IInv holds through every order of reports, flushes, failures, shutdowns and
\* restarts.
THEOREM Invariance == Spec => []IInv
<1>1. Init => IInv
  <2>. SUFFICES ASSUME Init PROVE IInv
    OBVIOUS
  <2>1. /\ <<>> \in Seq(Trades) /\ Len(<<>>) = 0 /\ DOMAIN <<>> = {}
        /\ MaxPending \in Nat /\ FlushBatch \in Nat
    BY EmptySeq, SizesAssumption
  <2>2. TypeOK
    BY <2>1 DEF Init, TypeOK
  <2>3. BatchInv /\ MemoryBounded
    BY <2>1 DEF Init, BatchInv, MemoryBounded
  <2>4. InsertedInv /\ Accounted /\ StoredOnce
    BY <2>1 DEF Init, InsertedInv, Accounted, StoredOnce
  <2>. QED  BY <2>2, <2>3, <2>4 DEF IInv
<1>2. IInv /\ [Next]_vars => IInv'
  <2>. SUFFICES ASSUME IInv, [Next]_vars PROVE IInv'
    OBVIOUS
  <2>1. CASE TimerFlush
    <3>1. backingOff' \in BOOLEAN /\ shutdown' \in {"no", "draining", "done"}
          /\ queuedBeforeFlush' \in Nat /\ owed' \subseteq Trades /\ late' \in Nat
      BY <2>1 DEF TimerFlush, drainVars, historyVars, IInv, TypeOK
    <3>. QED  BY <2>1, <3>1, TakeBatchInv DEF TimerFlush, historyVars
  <2>2. CASE BackoffPasses \/ UNCHANGED vars
    <3>1. /\ backingOff' \in BOOLEAN
          /\ UNCHANGED <<queue, batch, inserted, shutdown, queuedBeforeFlush, rows,
                         accepted, dropped, owed, late, pushes, failures, restarts>>
      BY <2>2 DEF BackoffPasses, vars, bufferVars, drainVars, historyVars, IInv, TypeOK
    <3>. QED  BY <3>1 DEF IInv, TypeOK, BatchInv, InsertedInv, Accounted, StoredOnce,
                          MemoryBounded, Stored
  <2>. QED
    BY <2>1, <2>2, PushInv, InsertAnsweredInv, InsertFailsInv, ShutdownInv, RestartInv
    DEF Next, Settle
<1>. QED  BY <1>1, <1>2, PTL DEF Spec

\* The worker's steps are the writer's, or leave the writer alone.
LEMMA IngestIsWriter == IngestSpec => Spec
<1>1. IngestInit => Init
  BY DEF IngestInit
<1>2. [IngestNext]_ingestVars => [Next]_vars
  <2> SUFFICES ASSUME [IngestNext]_ingestVars
               PROVE  Next \/ UNCHANGED vars
    OBVIOUS
  <2>1. CASE OfWriter(Next)
    BY <2>1 DEF OfWriter
  <2>2. CASE OfLive(Live!Next) \/ UNCHANGED ingestVars
    BY <2>2 DEF OfLive, ingestVars, writerVars, vars, bufferVars, drainVars, historyVars
  <2>3. QED
    BY <2>1, <2>2 DEF IngestNext
<1>3. QED
  BY <1>1, <1>2, PTL DEF IngestSpec, Spec

\* No accepted trade disappears: it is stored, waiting, being written, or was
\* dropped on overflow (BufferedTradeWriter over PostgresTradeStore).
THEOREM NoTradeLost == IngestSpec => []Accounted
<1>1. IInv => Accounted
  BY DEF IInv
<1>2. QED
  BY <1>1, Invariance, IngestIsWriter, PTL

\* A trade is one row, through retries, reports and restarts (ON CONFLICT DO NOTHING).
THEOREM OneRowEach == IngestSpec => []StoredOnce
<1>1. IInv => StoredOnce
  BY DEF IInv
<1>2. QED
  BY <1>1, Invariance, IngestIsWriter, PTL

\* The worker's memory is bounded by the queue's limit and one batch (push trims,
\* and a batch that fails comes back untrimmed).
THEOREM BoundedMemory == IngestSpec => []MemoryBounded
<1>1. IInv => MemoryBounded
  BY DEF IInv
<1>2. QED
  BY <1>1, Invariance, IngestIsWriter, PTL

-----------------------------------------------------------------------------
(* flushAll: a loop that gives up when the queue is not shorter *)

\* What flushAll owes is accounted for once it has taken its next batch.
LEMMA DrainGoesOn ==
  ASSUME NEW q \in Seq(Trades), q # <<>>, StartFlush(q), queuedBeforeFlush' = Len(q),
         late' \in Nat, owed' \subseteq Stored' \cup Range(q) \cup dropped'
  PROVE  /\ owed' \subseteq Stored' \cup Range(queue') \cup Range(batch') \cup dropped'
         /\ Len(queue') + Len(batch') <= queuedBeforeFlush' + late'
         /\ Len(batch') < FlushBatch => owed' \subseteq Stored' \cup Range(batch') \cup dropped'
<1>1. /\ batch' \in Seq(Trades) /\ queue' \in Seq(Trades)
      /\ Len(batch') + Len(queue') = Len(q)
      /\ Len(batch') < FlushBatch => queue' = <<>>
      /\ Range(q) = Range(batch') \cup Range(queue')
  BY StartFlushFacts
<1>2. Len(batch') \in Nat /\ Len(queue') \in Nat /\ Len(q) \in Nat
  BY <1>1, LenProperties
<1>3. queue' = <<>> => Range(queue') = {}
  BY DEF Range
<1>4. QED
  BY <1>1, <1>2, <1>3

\* A report during flushAll is one record more, and what it pushes out is dropped.
LEMMA PushDrain ==
  ASSUME IInv, DrainInv, NEW t \in Trades, Push(t)
  PROVE  DrainInv'
<1>1. /\ UNCHANGED <<shutdown, queuedBeforeFlush, owed, rows>> /\ shutdown # "done"
      /\ dropped \subseteq dropped' /\ Stored' = Stored
  BY DEF Push, drainVars, Stored
<1>2. CASE shutdown = "draining"
  <2> DEFINE q == Append(queue, t)
  <2>1. batch # <<>> /\ late' = late + 1
    BY <1>2 DEF Push, IInv, BatchInv
  <2>2. /\ queue' = Trimmed(q) /\ batch' = batch
        /\ dropped' = dropped \cup Range(SubSeq(q, 1, Excess(q)))
    BY <2>1 DEF Push, MayFlush
  <2>3. /\ queue \in Seq(Trades) /\ batch \in Seq(Trades) /\ late \in Nat
        /\ Len(queue) \in Nat /\ Len(batch) \in Nat /\ queuedBeforeFlush \in Nat
    BY LenProperties DEF IInv, TypeOK
  <2>4. q \in Seq(Trades) /\ Len(q) = Len(queue) + 1 /\ Range(queue) \subseteq Range(q)
    <3>1. q \in Seq(Trades) /\ q = queue \o <<t>> /\ Len(q) = Len(queue) + 1
      BY <2>3, AppendProperties, AppendIsConcat
    <3>2. <<t>> \in Seq(Trades)
      OBVIOUS
    <3>3. Range(queue \o <<t>>) = Range(queue) \cup Range(<<t>>)
      BY <2>3, <3>2, RangeConcatenation
    <3>4. QED
      BY <3>1, <3>3
  <2> HIDE DEF q
  <2>5. /\ Range(q) = Range(SubSeq(q, 1, Excess(q))) \cup Range(Trimmed(q))
        /\ Len(Trimmed(q)) <= Len(q) /\ Len(Trimmed(q)) \in Nat
    <3>1. Excess(q) \in 0 .. Len(q)
      BY <2>3, <2>4, SizesAssumption DEF Excess
    <3>2. Len(Trimmed(q)) = Len(q) - Excess(q)
      BY <2>4, <3>1, CutFacts DEF Trimmed
    <3>3. QED
      BY <2>3, <2>4, <3>1, <3>2, TrimFacts
  <2>6. owed \subseteq Stored \cup Range(queue) \cup Range(batch) \cup dropped
    BY <1>2 DEF DrainInv
  <2>7. owed' \subseteq Stored' \cup Range(queue') \cup Range(batch') \cup dropped'
    BY <1>1, <2>2, <2>4, <2>5, <2>6
  <2>8. Len(queue') + Len(batch') <= queuedBeforeFlush' + late'
    <3>1. Len(queue) + Len(batch) <= queuedBeforeFlush + late
      BY <1>2 DEF DrainInv
    <3>2. QED
      BY <1>1, <2>1, <2>2, <2>3, <2>4, <2>5, <3>1
  <2>9. Len(batch') < FlushBatch => owed' \subseteq Stored' \cup Range(batch') \cup dropped'
    BY <1>1, <1>2, <2>2 DEF DrainInv
  <2>10. QED
    BY <1>1, <1>2, <2>7, <2>8, <2>9 DEF DrainInv, DrainIsComplete
<1>3. CASE shutdown = "no"
  BY <1>1, <1>3 DEF DrainInv, DrainIsComplete
<1>4. QED
  BY <1>1, <1>2, <1>3 DEF IInv, TypeOK

\* A batch that is written lets flushAll go on, or end with nothing owed.
LEMMA AnsweredDrain ==
  ASSUME IInv, DrainInv, InsertAnswered
  PROVE  DrainInv'
<1>1. /\ Stored \subseteq Stored' /\ UNCHANGED <<accepted, dropped, late>>
      /\ rows' = Inserted(Chunk) /\ Chunk \in Seq(Trades)
  BY ChunkFacts, InsertedFacts DEF IInv, InsertAnswered, Stored
<1>2. CASE FlushFails
  BY <1>2 DEF FlushFails, DrainInv, DrainIsComplete, IInv, TypeOK
<1>3. CASE UNCHANGED <<queue, batch, drainVars, owed>>
  BY <1>1, <1>3 DEF drainVars, DrainInv, DrainIsComplete
<1>4. CASE inserted + InsertBatch >= Len(batch) /\ FlushSucceeds /\ owed' = owed
  <2>1. Range(batch) \subseteq Stored'
    <3>1. /\ batch \in Seq(Trades) /\ Len(batch) \in Nat /\ DOMAIN batch = 1 .. Len(batch)
          /\ inserted \in Nat /\ InsertBatch \in Nat
          /\ \A i \in DOMAIN batch : batch[i] \in Trades
      BY LenProperties, ElementOfSeq, SizesAssumption DEF IInv, TypeOK
    <3>2. ASSUME NEW i \in DOMAIN batch PROVE batch[i] \in Stored'
      <4>1. CASE i <= inserted
        BY <1>1, <3>1, <4>1 DEF IInv, InsertedInv, Stored
      <4>2. CASE inserted < i
        <5>1. i <= inserted + InsertBatch
          BY <1>4, <3>1
        <5>2. batch[i] \in Range(Chunk)
          BY <4>2, <5>1, ChunkFacts DEF IInv
        <5>3. QED
          BY <1>1, <3>1, <5>2, InsertedFacts DEF IInv, Stored
      <4>3. QED
        BY <3>1, <4>1, <4>2
    <3>3. QED
      BY <3>2 DEF Range
  <2>2. CASE shutdown = "draining"
    <3>1. Drain
      BY <1>4, <2>2 DEF FlushSucceeds
    <3>2. /\ owed \subseteq Stored \cup Range(queue) \cup Range(batch) \cup dropped
          /\ Len(queue) + Len(batch) <= queuedBeforeFlush + late
          /\ Len(batch) < FlushBatch => owed \subseteq Stored \cup Range(batch) \cup dropped
      BY <2>2 DEF DrainInv
    <3>3. /\ queue \in Seq(Trades) /\ Len(queue) \in Nat /\ Len(batch) \in Nat
          /\ late \in Nat /\ queuedBeforeFlush \in Nat /\ FlushBatch \in Nat
      BY LenProperties, SizesAssumption DEF IInv, TypeOK
    <3>4. CASE queue = <<>>
      <4>1. Range(queue) = {} /\ shutdown' = "done"
        BY <3>1, <3>4 DEF Drain, Range
      <4>2. QED
        BY <1>1, <1>4, <2>1, <3>2, <4>1 DEF DrainInv, DrainIsComplete
    <3>5. CASE queue # <<>> /\ Len(queue) >= queuedBeforeFlush
      <4>1. shutdown' = "done"
        BY <3>1, <3>5 DEF Drain
      <4>2. late < FlushBatch => Len(batch) < FlushBatch
        BY <3>2, <3>3, <3>5
      <4>3. QED
        BY <1>1, <1>4, <2>1, <3>2, <4>1, <4>2 DEF DrainInv, DrainIsComplete
    <3>6. CASE queue # <<>> /\ ~ (Len(queue) >= queuedBeforeFlush)
      <4>1. StartFlush(queue) /\ queuedBeforeFlush' = Len(queue) /\ shutdown' = "draining"
        BY <2>2, <3>1, <3>6 DEF Drain
      <4>2. owed' \subseteq Stored' \cup Range(queue) \cup dropped' /\ late' \in Nat
        BY <1>1, <1>4, <2>1, <3>2, <3>3
      <4>3. QED
        BY <3>3, <3>6, <4>1, <4>2, DrainGoesOn DEF DrainInv, DrainIsComplete
    <3>7. QED
      BY <3>4, <3>5, <3>6
  <2>3. CASE shutdown # "draining"
    BY <1>1, <1>4, <2>3 DEF FlushSucceeds, drainVars, DrainInv, DrainIsComplete
  <2>4. QED
    BY <2>2, <2>3
<1>5. QED
  BY <1>2, <1>3, <1>4 DEF InsertAnswered

LEMMA StepDrain ==
  ASSUME IInv, DrainInv, [Next]_vars
  PROVE  DrainInv'
<1>1. ASSUME Shutdown PROVE DrainInv'
  <2>1. CASE /\ MayFlush(queue) /\ StartFlush(queue) /\ shutdown' = "draining"
             /\ queuedBeforeFlush' = Len(queue) /\ owed' = Range(queue)
    <3>1. queue \in Seq(Trades) /\ queue # <<>> /\ late' \in Nat
      BY <1>1, <2>1 DEF Shutdown, MayFlush, IInv, TypeOK
    <3>2. QED
      BY <2>1, <3>1, DrainGoesOn DEF DrainInv, DrainIsComplete
  <2>2. CASE shutdown' = "done" /\ owed' = owed
    BY <1>1, <2>2 DEF Shutdown, DrainInv, DrainIsComplete
  <2>3. QED
    BY <1>1, <2>1, <2>2 DEF Shutdown
<1>2. CASE InsertFails
  BY <1>2 DEF InsertFails, FlushFails, DrainInv, DrainIsComplete, IInv, TypeOK
<1>3. CASE TimerFlush
  BY <1>3 DEF TimerFlush, drainVars, historyVars, DrainInv, DrainIsComplete
<1>4. CASE BackoffPasses \/ UNCHANGED vars
  <2>1. UNCHANGED <<queue, batch, shutdown, queuedBeforeFlush, rows, dropped, owed, late>>
    BY <1>4 DEF BackoffPasses, vars, bufferVars, drainVars, historyVars
  <2>2. QED
    BY <2>1 DEF DrainInv, DrainIsComplete, Stored
<1>5. CASE Restart
  BY <1>5 DEF Restart, DrainInv, DrainIsComplete
<1>6. QED
  BY <1>1, <1>2, <1>3, <1>4, <1>5, PushDrain, AnsweredDrain DEF Next, Settle

\* A shutdown that can flush leaves nothing behind of what it found, unless inserts
\* fail, the queue overflows or a whole batch is reported meanwhile
\* (BufferedTradeWriter.flushAll).
THEOREM ShutdownDrains == IngestSpec => []DrainIsComplete
<1>1. Init => DrainInv
  BY DEF Init, DrainInv, DrainIsComplete
<1>2. IInv /\ DrainInv /\ [Next]_vars => DrainInv'
  BY StepDrain
<1>3. DrainInv => DrainIsComplete
  BY DEF DrainInv
<1>4. QED
  BY <1>1, <1>2, <1>3, Invariance, IngestIsWriter, PTL DEF Spec

-----------------------------------------------------------------------------
(* The live runtime's buffers.  A sequence in order is known by how many of  *)
(* its trades are at or after each moment, which is how a buffer is compared *)
(* with all that came: those of the buffer are as many, up to its size.      *)

TradesOf(u) == [of : {u}, at : Nat]

InOrder(s) == \A m, n \in 1 .. Len(s) : m <= n => s[m].at <= s[n].at

Above(s, x) == {i \in 1 .. Len(s) : s[i].at >= x}

Smaller(m, n) == IF m < n THEN m ELSE n

\* How many are above is a number, up to all.
LEMMA AboveFacts ==
  ASSUME NEW u, NEW s \in Seq(TradesOf(u)), NEW x \in Nat
  PROVE  /\ Len(s) \in Nat /\ \A i \in 1 .. Len(s) : s[i] \in TradesOf(u)
         /\ IsFiniteSet(Above(s, x)) /\ Cardinality(Above(s, x)) \in 0 .. Len(s)
         /\ Cardinality(Above(s, 0)) = Len(s)
<1>1. Len(s) \in Nat /\ \A i \in 1 .. Len(s) : s[i] \in TradesOf(u)
  BY LenProperties, ElementOfSeq
<1>2. IsFiniteSet(1 .. Len(s)) /\ Cardinality(1 .. Len(s)) = Len(s)
  <2>1. \A n \in Nat : IsFiniteSet(1 .. n) /\ Cardinality(1 .. n) = n
    BY FS_Interval
  <2>2. QED
    BY <1>1, <2>1
<1>3. Above(s, x) \in SUBSET (1 .. Len(s))
  BY DEF Above
<1>4. IsFiniteSet(Above(s, x)) /\ Cardinality(Above(s, x)) <= Len(s)
  BY <1>2, <1>3, FS_Subset
<1>5. Cardinality(Above(s, x)) \in Nat
  BY <1>4, FS_CardinalityType
<1>6. \A i \in 1 .. Len(s) : s[i].at >= 0
  BY <1>1 DEF TradesOf
<1>7. Above(s, 0) = 1 .. Len(s)
  BY <1>6 DEF Above
<1>8. QED
  BY <1>1, <1>2, <1>4, <1>5, <1>7

\* In a sequence in order they are its end.
LEMMA AboveIsEnd ==
  ASSUME NEW u, NEW s \in Seq(TradesOf(u)), InOrder(s), NEW x \in Nat, NEW k \in 1 .. Len(s)
  PROVE  s[Len(s) - k + 1].at >= x <=> k <= Cardinality(Above(s, x))
<1> DEFINE N == Len(s)
           c == Cardinality(Above(s, x))
           first == N - k + 1
<1>1. /\ N \in Nat /\ c \in Nat /\ IsFiniteSet(Above(s, x))
      /\ \A i \in 1 .. N : s[i].at \in Nat
  <2>1. /\ N \in Nat /\ c \in 0 .. N /\ IsFiniteSet(Above(s, x))
        /\ \A i \in 1 .. N : s[i] \in TradesOf(u)
    BY AboveFacts
  <2>2. QED
    BY <2>1 DEF TradesOf
<1>2. first \in 1 .. N /\ k \in Nat
  BY <1>1
<1>3. CASE s[first].at >= x
  <2>1. first .. N \subseteq Above(s, x)
    <3> SUFFICES ASSUME NEW i \in first .. N PROVE i \in Above(s, x)
      OBVIOUS
    <3>1. i \in 1 .. N /\ first <= i
      BY <1>2
    <3>2. s[first].at <= s[i].at
      BY <1>2, <3>1 DEF InOrder
    <3>3. s[i].at >= x
      BY <1>1, <1>2, <1>3, <3>1, <3>2
    <3>4. QED
      BY <3>1, <3>3 DEF Above
  <2>2. Cardinality(first .. N) = k
    BY <1>1, <1>2, FS_Interval
  <2>3. k <= c
    BY <1>1, <2>1, <2>2, FS_Subset
  <2>4. QED
    BY <1>3, <2>3
<1>4. CASE ~ (s[first].at >= x)
  <2>1. Above(s, x) \subseteq first + 1 .. N
    <3> SUFFICES ASSUME NEW i \in Above(s, x) PROVE i \in first + 1 .. N
      OBVIOUS
    <3>1. i \in 1 .. N /\ s[i].at >= x
      BY DEF Above
    <3>2. ~ (s[i].at <= s[first].at)
      BY <1>1, <1>2, <1>4, <3>1
    <3>3. ~ (i <= first)
      BY <1>2, <3>1, <3>2 DEF InOrder
    <3>4. QED
      BY <1>2, <3>1, <3>3
  <2>2. IsFiniteSet(first + 1 .. N) /\ Cardinality(first + 1 .. N) = k - 1
    <3>1. first + 1 \in Int /\ N \in Int
      BY <1>1, <1>2
    <3>2. /\ IsFiniteSet(first + 1 .. N)
          /\ Cardinality(first + 1 .. N) = IF first + 1 > N THEN 0 ELSE N - (first + 1) + 1
      BY <3>1, FS_Interval
    <3>3. QED
      BY <1>1, <1>2, <3>2
  <2>3. c <= k - 1
    BY <2>1, <2>2, FS_Subset
  <2>4. QED
    BY <1>1, <1>2, <1>4, <2>3
<1>5. QED
  BY <1>3, <1>4

\* Every record has a place of its own, and a smaller key has a smaller one.
LEMMA PlacesAreOrdered ==
  ASSUME NEW N \in Nat, NEW key \in [1 .. N -> Int]
  PROVE  /\ \A i \in 1 .. N : Place(key, i) \in 1 .. N
         /\ \A i, j \in 1 .. N :
              key[i] < key[j] \/ (key[i] = key[j] /\ i < j) => Place(key, i) < Place(key, j)
<1> DEFINE Down(i) == {j \in 1 .. N : key[j] < key[i] \/ (key[j] = key[i] /\ j <= i)}
<1>1. \A i \in 1 .. N : Place(key, i) = Cardinality(Down(i))
  BY DEF Place
<1>2. IsFiniteSet(1 .. N) /\ Cardinality(1 .. N) = N
  BY FS_Interval
<1>3. \A i \in 1 .. N : Down(i) \in SUBSET (1 .. N) /\ i \in Down(i)
  OBVIOUS
<1>4. ASSUME NEW i \in 1 .. N
      PROVE  IsFiniteSet(Down(i)) /\ Cardinality(Down(i)) \in 1 .. N
  <2>1. /\ IsFiniteSet(Down(i)) /\ Cardinality(Down(i)) <= N
    BY <1>2, <1>3, FS_Subset
  <2>2. Cardinality(Down(i)) \in Nat /\ Cardinality(Down(i)) # 0
    BY <1>3, <2>1, FS_CardinalityType, FS_EmptySet
  <2>3. QED
    BY <2>1, <2>2
<1>5. ASSUME NEW i \in 1 .. N, NEW j \in 1 .. N, key[i] < key[j] \/ (key[i] = key[j] /\ i < j)
      PROVE  Cardinality(Down(i)) < Cardinality(Down(j))
  <2>1. Down(i) \in SUBSET Down(j)
    BY <1>5
  <2>2. j \in Down(j) /\ j \notin Down(i)
    BY <1>5
  <2>3. /\ Cardinality(Down(i)) <= Cardinality(Down(j))
        /\ Cardinality(Down(j)) = Cardinality(Down(i)) => Down(j) = Down(i)
    BY <1>4, <2>1, FS_Subset
  <2> HIDE DEF Down
  <2>4. Cardinality(Down(i)) \in Int /\ Cardinality(Down(j)) \in Int
    BY <1>4
  <2>5. Cardinality(Down(j)) # Cardinality(Down(i))
    BY <2>2, <2>3
  <2>6. QED
    BY <2>3, <2>4, <2>5
<1> HIDE DEF Down
<1>6. QED
  BY <1>1, <1>4, <1>5

\* No two records have one place.
LEMMA PlacesAreDistinct ==
  ASSUME NEW N \in Nat, NEW key \in [1 .. N -> Int],
         NEW i \in 1 .. N, NEW j \in 1 .. N, Place(key, i) = Place(key, j)
  PROVE  i = j
<1>1. /\ key[i] \in Int /\ key[j] \in Int /\ i \in Int /\ j \in Int
      /\ Place(key, i) \in Int /\ Place(key, j) \in Int
  BY PlacesAreOrdered
<1>2. \A m, n \in 1 .. N :
        key[m] < key[n] \/ (key[m] = key[n] /\ m < n) => Place(key, m) < Place(key, n)
  BY PlacesAreOrdered
<1>3. ~ (key[i] < key[j] \/ (key[i] = key[j] /\ i < j))
  BY <1>1, <1>2
<1>4. ~ (key[j] < key[i] \/ (key[j] = key[i] /\ j < i))
  BY <1>1, <1>2
<1>5. QED
  BY <1>1, <1>3, <1>4

\* A place has a record.
LEMMA PlacesAreTaken ==
  ASSUME NEW N \in Nat, NEW key \in [1 .. N -> Int]
  PROVE  \A n \in 1 .. N : \E i \in 1 .. N : Place(key, i) = n
<1> DEFINE place == [i \in 1 .. N |-> Place(key, i)]
<1>1. place \in [1 .. N -> 1 .. N]
  BY PlacesAreOrdered
<1>2. \A i, j \in 1 .. N : place[i] = place[j] => i = j
  BY PlacesAreDistinct
<1>3. place \in Injection(1 .. N, 1 .. N)
  BY <1>1, <1>2 DEF Injection, IsInjective
<1>4. IsFiniteSet(1 .. N)
  BY FS_Interval
<1>5. place \in Surjection(1 .. N, 1 .. N)
  <2> HIDE DEF place
  <2> QED
    BY <1>3, <1>4, FS_Injection
<1>6. QED
  BY <1>5 DEF Surjection

\* Sorting is a permutation that puts the keys in order.
LEMMA SortIsPermutation ==
  ASSUME NEW N \in Nat, NEW key \in [1 .. N -> Int]
  PROVE  \E p \in [1 .. N -> 1 .. N] :
           /\ \A i \in 1 .. N : \E n \in 1 .. N : p[n] = i
           /\ \A m, n \in 1 .. N : p[m] = p[n] => m = n
           /\ \A m, n \in 1 .. N : m <= n => key[p[m]] <= key[p[n]]
           /\ \A s : DOMAIN s = 1 .. N => SortByKey(s, key) = [n \in 1 .. N |-> s[p[n]]]
<1> DEFINE p == [n \in 1 .. N |-> CHOOSE i \in 1 .. N : Place(key, i) = n]
<1>1. \A n \in 1 .. N : p[n] \in 1 .. N /\ Place(key, p[n]) = n
  BY PlacesAreTaken
<1>2. p \in [1 .. N -> 1 .. N]
  BY <1>1
<1>3. \A s : DOMAIN s = 1 .. N => SortByKey(s, key) = [n \in 1 .. N |-> s[p[n]]]
  <2>1. DOMAIN key = 1 .. N
    OBVIOUS
  <2>2. QED
    BY <2>1 DEF SortByKey
<1> HIDE DEF p
<1>4. \A m, n \in 1 .. N : p[m] = p[n] => m = n
  BY <1>1
<1>5. ASSUME NEW m \in 1 .. N, NEW n \in 1 .. N, m <= n
      PROVE  key[p[m]] <= key[p[n]]
  <2>1. ~ (Place(key, p[n]) < Place(key, p[m]))
    BY <1>1, <1>5
  <2>2. ~ (key[p[n]] < key[p[m]])
    BY <1>1, <2>1, PlacesAreOrdered
  <2>3. key[p[n]] \in Int /\ key[p[m]] \in Int
    BY <1>1
  <2>4. QED
    BY <2>2, <2>3
<1>6. ASSUME NEW i \in 1 .. N
      PROVE  \E n \in 1 .. N : p[n] = i
  <2>1. Place(key, i) \in 1 .. N
    BY PlacesAreOrdered
  <2>2. p[Place(key, i)] \in 1 .. N /\ Place(key, p[Place(key, i)]) = Place(key, i)
    BY <1>1, <2>1
  <2>3. p[Place(key, i)] = i
    BY <2>2, PlacesAreDistinct
  <2>4. QED
    BY <2>1, <2>3
<1>7. QED
  BY <1>2, <1>3, <1>4, <1>5, <1>6

\* The live runtimes sort by Sorting.
LEMMA LiveSorts ==
  ASSUME NEW s, NEW key
  PROVE  Live!SortByKey(s, key) = SortByKey(s, key)
BY DEF Live!SortByKey, SortByKey, Live!Place, Place, Live!Cardinality, Cardinality

\* Sorting puts trades in order, and leaves as many above every moment.
LEMMA SortedFacts ==
  ASSUME NEW u, NEW s \in Seq(TradesOf(u))
  PROVE  /\ Live!Sorted(s) \in Seq(TradesOf(u)) /\ Len(Live!Sorted(s)) = Len(s)
         /\ InOrder(Live!Sorted(s))
         /\ \A x \in Nat : Cardinality(Above(Live!Sorted(s), x)) = Cardinality(Above(s, x))
<1> DEFINE N == Len(s)
           key == Live!Times(s)
           t == Live!Sorted(s)
<1>1. N \in Nat /\ DOMAIN s = 1 .. N /\ \A i \in 1 .. N : s[i] \in TradesOf(u) /\ s[i].at \in Nat
  <2>1. N \in Nat /\ DOMAIN s = 1 .. N /\ \A i \in 1 .. N : s[i] \in TradesOf(u)
    BY LenProperties, ElementOfSeq
  <2>2. QED
    BY <2>1 DEF TradesOf
<1>2. key \in [1 .. N -> Int] /\ \A i \in 1 .. N : key[i] = s[i].at
  BY <1>1 DEF Live!Times
<1>3. PICK p \in [1 .. N -> 1 .. N] :
           /\ \A i \in 1 .. N : \E n \in 1 .. N : p[n] = i
           /\ \A m, n \in 1 .. N : p[m] = p[n] => m = n
           /\ \A m, n \in 1 .. N : m <= n => key[p[m]] <= key[p[n]]
           /\ \A r : DOMAIN r = 1 .. N => SortByKey(r, key) = [n \in 1 .. N |-> r[p[n]]]
  <2> HIDE DEF key, N
  <2> QED
    BY <1>1, <1>2, SortIsPermutation
<1>4. t = [n \in 1 .. N |-> s[p[n]]]
  BY <1>1, <1>3, LiveSorts DEF Live!Sorted
<1>5. t \in [1 .. N -> TradesOf(u)]
  BY <1>1, <1>4
<1>6. t \in Seq(TradesOf(u)) /\ Len(t) = N
  BY <1>1, <1>5, IsASeq, LenProperties
<1>7. \A n \in 1 .. N : t[n].at = key[p[n]] /\ t[n].at = s[p[n]].at
  BY <1>2, <1>4
<1> HIDE DEF t, key, N
<1>8. InOrder(t)
  BY <1>3, <1>6, <1>7 DEF InOrder
<1>9. ASSUME NEW x \in Nat
      PROVE  Cardinality(Above(t, x)) = Cardinality(Above(s, x))
  <2> DEFINE f == [n \in Above(t, x) |-> p[n]]
  <2>1. f \in [Above(t, x) -> Above(s, x)]
    BY <1>3, <1>6, <1>7 DEF Above, N
  <2>2. \A m, n \in Above(t, x) : f[m] = f[n] => m = n
    <3>1. \A n \in Above(t, x) : n \in 1 .. N /\ f[n] = p[n]
      BY <1>6 DEF Above
    <3>2. QED
      BY <1>3, <3>1
  <2>3. \A i \in Above(s, x) : \E n \in Above(t, x) : f[n] = i
    <3> SUFFICES ASSUME NEW i \in Above(s, x)
                 PROVE  \E n \in Above(t, x) : f[n] = i
      OBVIOUS
    <3>1. i \in 1 .. N /\ s[i].at >= x
      BY DEF Above, N
    <3>2. PICK n \in 1 .. N : p[n] = i
      BY <1>3, <3>1
    <3>3. n \in Above(t, x)
      BY <1>6, <1>7, <3>1, <3>2 DEF Above
    <3>4. QED
      BY <3>2, <3>3
  <2>4. f \in Bijection(Above(t, x), Above(s, x))
    <3> HIDE DEF f
    <3> QED
      BY <2>1, <2>2, <2>3 DEF Bijection, Injection, Surjection, IsInjective
  <2>5. IsFiniteSet(Above(t, x))
    BY <1>6, AboveFacts
  <2>6. QED
    BY <2>4, <2>5, FS_Bijection DEF ExistsBijection
<1>10. QED
  BY <1>6, <1>8, <1>9 DEF t, N

\* The end of a sequence in order has what was above, as far as it reaches.
LEMMA EndFacts ==
  ASSUME NEW u, NEW t \in Seq(TradesOf(u)), InOrder(t), NEW n \in 0 .. Len(t)
  PROVE  LET s == SubSeq(t, Len(t) - n + 1, Len(t))
         IN  /\ s \in Seq(TradesOf(u)) /\ Len(s) = n /\ InOrder(s)
             /\ \A x \in Nat : Cardinality(Above(s, x)) = Smaller(n, Cardinality(Above(t, x)))
<1> DEFINE N == Len(t)
           s == SubSeq(t, N - n + 1, N)
<1>1. N \in Nat /\ n \in Nat /\ n <= N /\ \A i \in 1 .. N : t[i] \in TradesOf(u)
  BY LenProperties, ElementOfSeq
<1>2. /\ s \in Seq(TradesOf(u)) /\ Len(s) = n
      /\ \A i \in 1 .. n : s[i] = t[N - n + i]
  <2>1. N - n + 1 \in Int /\ N \in Int /\ \A i \in N - n + 1 .. N : t[i] \in TradesOf(u)
    BY <1>1
  <2>2. /\ s \in Seq(TradesOf(u))
        /\ Len(s) = IF N - n + 1 <= N THEN N - (N - n + 1) + 1 ELSE 0
        /\ \A i \in 1 .. N - (N - n + 1) + 1 : s[i] = t[N - n + 1 + i - 1]
    <3> HIDE DEF N
    <3> QED
      BY <2>1, SubSeqProperties
  <2>3. N - (N - n + 1) + 1 = n /\ \A i \in 1 .. n : N - n + 1 + i - 1 = N - n + i
    BY <1>1
  <2> HIDE DEF s, N
  <2>4. QED
    BY <1>1, <2>2, <2>3
<1> HIDE DEF s
<1>3. InOrder(s)
  <2> SUFFICES ASSUME NEW i \in 1 .. n, NEW j \in 1 .. n, i <= j
               PROVE  s[i].at <= s[j].at
    BY <1>2 DEF InOrder
  <2>1. N - n + i \in 1 .. N /\ N - n + j \in 1 .. N /\ N - n + i <= N - n + j
    BY <1>1
  <2>2. QED
    BY <1>2, <2>1 DEF InOrder
<1>4. ASSUME NEW x \in Nat
      PROVE  Cardinality(Above(s, x)) = Smaller(n, Cardinality(Above(t, x)))
  <2> DEFINE c == Cardinality(Above(s, x))
             d == Cardinality(Above(t, x))
  <2>1. c \in 0 .. n /\ d \in 0 .. N
    BY <1>2, AboveFacts
  <2>2. ASSUME NEW k \in 1 .. n
        PROVE  k <= c <=> k <= d
    <3>1. k \in 1 .. Len(s) /\ k \in 1 .. Len(t)
      BY <1>1, <1>2
    <3>2. s[Len(s) - k + 1] = t[Len(t) - k + 1]
      <4>1. Len(s) - k + 1 \in 1 .. n /\ N - n + (Len(s) - k + 1) = N - k + 1
        BY <1>1, <1>2
      <4>2. QED
        BY <1>2, <4>1
    <3>3. s[Len(s) - k + 1].at >= x <=> k <= c
      BY <1>2, <1>3, <3>1, AboveIsEnd
    <3>4. t[Len(t) - k + 1].at >= x <=> k <= d
      BY <3>1, AboveIsEnd
    <3>5. QED
      BY <3>2, <3>3, <3>4
  <2> HIDE DEF c, d
  <2>3. c = IF n < d THEN n ELSE d
    <3>1. CASE n = 0
      BY <1>1, <2>1, <3>1
    <3>2. CASE n # 0
      <4>1. c # 0 => c <= d
        BY <1>1, <2>1, <2>2
      <4>2. d # 0 /\ d <= n => d <= c
        <5>1. d # 0 /\ d <= n => d \in 1 .. n
          BY <1>1, <2>1
        <5>2. d <= d
          BY <2>1
        <5>3. QED
          BY <2>2, <5>1, <5>2
      <4>3. n <= d => n <= c
        BY <1>1, <2>1, <2>2, <3>2
      <4>4. QED
        BY <1>1, <2>1, <4>1, <4>2, <4>3
    <3>3. QED
      BY <3>1, <3>2
  <2>4. QED
    BY <2>3 DEF Smaller, c, d
<1>5. QED
  BY <1>2, <1>3, <1>4 DEF s

\* What is above a moment in two sequences adds up.
LEMMA ConcatAbove ==
  ASSUME NEW u, NEW s \in Seq(TradesOf(u)), NEW t \in Seq(TradesOf(u)), NEW x \in Nat
  PROVE  /\ s \o t \in Seq(TradesOf(u))
         /\ Cardinality(Above(s \o t, x)) = Cardinality(Above(s, x)) + Cardinality(Above(t, x))
<1> DEFINE M == Len(s)
           q == s \o t
           f == [i \in Above(t, x) |-> M + i]
           R == {M + i : i \in Above(t, x)}
<1>1. /\ M \in Nat /\ Len(t) \in Nat
      /\ q \in Seq(TradesOf(u)) /\ Len(q) = M + Len(t)
      /\ \A i \in 1 .. M + Len(t) : q[i] = IF i <= M THEN s[i] ELSE t[i - M]
  BY ConcatProperties, LenProperties
<1> HIDE DEF q
<1>2. IsFiniteSet(Above(s, x)) /\ IsFiniteSet(Above(t, x))
  BY AboveFacts
<1>3. Above(q, x) = Above(s, x) \cup R
  <2>1. ASSUME NEW i \in Above(q, x)
        PROVE  i \in Above(s, x) \cup R
    <3>1. i \in 1 .. M + Len(t) /\ q[i].at >= x
      BY <1>1 DEF Above
    <3>2. CASE i <= M
      BY <1>1, <3>1, <3>2 DEF Above
    <3>3. CASE ~ (i <= M)
      <4>1. i - M \in 1 .. Len(t) /\ i = M + (i - M) /\ t[i - M].at >= x
        BY <1>1, <3>1, <3>3
      <4>2. i - M \in Above(t, x)
        BY <4>1 DEF Above
      <4>3. QED
        BY <4>1, <4>2
    <3>4. QED
      BY <3>2, <3>3
  <2>2. ASSUME NEW i \in Above(s, x)
        PROVE  i \in Above(q, x)
    <3>1. i \in 1 .. M /\ s[i].at >= x
      BY DEF Above
    <3>2. i \in 1 .. M + Len(t) /\ i <= M
      BY <1>1, <3>1
    <3>3. QED
      BY <1>1, <3>1, <3>2 DEF Above
  <2>3. ASSUME NEW i \in Above(t, x)
        PROVE  M + i \in Above(q, x)
    <3>1. i \in 1 .. Len(t) /\ t[i].at >= x
      BY DEF Above
    <3>2. M + i \in 1 .. M + Len(t) /\ ~ (M + i <= M) /\ M + i - M = i
      BY <1>1, <3>1
    <3>3. q[M + i] = t[i]
      <4>1. q[M + i] = IF M + i <= M THEN s[M + i] ELSE t[(M + i) - M]
        BY <1>1, <3>2
      <4>2. (M + i) - M = i
        BY <1>1, <3>1
      <4>3. QED
        BY <3>2, <4>1, <4>2
    <3>4. QED
      BY <1>1, <3>1, <3>2, <3>3 DEF Above
  <2>4. QED
    BY <2>1, <2>2, <2>3
<1>4. Above(s, x) \cap R = {}
  BY <1>1 DEF Above
<1>5. IsFiniteSet(R) /\ Cardinality(R) = Cardinality(Above(t, x))
  <2>1. f \in [Above(t, x) -> R]
    OBVIOUS
  <2>2. \A i, j \in Above(t, x) : f[i] = f[j] => i = j
    <3>1. \A i \in Above(t, x) : i \in Int /\ f[i] = M + i
      BY DEF Above
    <3>2. QED
      BY <1>1, <3>1
  <2>3. \A r \in R : \E i \in Above(t, x) : f[i] = r
    OBVIOUS
  <2>4. f \in Bijection(Above(t, x), R)
    <3> HIDE DEF f, R
    <3> QED
      BY <2>1, <2>2, <2>3 DEF Bijection, Injection, Surjection, IsInjective
  <2>5. ExistsBijection(Above(t, x), R)
    BY <2>4 DEF ExistsBijection
  <2> HIDE DEF R
  <2>6. QED
    BY <1>2, <2>5, FS_Bijection
<1> HIDE DEF R
<1>6. Cardinality(Above(q, x)) =
        Cardinality(Above(s, x)) + Cardinality(R) - Cardinality(Above(s, x) \cap R)
  BY <1>2, <1>3, <1>5, FS_Union
<1>7. Cardinality(Above(s, x)) \in Nat /\ Cardinality(Above(t, x)) \in Nat
  BY <1>2, FS_CardinalityType
<1>8. Cardinality(Above(s, x) \cap R) = 0
  BY <1>4, FS_EmptySet
<1>9. QED
  BY <1>1, <1>5, <1>6, <1>7, <1>8 DEF q

\* A buffer that has as many above every moment as all that came, up to its size, has
\* the newest of them.
LEMMA CountsDecide ==
  ASSUME NEW u, NEW b \in Seq(TradesOf(u)), InOrder(b), NEW t \in Seq(TradesOf(u)), InOrder(t),
         \A x \in Nat : Cardinality(Above(b, x)) = Smaller(BufferSize, Cardinality(Above(t, x)))
  PROVE  /\ Len(b) = IF Len(t) < BufferSize THEN Len(t) ELSE BufferSize
         /\ \A i \in 1 .. Len(b) : b[i].at = t[Len(t) - Len(b) + i].at
<1> DEFINE B == Len(b)
           T == Len(t)
<1>1. /\ B \in Nat /\ T \in Nat /\ BufferSize \in Nat \ {0}
      /\ (\A i \in 1 .. B : b[i].at \in Nat) /\ (\A i \in 1 .. T : t[i].at \in Nat)
      /\ Cardinality(Above(b, 0)) = B /\ Cardinality(Above(t, 0)) = T
  <2>1. /\ B \in Nat /\ T \in Nat
        /\ (\A i \in 1 .. B : b[i] \in TradesOf(u)) /\ (\A i \in 1 .. T : t[i] \in TradesOf(u))
        /\ Cardinality(Above(b, 0)) = B /\ Cardinality(Above(t, 0)) = T
    BY AboveFacts
  <2>2. BufferSize \in Nat \ {0}
    BY LiveAssumption DEF Live!TradeAssumption
  <2>3. QED
    BY <2>1, <2>2 DEF TradesOf
<1>2. B = IF T < BufferSize THEN T ELSE BufferSize
  BY <1>1 DEF Smaller
<1>3. ASSUME NEW i \in 1 .. B
      PROVE  b[i].at = t[T - B + i].at
  <2> DEFINE k == B - i + 1
             j == T - B + i
  <2>1. k \in 1 .. B /\ k \in 1 .. T /\ j \in 1 .. T /\ B - k + 1 = i /\ T - k + 1 = j
    BY <1>1, <1>2
  <2>2. ASSUME NEW x \in Nat
        PROVE  b[i].at >= x <=> t[j].at >= x
    <3>1. b[i].at >= x <=> k <= Cardinality(Above(b, x))
      BY <2>1, AboveIsEnd
    <3>2. t[j].at >= x <=> k <= Cardinality(Above(t, x))
      BY <2>1, AboveIsEnd
    <3>3. Cardinality(Above(b, x)) = Smaller(BufferSize, Cardinality(Above(t, x)))
      OBVIOUS
    <3>4. Cardinality(Above(t, x)) \in Nat /\ k <= BufferSize /\ k \in Nat
      <4>1. Cardinality(Above(t, x)) \in 0 .. T
        BY AboveFacts
      <4>2. QED
        BY <1>1, <1>2, <2>1, <4>1
    <3> HIDE DEF k
    <3>5. QED
      BY <1>1, <3>1, <3>2, <3>3, <3>4 DEF Smaller
  <2>3. b[i].at \in Nat /\ t[j].at \in Nat
    BY <1>1, <2>1
  <2>4. b[i].at >= b[i].at /\ t[j].at >= t[j].at
    BY <2>3
  <2>5. t[j].at >= b[i].at /\ b[i].at >= t[j].at
    BY <2>2, <2>3, <2>4
  <2>6. QED
    BY <2>3, <2>5
<1>4. QED
  BY <1>2, <1>3

\* The buffer of u is in order, and has its newest trades.
BufferOf(u) ==
  /\ buffer[u] \in Seq(TradesOf(u)) /\ received[u] \in Seq(TradesOf(u))
  /\ InOrder(buffer[u])
  /\ \A x \in Nat : Cardinality(Above(buffer[u], x)) =
                      Smaller(BufferSize, Cardinality(Above(received[u], x)))

\* Handlers are made for underlyings of their connection.
RoutesInv ==
  /\ venue \in Venues
  /\ routes \in [Live!Connections -> SUBSET Live!Underlyings]
  /\ registered \in [Live!Connections -> SUBSET Live!Underlyings]
  /\ \A k \in Live!Connections :
       routes[k] \subseteq Live!Registered(k) /\ registered[k] \subseteq Live!Registered(k)

LiveInv ==
  /\ RoutesInv
  /\ made \in [Live!Underlyings -> Nat]
  /\ buffer = [u \in Live!Underlyings |-> buffer[u]]
  /\ received = [u \in Live!Underlyings |-> received[u]]
  /\ \A u \in Live!Underlyings : BufferOf(u)

\* Trades that are pushed leave the buffer with the newest.
LEMMA PushKeepsNewest ==
  ASSUME NEW u, NEW b \in Seq(TradesOf(u)), NEW r \in Seq(TradesOf(u)),
         \A x \in Nat : Cardinality(Above(b, x)) = Smaller(BufferSize, Cardinality(Above(r, x))),
         NEW p \in Seq(TradesOf(u))
  PROVE  /\ Live!Newest(b \o p) \in Seq(TradesOf(u)) /\ r \o p \in Seq(TradesOf(u))
         /\ InOrder(Live!Newest(b \o p))
         /\ \A x \in Nat : Cardinality(Above(Live!Newest(b \o p), x)) =
                             Smaller(BufferSize, Cardinality(Above(r \o p, x)))
<1> DEFINE q == b \o p
           t == Live!Sorted(q)
           n == IF Len(q) > BufferSize THEN BufferSize ELSE Len(q)
           s == SubSeq(t, Len(t) - n + 1, Len(t))
<1>1. q \in Seq(TradesOf(u)) /\ r \o p \in Seq(TradesOf(u))
  BY ConcatProperties
<1> HIDE DEF q
<1>2. /\ t \in Seq(TradesOf(u)) /\ Len(t) = Len(q) /\ InOrder(t)
      /\ \A x \in Nat : Cardinality(Above(t, x)) = Cardinality(Above(q, x))
  BY <1>1, SortedFacts
<1>3. Len(q) \in Nat /\ BufferSize \in Nat \ {0}
  BY <1>1, LenProperties, LiveAssumption DEF Live!TradeAssumption
<1>4. n \in 0 .. Len(q)
  BY <1>3
<1>5. Live!Newest(q) = s
  <2>1. (IF Len(q) > BufferSize THEN Len(q) - BufferSize ELSE 0) + 1 = Len(q) - n + 1
    BY <1>3
  <2>2. QED
    BY <1>2, <2>1 DEF Live!Newest
<1> HIDE DEF t
<1>6. /\ s \in Seq(TradesOf(u)) /\ InOrder(s)
      /\ \A x \in Nat : Cardinality(Above(s, x)) = Smaller(n, Cardinality(Above(t, x)))
  <2> HIDE DEF n
  <2>1. n \in 0 .. Len(t)
    BY <1>2, <1>4
  <2>2. QED
    BY <1>2, <2>1, EndFacts
<1> HIDE DEF s
<1>7. ASSUME NEW x \in Nat
      PROVE  Cardinality(Above(s, x)) = Smaller(BufferSize, Cardinality(Above(r \o p, x)))
  <2> DEFINE cb == Cardinality(Above(b, x))
             cr == Cardinality(Above(r, x))
             cp == Cardinality(Above(p, x))
             cq == Cardinality(Above(q, x))
  <2>1. cq = cb + cp /\ Cardinality(Above(r \o p, x)) = cr + cp
    BY ConcatAbove DEF q
  <2>2. cb = Smaller(BufferSize, cr)
    OBVIOUS
  <2>3. Cardinality(Above(s, x)) = Smaller(n, cq)
    BY <1>2, <1>6
  <2>4. cb \in Nat /\ cr \in Nat /\ cp \in Nat /\ cq \in Nat /\ cq <= Len(q)
    <3>1. cb \in 0 .. Len(b)
      BY AboveFacts
    <3>2. cr \in 0 .. Len(r)
      BY AboveFacts
    <3>3. cp \in 0 .. Len(p)
      BY AboveFacts
    <3>4. cq \in 0 .. Len(q)
      BY <1>1, AboveFacts
    <3> HIDE DEF cb, cr, cp, cq
    <3>5. QED
      BY <1>3, <3>1, <3>2, <3>3, <3>4
  <2> HIDE DEF cb, cr, cp, cq
  <2>5. QED
    BY <1>3, <2>1, <2>2, <2>3, <2>4 DEF Smaller
<1>8. QED
  BY <1>1, <1>5, <1>6, <1>7 DEF q

\* The pushes of a frame or a seed, each to its underlying, keep the buffers.
LEMMA PushedKeeps ==
  ASSUME NEW u \in Live!Underlyings, BufferOf(u), NEW p \in Seq(TradesOf(u)),
         buffer'[u] = Live!Newest(buffer[u] \o p), received'[u] = received[u] \o p
  PROVE  BufferOf(u)'
<1> DEFINE b == buffer[u]
           r == received[u]
<1>1. /\ b \in Seq(TradesOf(u)) /\ r \in Seq(TradesOf(u))
      /\ \A x \in Nat : Cardinality(Above(b, x)) = Smaller(BufferSize, Cardinality(Above(r, x)))
  BY DEF BufferOf
<1> HIDE DEF b, r
<1>2. /\ Live!Newest(b \o p) \in Seq(TradesOf(u)) /\ r \o p \in Seq(TradesOf(u))
      /\ InOrder(Live!Newest(b \o p))
      /\ \A x \in Nat : Cardinality(Above(Live!Newest(b \o p), x)) =
                          Smaller(BufferSize, Cardinality(Above(r \o p, x)))
  BY <1>1, PushKeepsNewest
<1>3. buffer'[u] = Live!Newest(b \o p) /\ received'[u] = r \o p
  BY DEF b, r
<1>4. QED
  BY <1>2, <1>3 DEF BufferOf

\* Nothing pushed is a push of nothing.
LEMMA KeptBuffer ==
  ASSUME NEW u, BufferOf(u), buffer'[u] = buffer[u], received'[u] = received[u]
  PROVE  BufferOf(u)'
  BY DEF BufferOf

\* A frame of u's connection is parsed for an underlying as trades of that
\* underlying: elsewhere than at Deribit the connection has no other.
LEMMA ParsedIsOfUnderlying ==
  ASSUME RoutesInv, NEW u \in Live!Underlyings, NEW at \in Nat,
         NEW w \in routes[Live!ConnectionKey(u)]
  PROVE  Live!Parse([of |-> u, at |-> at], w) \in Seq(TradesOf(w))
<1> DEFINE trade == [of |-> u, at |-> at]
           k == Live!ConnectionKey(u)
<1>1. k \in Live!Connections
  BY DEF Live!Connections
<1>2. w \in Live!Underlyings /\ Live!ConnectionKey(w) = k
  BY <1>1 DEF RoutesInv, Live!Registered
<1>3. venue # "deribit" => w = u
  BY <1>2 DEF Live!ConnectionKey
<1>4. /\ [of |-> w, at |-> at] \in TradesOf(w) /\ trade.of = u /\ trade.at = at
      /\ w = u => trade \in TradesOf(w)
  BY DEF TradesOf
<1>5. /\ \A t \in TradesOf(w) : <<t>> \in Seq(TradesOf(w))
      /\ <<>> \in Seq(TradesOf(w))
  BY EmptySeq
<1>6. venue \in {"deribit", "okx", "bybit", "binance", "derive"}
  BY LiveAssumption DEF Live!TradeAssumption, RoutesInv
<1> DEFINE Good(s) == s \in Seq(TradesOf(w))
<1>7. /\ w = u => Good(<<trade>>)
      /\ Good(<<[of |-> w, at |-> at]>>)
      /\ Good(Live!DeribitTrades(trade, w))
  BY <1>4, <1>5 DEF Live!DeribitTrades
<1>8. /\ Good(Live!OkxTrades(trade, w)) /\ Good(Live!DeriveTrades(trade, w))
      /\ venue # "deribit" => Good(Live!BybitTrades(trade, w)) /\ Good(Live!BinanceTrades(trade, w))
  BY <1>3, <1>4, <1>7 DEF Live!OkxTrades, Live!DeriveTrades, Live!BybitTrades, Live!BinanceTrades
<1> HIDE DEF Good, trade
<1>9. Good(Live!Parse(trade, w))
  <2>1. CASE venue = "deribit"
    BY <1>7, <2>1, Zenon DEF Live!Parse
  <2>2. CASE venue = "okx"
    BY <1>8, <2>2, Zenon DEF Live!Parse
  <2>3. CASE venue = "bybit"
    BY <1>8, <2>3, Zenon DEF Live!Parse
  <2>4. CASE venue = "binance"
    BY <1>8, <2>4, Zenon DEF Live!Parse
  <2>5. CASE venue = "derive"
    BY <1>8, <2>5, Zenon DEF Live!Parse
  <2>6. QED
    BY <1>6, <2>1, <2>2, <2>3, <2>4, <2>5
<1>10. QED
  BY <1>9 DEF Good, trade

\* A trade is pushed for the underlyings its frame is parsed for.
LEMMA TradeKeepsLive ==
  ASSUME LiveInv, NEW u \in Live!Underlyings, Live!Trade(u)
  PROVE  LiveInv'
<1> DEFINE k == Live!ConnectionKey(u)
           trade == [of |-> u, at |-> made[u] + 1]
           pushed == [w \in Live!Underlyings |-> IF w \in routes[k] THEN Live!Parse(trade, w) ELSE <<>>]
<1>1. /\ made' = [made EXCEPT ![u] = @ + 1]
      /\ UNCHANGED <<venue, routes, registered>>
  BY DEF Live!Trade, Live!lineVars
<1>2. made[u] + 1 \in Nat /\ made' \in [Live!Underlyings -> Nat] /\ RoutesInv
  BY <1>1 DEF LiveInv
<1>3. Live!Underlyings' = Live!Underlyings /\ RoutesInv'
  BY <1>1 DEF LiveInv, RoutesInv, Live!Underlyings, Live!Connections, Live!ConnectionKey,
              Live!Registered
<1>4. CASE Live!Received(k, trade)
  <2>1. /\ buffer' = [w \in Live!Underlyings |-> Live!Newest(buffer[w] \o pushed[w])]
        /\ received' = [w \in Live!Underlyings |-> received[w] \o pushed[w]]
    BY <1>4 DEF Live!Received
  <2>2. ASSUME NEW w \in Live!Underlyings
        PROVE  BufferOf(w)'
    <3>1. pushed[w] \in Seq(TradesOf(w))
      <4>1. CASE w \in routes[k]
        <5>1. Live!Parse(trade, w) \in Seq(TradesOf(w))
          BY <1>2, <4>1, ParsedIsOfUnderlying
        <5> HIDE DEF trade
        <5>2. QED
          BY <4>1, <5>1
      <4>2. CASE w \notin routes[k]
        BY <4>2, EmptySeq
      <4>3. QED
        BY <4>1, <4>2
    <3> HIDE DEF pushed
    <3>2. /\ buffer'[w] = Live!Newest(buffer[w] \o pushed[w])
          /\ received'[w] = received[w] \o pushed[w]
      BY <2>1
    <3>3. BufferOf(w)
      BY DEF LiveInv
    <3>4. QED
      BY <3>1, <3>2, <3>3, PushedKeeps
  <2> HIDE DEF pushed
  <2>3. /\ buffer' = [w \in Live!Underlyings |-> buffer'[w]]
        /\ received' = [w \in Live!Underlyings |-> received'[w]]
    BY <2>1
  <2>4. QED
    BY <1>2, <1>3, <2>2, <2>3 DEF LiveInv
<1>5. CASE UNCHANGED <<buffer, received>>
  <2>1. \A w \in Live!Underlyings : BufferOf(w)'
    BY <1>5 DEF LiveInv, BufferOf
  <2>2. QED
    BY <1>2, <1>3, <1>5, <2>1 DEF LiveInv
<1>6. QED
  BY <1>4, <1>5 DEF Live!Trade

\* A seed is pushed for its underlying.
LEMMA SeededKeepsLive ==
  ASSUME LiveInv, NEW u \in Live!Underlyings, Live!Seeded(u)
  PROVE  LiveInv'
<1>1. PICK p \in Live!SeedAnswers(u) : Live!Push(u, p)
  BY DEF Live!Seeded
<1>2. /\ UNCHANGED <<venue, routes, registered, made>>
  BY DEF Live!Seeded, Live!lineVars
<1>3. /\ buffer' = [buffer EXCEPT ![u] = Live!Newest(buffer[u] \o p)]
      /\ received' = [received EXCEPT ![u] = received[u] \o p]
  BY <1>1 DEF Live!Push
<1>4. p \in Seq(TradesOf(u))
  <2>1. PICK last \in 0 .. made[u] :
          p \in {[n \in 1 .. last + 1 - first |-> [of |-> u, at |-> first + n - 1]] : first \in 1 .. last + 1}
    BY DEF Live!SeedAnswers
  <2>2. PICK first \in 1 .. last + 1 : p = [n \in 1 .. last + 1 - first |-> [of |-> u, at |-> first + n - 1]]
    BY <2>1
  <2>3. /\ last + 1 - first \in Nat
        /\ \A n \in 1 .. last + 1 - first : first + n - 1 \in Nat
    <3>1. made[u] \in Nat
      BY DEF LiveInv
    <3>2. last \in Nat /\ first \in Nat \ {0} /\ first <= last + 1
      BY <3>1
    <3>3. QED
      BY <3>2
  <2>4. \A n \in 1 .. last + 1 - first : [of |-> u, at |-> first + n - 1] \in TradesOf(u)
    BY <2>3 DEF TradesOf
  <2> DEFINE size == last + 1 - first
             trade(n) == [of |-> u, at |-> first + n - 1]
  <2> HIDE DEF size, trade
  <2>5. /\ p = [n \in 1 .. size |-> trade(n)] /\ size \in Nat
        /\ \A n \in 1 .. size : trade(n) \in TradesOf(u)
    BY <2>2, <2>3, <2>4 DEF size, trade
  <2>6. QED
    BY <2>5, IsASeq
<1>5. Live!Underlyings' = Live!Underlyings /\ RoutesInv'
  BY <1>2 DEF LiveInv, RoutesInv, Live!Underlyings, Live!Connections, Live!ConnectionKey,
              Live!Registered
<1>6. /\ DOMAIN buffer = Live!Underlyings /\ DOMAIN received = Live!Underlyings
      /\ \A w \in Live!Underlyings : BufferOf(w)
  BY DEF LiveInv
<1>7. ASSUME NEW w \in Live!Underlyings
      PROVE  BufferOf(w)'
  <2>1. CASE w = u
    BY <1>3, <1>4, <1>6, <2>1, PushedKeeps
  <2>2. CASE w # u
    <3>1. buffer'[w] = buffer[w] /\ received'[w] = received[w]
      BY <1>3, <1>6, <2>2
    <3>2. QED
      BY <1>6, <3>1, KeptBuffer
  <2>3. QED
    BY <2>1, <2>2
<1>8. /\ buffer' = [w \in Live!Underlyings |-> buffer'[w]]
      /\ received' = [w \in Live!Underlyings |-> received'[w]]
  BY <1>3, <1>6
<1>9. QED
  BY <1>2, <1>5, <1>7, <1>8 DEF LiveInv

\* A step that pushes nothing keeps the buffers.
LEMMA NothingPushed ==
  ASSUME LiveInv, RoutesInv', UNCHANGED <<venue, made, buffer, received>>
  PROVE  LiveInv'
<1>1. Live!Underlyings' = Live!Underlyings
  BY DEF Live!Underlyings
<1>2. \A w \in Live!Underlyings : BufferOf(w)'
  BY DEF LiveInv, BufferOf
<1>3. /\ made' \in [Live!Underlyings' -> Nat]
      /\ buffer' = [w \in Live!Underlyings' |-> buffer'[w]]
      /\ received' = [w \in Live!Underlyings' |-> received'[w]]
  BY <1>1 DEF LiveInv
<1>4. QED
  BY <1>1, <1>2, <1>3 DEF LiveInv

\* Handlers that are kept, or made for what is registered, stay of their connection.
LEMMA RoutesAreKept ==
  ASSUME RoutesInv, UNCHANGED venue,
         \/ UNCHANGED <<routes, registered>>
         \/ /\ \E k \in Live!Connections : routes' = [routes EXCEPT ![k] = registered[k]]
            /\ UNCHANGED registered
         \/ UNCHANGED routes /\ registered' = [k \in Live!Connections |-> {}]
  PROVE  RoutesInv'
<1>1. /\ Live!Underlyings' = Live!Underlyings /\ Live!Connections' = Live!Connections
      /\ \A k : Live!Registered(k)' = Live!Registered(k)
  BY DEF Live!Underlyings, Live!Connections, Live!ConnectionKey, Live!Registered
<1>2. /\ routes' \in [Live!Connections -> SUBSET Live!Underlyings]
      /\ \A k \in Live!Connections : routes'[k] \subseteq Live!Registered(k)
  BY DEF RoutesInv
<1>3. /\ registered' \in [Live!Connections -> SUBSET Live!Underlyings]
      /\ \A k \in Live!Connections : registered'[k] \subseteq Live!Registered(k)
  BY DEF RoutesInv
<1>4. QED
  BY <1>1, <1>2, <1>3 DEF RoutesInv

\* A step of the live runtime keeps its invariant.
LEMMA LiveStep ==
  ASSUME LiveInv, Live!Next
  PROVE  LiveInv'
<1> USE DEF Live!lineVars, Live!healthVars, Live!tradeVars
<1>1. RoutesInv
  BY DEF LiveInv
<1>2. ASSUME NEW k \in Live!Connections, Live!Opened(k)
      PROVE  LiveInv'
  BY <1>1, <1>2, RoutesAreKept, NothingPushed DEF Live!Opened
<1>3. ASSUME NEW k \in Live!Connections, Live!Heard(k)
      PROVE  LiveInv'
  BY <1>1, <1>3, RoutesAreKept, NothingPushed DEF Live!Heard
<1>4. ASSUME NEW k \in Live!Connections, Live!FallsSilent(k)
      PROVE  LiveInv'
  BY <1>1, <1>4, RoutesAreKept, NothingPushed DEF Live!FallsSilent
<1>5. ASSUME NEW k \in Live!Connections, Live!Closed(k)
      PROVE  LiveInv'
  BY <1>1, <1>5, RoutesAreKept, NothingPushed DEF Live!Closed
<1>6. ASSUME NEW k \in Live!Connections, Live!Reconnect(k)
      PROVE  LiveInv'
  BY <1>1, <1>6, RoutesAreKept, NothingPushed DEF Live!Reconnect
<1>7. ASSUME NEW u \in Live!Underlyings, Live!Trade(u)
      PROVE  LiveInv'
  BY <1>7, TradeKeepsLive
<1>8. ASSUME NEW u \in Live!Underlyings, Live!Seeded(u)
      PROVE  LiveInv'
  BY <1>8, SeededKeepsLive
<1>9. ASSUME NEW u \in Live!Underlyings, Live!Ages(u)
      PROVE  LiveInv'
  BY <1>1, <1>9, RoutesAreKept, NothingPushed DEF Live!Ages
<1>10. CASE Live!Watchdog
  BY <1>1, <1>10, RoutesAreKept, NothingPushed DEF Live!Watchdog
<1>11. CASE Live!Dispose
  BY <1>1, <1>11, RoutesAreKept, NothingPushed DEF Live!Dispose
<1>12. QED
  BY <1>2, <1>3, <1>4, <1>5, <1>6, <1>7, <1>8, <1>9, <1>10, <1>11 DEF Live!Next

\* The connection of an underlying has a first underlying.
LEMMA FirstIsRegistered ==
  ASSUME venue \in Venues, NEW k \in Live!Connections
  PROVE  Live!First(k) \in Live!Registered(k)
<1> DEFINE list == started[venue]
           places == {i \in DOMAIN list : Live!ConnectionKey(list[i]) = k}
<1>1. DOMAIN list = 1 .. Len(list) /\ Live!Underlyings = {list[i] : i \in DOMAIN list}
  BY LiveAssumption DEF Live!TradeAssumption, Live!Underlyings, Live!ToSet
<1>2. PICK u \in Live!Underlyings : k = Live!ConnectionKey(u)
  BY DEF Live!Connections
<1>3. PICK i0 \in DOMAIN list : list[i0] = u
  BY <1>1
<1>4. i0 \in places /\ places \subseteq Nat
  BY <1>1, <1>2, <1>3
<1>5. PICK i \in places : \A j \in places : ~ (j < i)
  <2>1. IsWellFoundedOn(OpToRel(<, Nat), Nat)
    BY NatLessThanWellFounded
  <2>2. \E i \in places : \A j \in places : ~ (<<j, i>> \in OpToRel(<, Nat))
    <3> HIDE DEF places
    <3> QED
      BY <1>4, <2>1, WFMin
  <2>3. QED
    BY <1>4, <2>2 DEF OpToRel
<1>6. /\ list[i] \in Live!Registered(k)
      /\ \A j \in 1 .. i - 1 : Live!ConnectionKey(list[j]) # k
  <2>1. i \in 1 .. Len(list) /\ Live!ConnectionKey(list[i]) = k
    BY <1>1
  <2>2. \A j \in 1 .. i - 1 : j \in DOMAIN list /\ j < i
    BY <1>1, <2>1
  <2>3. QED
    BY <1>1, <1>5, <2>1, <2>2 DEF Live!Registered
<1>7. QED
  BY <1>6 DEF Live!First

\* Nothing has been traded at first.
LEMMA LiveBegins ==
  ASSUME Live!Init
  PROVE  LiveInv
<1>1. venue \in Venues
  BY DEF Live!Init
<1>2. ASSUME NEW k \in Live!Connections
      PROVE  Live!First(k) \in Live!Registered(k) /\ Live!Registered(k) \subseteq Live!Underlyings
  BY <1>1, <1>2, FirstIsRegistered DEF Live!Registered
<1>3. RoutesInv
  BY <1>1, <1>2 DEF RoutesInv, Live!Init
<1>4. ASSUME NEW u \in Live!Underlyings
      PROVE  BufferOf(u)
  <2>1. buffer[u] = <<>> /\ received[u] = <<>>
    BY DEF Live!Init
  <2>2. <<>> \in Seq(TradesOf(u)) /\ Len(<<>>) = 0
    BY EmptySeq
  <2>3. InOrder(<<>>) /\ \A x \in Nat : Above(<<>>, x) = {}
    BY <2>2 DEF InOrder, Above
  <2>4. Cardinality({}) = 0 /\ BufferSize \in Nat \ {0}
    BY FS_EmptySet, LiveAssumption DEF Live!TradeAssumption
  <2>5. Smaller(BufferSize, 0) = 0
    BY <2>4 DEF Smaller
  <2>6. QED
    BY <2>1, <2>2, <2>3, <2>4, <2>5 DEF BufferOf
<1>5. /\ made \in [Live!Underlyings -> Nat]
      /\ buffer = [u \in Live!Underlyings |-> buffer[u]]
      /\ received = [u \in Live!Underlyings |-> received[u]]
  BY DEF Live!Init
<1>6. QED
  BY <1>3, <1>4, <1>5 DEF LiveInv

\* What is kept of an underlying are its newest trades of all that came, in order,
\* through every seed, reconnect and shared connection.
THEOREM BuffersAreNewest == IngestSpec => []BufferIsNewest
<1>1. IngestInit => LiveInv
  BY LiveBegins DEF IngestInit
<1>2. LiveInv /\ [IngestNext]_ingestVars => LiveInv'
  <2> SUFFICES ASSUME LiveInv, [IngestNext]_ingestVars PROVE LiveInv'
    OBVIOUS
  <2>1. CASE OfLive(Live!Next)
    BY <2>1, LiveStep DEF OfLive
  <2>2. CASE UNCHANGED liveVars
    <3>1. RoutesInv'
      BY <2>2, RoutesAreKept DEF liveVars, LiveInv
    <3>2. QED
      BY <2>2, <3>1, NothingPushed DEF liveVars
  <2>3. QED
    BY <2>1, <2>2 DEF IngestNext, OfWriter, ingestVars
<1>3. LiveInv => BufferIsNewest
  <2> SUFFICES ASSUME LiveInv, NEW u \in Live!Underlyings
               PROVE  LET all == Live!Sorted(received[u])
                          n == Len(buffer[u])
                      IN  /\ n = IF Len(all) < BufferSize THEN Len(all) ELSE BufferSize
                          /\ \A i \in 1 .. n : /\ buffer[u][i].of = u
                                               /\ buffer[u][i].at = all[Len(all) - n + i].at
    BY DEF BufferIsNewest, Live!BufferIsNewest
  <2> DEFINE b == buffer[u]
             r == received[u]
             t == Live!Sorted(r)
  <2>1. /\ b \in Seq(TradesOf(u)) /\ r \in Seq(TradesOf(u)) /\ InOrder(b)
        /\ \A x \in Nat : Cardinality(Above(b, x)) = Smaller(BufferSize, Cardinality(Above(r, x)))
    BY DEF LiveInv, BufferOf
  <2> HIDE DEF b, r
  <2>2. /\ t \in Seq(TradesOf(u)) /\ InOrder(t)
        /\ \A x \in Nat : Cardinality(Above(t, x)) = Cardinality(Above(r, x))
    BY <2>1, SortedFacts
  <2> HIDE DEF t
  <2>3. /\ Len(b) = IF Len(t) < BufferSize THEN Len(t) ELSE BufferSize
        /\ \A i \in 1 .. Len(b) : b[i].at = t[Len(t) - Len(b) + i].at
    BY <2>1, <2>2, CountsDecide
  <2>4. \A i \in 1 .. Len(b) : b[i] \in TradesOf(u)
    BY <2>1, ElementOfSeq
  <2>5. \A i \in 1 .. Len(b) : b[i].of = u
    BY <2>4 DEF TradesOf
  <2>6. QED
    BY <2>3, <2>5 DEF b, r, t
<1>4. QED
  BY <1>1, <1>2, <1>3, PTL DEF IngestSpec
=============================================================================
