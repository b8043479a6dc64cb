----------------------------- MODULE TradeWriter -----------------------------
(***************************************************************************)
(* The ingest worker's BufferedTradeWriter (packages/ingest/src/index.ts)   *)
(* over PostgresTradeStore (packages/db/src/postgres-trade-store.ts): a     *)
(* bounded queue, one flush at a time, batches written in several inserts,  *)
(* a backoff after a failure, and the worker's shutdown.  A trade is its    *)
(* trade_uid; the runtimes may report one again after a reconnect.          *)
(***************************************************************************)
EXTENDS Integers, Sequences, FiniteSets, Functions

CONSTANTS Trades,
          MaxPending,   \* MAX_PENDING_RECORDS
          FlushBatch,   \* FLUSH_BATCH_SIZE
          InsertBatch,  \* INSERT_BATCH_SIZE of the store
          MaxPushes,    \* bound: how often the runtimes report a trade
          MaxFailures,  \* bound: how many inserts fail
          MaxRestarts   \* bound: how often the worker dies and is started

ASSUME SizesAssumption ==
  /\ MaxPending \in Nat \ {0} /\ FlushBatch \in Nat \ {0} /\ InsertBatch \in Nat \ {0}
ASSUME BoundsAssumption ==
  /\ MaxPushes \in Nat /\ MaxFailures \in Nat /\ MaxRestarts \in Nat

VARIABLES
  queue,
  batch,              \* what a flush is writing; <<>>: not flushing
  inserted,           \* how many of the batch have been inserted
  backingOff,         \* now < nextFlushAt
  shutdown,           \* "no", "draining": awaiting a flush of flushAll, "done"
  queuedBeforeFlush,  \* of flushAll
  rows,               \* [Trades -> Nat]: the rows of flow_trades with this uid
  accepted,           \* history: the trades this worker was given
  dropped,            \* history: those it gave up on overflow
  owed,               \* history: what flushAll found waiting; {} once it failed
  late,               \* history: how many trades came while it ran
  pushes, failures, restarts

bufferVars == <<queue, batch, inserted, backingOff>>
drainVars == <<shutdown, queuedBeforeFlush>>
historyVars == <<accepted, dropped, owed, late>>
vars == <<bufferVars, drainVars, rows, historyVars, pushes, failures, restarts>>

TypeOK ==
  /\ queue \in Seq(Trades) /\ batch \in Seq(Trades)
  /\ inserted \in Nat /\ backingOff \in BOOLEAN
  /\ shutdown \in {"no", "draining", "done"} /\ queuedBeforeFlush \in Nat
  /\ rows \in [Trades -> Nat]
  /\ accepted \subseteq Trades /\ dropped \subseteq Trades
  /\ owed \subseteq Trades /\ late \in Nat
  /\ pushes \in Nat /\ failures \in Nat /\ restarts \in Nat

Init ==
  /\ queue = <<>> /\ batch = <<>> /\ inserted = 0 /\ backingOff = FALSE
  /\ shutdown = "no" /\ queuedBeforeFlush = 0
  /\ rows = [t \in Trades |-> 0]
  /\ accepted = {} /\ dropped = {} /\ owed = {} /\ late = 0
  /\ pushes = 0 /\ failures = 0 /\ restarts = 0
-----------------------------------------------------------------------------
(* flush and push *)

\* Mutant: only full batches are flushed.
MayFlushFull(q) == batch = <<>> /\ Len(q) >= FlushBatch /\ ~ backingOff

\* The guard of flush.
MayFlush(q) == batch = <<>> /\ q # <<>> /\ ~ backingOff

\* The oldest records of q become the batch.
StartFlush(q) ==
  /\ batch' = SubSeq(q, 1, IF Len(q) < FlushBatch THEN Len(q) ELSE FlushBatch)
  /\ queue' = SubSeq(q, FlushBatch + 1, Len(q))
  /\ inserted' = 0

\* Mutant: the queue is not trimmed.
ExcessNone(q) == 0

\* How many records a queue has too many.
Excess(q) == IF Len(q) > MaxPending THEN Len(q) - MaxPending ELSE 0

Trimmed(q) == SubSeq(q, Excess(q) + 1, Len(q))

\* A runtime reports t: it is queued, the oldest are dropped when there are
\* too many, and a full batch is flushed.
Push(t) ==
  /\ shutdown # "done"
  /\ pushes < MaxPushes
  /\ pushes' = pushes + 1
  /\ accepted' = accepted \cup {t}
  /\ late' = IF shutdown = "draining" THEN late + 1 ELSE late
  /\ LET q == Append(queue, t)
     IN /\ dropped' = dropped \cup Range(SubSeq(q, 1, Excess(q)))
        /\ IF Len(Trimmed(q)) >= FlushBatch /\ MayFlush(Trimmed(q))
           THEN StartFlush(Trimmed(q))
           ELSE queue' = Trimmed(q) /\ UNCHANGED <<batch, inserted>>
  /\ UNCHANGED <<backingOff, drainVars, owed, rows, failures, restarts>>

\* The flush timer.
TimerFlush ==
  /\ shutdown = "no"
  /\ MayFlush(queue)
  /\ StartFlush(queue)
  /\ UNCHANGED <<backingOff, drainVars, rows, historyVars, pushes, failures, restarts>>

BackoffPasses ==
  /\ backingOff
  /\ backingOff' = FALSE
  /\ UNCHANGED <<queue, batch, inserted, drainVars, rows, historyVars, pushes, failures,
                 restarts>>
-----------------------------------------------------------------------------
(* writeMany, one insert after the other *)

\* The records of the insert that is under way.
Chunk == SubSeq(batch, inserted + 1,
  IF inserted + InsertBatch < Len(batch) THEN inserted + InsertBatch ELSE Len(batch))

\* ON CONFLICT (trade_uid) DO NOTHING.
Inserted(records) ==
  [t \in Trades |-> IF t \in Range(records) /\ rows[t] = 0 THEN 1 ELSE rows[t]]

\* Mutant: flushAll takes one batch.
DrainOnce ==
  /\ shutdown' = "done"
  /\ batch' = <<>> /\ inserted' = 0
  /\ UNCHANGED <<queue, queuedBeforeFlush>>

\* flushAll's loop after a flush that wrote its batch: it goes on while there
\* are records, and fewer than before.
Drain ==
  IF queue = <<>> \/ Len(queue) >= queuedBeforeFlush
  THEN /\ shutdown' = "done"
       /\ batch' = <<>> /\ inserted' = 0
       /\ UNCHANGED <<queue, queuedBeforeFlush>>
  ELSE /\ StartFlush(queue)
       /\ queuedBeforeFlush' = Len(queue)
       /\ UNCHANGED shutdown

\* The batch is written.
FlushSucceeds ==
  IF shutdown = "draining" THEN Drain
  ELSE batch' = <<>> /\ inserted' = 0 /\ UNCHANGED <<queue, drainVars>>

\* Mutant: the batch is not put back.
FlushFailsForgetting ==
  /\ queue' = queue
  /\ batch' = <<>> /\ inserted' = 0
  /\ backingOff' = TRUE
  /\ shutdown' = IF shutdown = "draining" THEN "done" ELSE shutdown
  /\ owed' = {}
  /\ UNCHANGED queuedBeforeFlush

\* The whole batch goes back to the front of the queue, and flushAll gives up:
\* its next flush would be backing off.
FlushFails ==
  /\ queue' = batch \o queue
  /\ batch' = <<>> /\ inserted' = 0
  /\ backingOff' = TRUE
  /\ shutdown' = IF shutdown = "draining" THEN "done" ELSE shutdown
  /\ owed' = {}
  /\ UNCHANGED queuedBeforeFlush

\* An insert is committed and answered.  After shutdown the pool is closed and
\* refuses the next one.
InsertAnswered ==
  /\ batch # <<>>
  /\ rows' = Inserted(Chunk)
  /\ \/ /\ inserted + InsertBatch >= Len(batch)
        /\ FlushSucceeds
        /\ UNCHANGED <<backingOff, owed>>
     \/ /\ inserted + InsertBatch < Len(batch)
        /\ shutdown # "done"
        /\ inserted' = inserted + InsertBatch
        /\ UNCHANGED <<queue, batch, backingOff, drainVars, owed>>
     \/ /\ inserted + InsertBatch < Len(batch)
        /\ shutdown = "done"
        /\ FlushFails
  /\ UNCHANGED <<accepted, dropped, late, pushes, failures, restarts>>

\* An insert fails, before the commit or with its answer lost.
InsertFails ==
  /\ batch # <<>>
  /\ failures < MaxFailures
  /\ failures' = failures + 1
  /\ rows' \in {rows, Inserted(Chunk)}
  /\ FlushFails
  /\ UNCHANGED <<accepted, dropped, late, pushes, restarts>>
-----------------------------------------------------------------------------
(* Shutdown and restart *)

\* SIGTERM: the timer is cleared and flushAll runs up to its first await.  If it
\* cannot flush, or has nothing to, it is over, and with it the runtimes and
\* the pool.
Shutdown ==
  /\ shutdown = "no"
  /\ \/ /\ MayFlush(queue)
        /\ StartFlush(queue)
        /\ shutdown' = "draining" /\ queuedBeforeFlush' = Len(queue)
        /\ owed' = Range(queue)
     \/ /\ ~ MayFlush(queue)
        /\ shutdown' = "done"
        /\ UNCHANGED <<queue, batch, inserted, queuedBeforeFlush, owed>>
  /\ UNCHANGED <<backingOff, rows, accepted, dropped, late, pushes, failures, restarts>>

\* The worker dies, or has been shut down, and another is started: its memory
\* is gone, and an insert on its way may still be committed.
Restart ==
  /\ restarts < MaxRestarts
  /\ restarts' = restarts + 1
  /\ rows' \in {rows, Inserted(Chunk)}
  /\ queue' = <<>> /\ batch' = <<>> /\ inserted' = 0 /\ backingOff' = FALSE
  /\ shutdown' = "no" /\ queuedBeforeFlush' = 0
  /\ accepted' = {} /\ dropped' = {} /\ owed' = {} /\ late' = 0
  /\ UNCHANGED <<pushes, failures>>

Settle == InsertAnswered \/ InsertFails

Next ==
  \/ \E t \in Trades : Push(t)
  \/ TimerFlush \/ BackoffPasses
  \/ Settle
  \/ Shutdown \/ Restart

Spec == Init /\ [][Next]_vars

\* The timer fires, time passes, and an insert is answered or fails.
FairSpec == Spec /\ WF_vars(TimerFlush) /\ WF_vars(BackoffPasses) /\ WF_vars(Settle)
-----------------------------------------------------------------------------
(* Properties *)

Stored == {t \in Trades : rows[t] > 0}

\* No trade disappears between the queue, a batch that fails half-way and the
\* table: what was accepted is stored, waiting, or was dropped on overflow.
Accounted == accepted \subseteq Stored \cup Range(queue) \cup Range(batch) \cup dropped

\* A trade that is reported again, retried after a lost answer, or written by
\* two workers in turn is one row.
StoredOnce == \A t \in Trades : rows[t] <= 1

\* Batches that fail are put back untrimmed, and still the worker never holds
\* more than one batch over MAX_PENDING_RECORDS.
MemoryBounded == Len(queue) + Len(batch) <= MaxPending + FlushBatch

\* A shutdown that can flush at all writes everything it finds waiting, batch
\* after batch: flushAll gives up on a queue that does not get shorter, yet what
\* is reported meanwhile, short of a whole batch, does not make it give up on
\* what was there before.  Left out: inserts that fail, overflow, and a shutdown
\* that cannot flush, because a flush is under way or backing off, which loses
\* the queue.
DrainIsComplete ==
  shutdown = "done" /\ late < FlushBatch => owed \subseteq Stored \cup dropped

\* Once the database works again, what waits is written, unless it is dropped
\* or the worker ends.
WaitingIsWritten == \A t \in Trades : \A n \in 0 .. MaxRestarts :
  (t \in Range(queue) /\ shutdown = "no" /\ restarts = n) ~>
    (rows[t] > 0 \/ t \in dropped \/ shutdown # "no" \/ restarts > n)

-----------------------------------------------------------------------------
(* Why the safety properties hold: an inductive invariant that implies them *)

\* While a batch is being written the queue is within its limit, so that the
\* batch may come back; flushAll has a batch of its own.
BatchInv ==
  /\ Len(batch) <= FlushBatch
  /\ batch # <<>> => Len(queue) <= MaxPending
  /\ Len(queue) <= MaxPending + FlushBatch
  /\ shutdown = "draining" => batch # <<>>

\* What the batch's earlier inserts wrote is in the table.
InsertedInv ==
  \A i \in DOMAIN batch : i <= inserted => rows[batch[i]] > 0

\* flushAll has no more before it than it counted and what came since; a batch
\* that is not full had all that it counted.
DrainInv ==
  /\ shutdown = "no" => owed = {}
  /\ shutdown = "draining" =>
       /\ owed \subseteq Stored \cup Range(queue) \cup Range(batch) \cup dropped
       /\ Len(queue) + Len(batch) <= queuedBeforeFlush + late
       /\ Len(batch) < FlushBatch => owed \subseteq Stored \cup Range(batch) \cup dropped
  /\ DrainIsComplete

IInv ==
  /\ TypeOK
  /\ BatchInv
  /\ InsertedInv
  /\ Accounted
  /\ StoredOnce
  /\ MemoryBounded
=============================================================================
