--------------------------- MODULE BlockTradeRuntime ---------------------------
(***************************************************************************)
(* Block trades: the streams of Deribit and Bybit over a WebSocket each,   *)
(* and the polls of OKX, Binance (their last trades) and Derive (a range   *)
(* of time that a cursor starts).  All report into one buffer, and a       *)
(* trade that is seen again is left out until its age has made the runtime *)
(* forget it.                                                              *)
(*                                                                         *)
(* A trade is [venue, at]; a venue has at most one at a time.              *)
(***************************************************************************)
EXTENDS Sorting, SequencesExt, FiniteSetsExt

CONSTANTS
  Streams,       \* the venues with a WebSocket
  Windows,       \* the venues polled for their last trades
  Cursors,       \* the venues polled for a range of time
  BufferSize,    \* BLOCK_TRADE_RUNTIME_BUFFER_SIZE
  Retention,     \* BLOCK_TRADE_SEEN_RETENTION_MS
  Overlap,       \* DERIVE_POLL_OVERLAP_MS
  Limit,         \* a poller's limit
  Lateness,      \* how late a trade may enter a venue's history: the overlap allows for it
  MaxTime, MaxTrades, MaxCuts, MaxPolls, MaxBadPages   \* bounds

Venues == Streams \cup Windows \cup Cursors

ASSUME BlockAssumption ==
  /\ BufferSize \in Nat \ {0} /\ Limit \in Nat \ {0}
  /\ Retention \in Nat /\ Overlap \in Nat /\ Lateness \in 0 .. Overlap
  /\ MaxTime \in Nat /\ MaxTrades \in Nat /\ MaxCuts \in Nat
  /\ MaxPolls \in Nat /\ MaxBadPages \in Nat

VARIABLES
  now,
  happened,   \* the option block trades of all venues
  sock,       \* per stream: "none", "connecting", "open" or "closing"
  timer,      \* per stream: reconnectTimer is running
  seeding,    \* per stream: its seed has not come back
  polls,      \* per polled venue: the requests under way, [from, to]
  nextFrom,   \* per cursor: nextFromTimestamp, 0 before the first answer
  buffer,     \* newest first
  seen,       \* the keys of seenTradeTimestamps
  told,       \* per trade that listeners were told of: how often, 2 for more than once
  connected,  \* venueState.connected
  running,    \* until dispose
  cuts, badPages

streamVars == <<sock, timer, seeding, cuts>>
pollVars   == <<polls, nextFrom, badPages>>
tradeVars  == <<buffer, seen, told>>
vars == <<now, happened, streamVars, pollVars, tradeVars, connected, running>>

Of(v) == {t \in happened : t.venue = v}

Init ==
  /\ now = 1
  /\ happened = {}
  /\ sock = [v \in Streams |-> "connecting"]
  /\ timer = [v \in Streams |-> FALSE]
  /\ seeding = [v \in Streams |-> TRUE]
  /\ polls = [v \in Windows \cup Cursors |-> {[from |-> 0, to |-> now]}]
  /\ nextFrom = [v \in Cursors |-> 0]
  /\ buffer = <<>>
  /\ seen = {}
  /\ told = << >>
  /\ connected = [v \in Venues |-> v \notin Streams]
  /\ running = TRUE
  /\ cuts = 0
  /\ badPages = 0

\* The newest first.
Sorted(trades) == SortByKey(trades, [i \in DOMAIN trades |-> 0 - trades[i].at])

Kept(trades) == SubSeq(Sorted(trades), 1, IF Len(trades) < BufferSize THEN Len(trades) ELSE BufferSize)

\* Mutant: the age counts from a trade that is already old.
RememberedLess(keys, trades) ==
  IF trades = <<>> THEN keys ELSE {t \in keys : t.at >= trades[1].at}

Remembered(keys, trades) ==
  IF trades = <<>> THEN keys ELSE {t \in keys : t.at + Retention >= trades[1].at}

\* insertBlockTrades: what is not seen goes into the buffer and to the listeners,
\* the buffer keeps the newest, and keys older than the retention are forgotten.
Insert(trades) ==
  LET new == trades \ seen
  IN  /\ buffer' = Kept(buffer \o SetToSeq(new))
      /\ seen' = Remembered(seen \cup trades, buffer')
      /\ told' = [t \in DOMAIN told \cup new |->
                    IF t \notin DOMAIN told THEN 1 ELSE IF t \in new THEN 2 ELSE told[t]]

\* A block trade is agreed on; a stream that is open brings it at once, if it
\* can be read as option legs.
Push(v) ==
  /\ connected' = [connected EXCEPT ![v] = TRUE]
  /\ Insert({[venue |-> v, at |-> now]})

Trade(v) ==
  /\ Cardinality(happened) < MaxTrades
  /\ [venue |-> v, at |-> now] \notin happened
  /\ happened' = happened \cup {[venue |-> v, at |-> now]}
  /\ IF v \in Streams /\ sock[v] \in {"open", "closing"}
     THEN Push(v)
     ELSE UNCHANGED <<connected, tradeVars>>
  /\ UNCHANGED <<now, streamVars, pollVars, running>>

Tick ==
  /\ now < MaxTime
  /\ now' = now + 1
  /\ UNCHANGED <<happened, streamVars, pollVars, tradeVars, connected, running>>

(***************************************************************************)
(* The streams.                                                            *)
(***************************************************************************)
Opened(v) ==
  /\ sock[v] = "connecting"
  /\ sock' = [sock EXCEPT ![v] = "open"]
  /\ connected' = [connected EXCEPT ![v] = TRUE]
  /\ UNCHANGED <<now, happened, timer, seeding, cuts, pollVars, tradeVars, running>>

Closed(v) ==
  /\ \/ sock[v] \in {"connecting", "open"} /\ cuts < MaxCuts /\ cuts' = cuts + 1
     \/ sock[v] = "closing" /\ UNCHANGED cuts
  /\ sock' = [sock EXCEPT ![v] = "none"]
  /\ timer' = [timer EXCEPT ![v] = running]
  /\ connected' = [connected EXCEPT ![v] = FALSE]
  /\ UNCHANGED <<now, happened, seeding, pollVars, tradeVars, running>>

Reconnect(v) ==
  /\ timer[v]
  /\ timer' = [timer EXCEPT ![v] = FALSE]
  /\ sock' = [sock EXCEPT ![v] = "connecting"]
  /\ UNCHANGED <<now, happened, seeding, cuts, pollVars, tradeVars, connected, running>>

\* The seed of a stream, Deribit's: the last trades, or none after five failures.
\* Trades of a time when the connection was down come no other way.
Seeded(v) ==
  /\ seeding[v]
  /\ seeding' = [seeding EXCEPT ![v] = FALSE]
  /\ \/ UNCHANGED <<connected, tradeVars>>
     \/ /\ Of(v) # {}
        /\ connected' = [connected EXCEPT ![v] = TRUE]
        /\ Insert(Of(v))
  /\ UNCHANGED <<now, happened, sock, timer, cuts, pollVars, running>>

(***************************************************************************)
(* The pollers.                                                            *)
(***************************************************************************)

\* poll(), of the interval; it does not wait for the one before.
Poll(v) ==
  /\ running
  /\ Cardinality(polls[v]) < MaxPolls
  /\ LET from == IF v \in Cursors THEN nextFrom[v] ELSE 0
     IN  /\ [from |-> from, to |-> now] \notin polls[v]
         /\ polls' = [polls EXCEPT ![v] = @ \cup {[from |-> from, to |-> now]}]
  /\ UNCHANGED <<now, happened, streamVars, nextFrom, badPages, tradeVars, connected, running>>

\* What a venue's history has of a trade depends on how late it is.
Histories(v, range) ==
  LET mine == {t \in Of(v) : range.from <= t.at /\ t.at <= range.to}
      sure == {t \in mine : t.at + Lateness < now}
  IN  {sure \cup some : some \in SUBSET (mine \ sure)}

LastTrades(v) == {t \in Of(v) : Cardinality({s \in Of(v) : s.at > t.at}) < Limit}

Reported(v, trades) ==
  /\ connected' = [connected EXCEPT ![v] = TRUE]
  /\ Insert(trades)

Done(v, range) == polls' = [polls EXCEPT ![v] = @ \ {range}]

Answered(v) ==
  \E range \in polls[v] :
    /\ v \in Windows
    /\ Done(v, range)
    /\ Reported(v, LastTrades(v))
    /\ UNCHANGED <<now, happened, streamVars, nextFrom, badPages, running>>

Before(t, d) == IF t > d THEN t - d ELSE 0

\* Mutant: the next range starts at the newest trade.
NextFromNewest(range, trades) ==
  IF trades = {} THEN range.to ELSE Max({t.at : t \in trades})

\* The next range starts an overlap before the newest trade; before now if there
\* was none.
NextFrom(range, trades) ==
  IF trades = {}
  THEN Max({Before(range.to, Overlap), range.from})
  ELSE Before(Max({t.at : t \in trades}), Overlap)

\* The pages of a range are all read; or one of them is no answer, or there are
\* too many, and those before it are taken for all there are.
RangeAnswered(v) ==
  \E range \in polls[v] : \E history \in Histories(v, range) : \E trades \in SUBSET history :
    /\ v \in Cursors
    /\ IF trades = history THEN UNCHANGED badPages
       ELSE badPages < MaxBadPages /\ badPages' = badPages + 1
    /\ Done(v, range)
    /\ nextFrom' = [nextFrom EXCEPT ![v] = NextFrom(range, trades)]
    /\ Reported(v, trades)
    /\ UNCHANGED <<now, happened, streamVars, running>>

\* A request that fails counts as a poll that found nothing; the cursor stays.
PollFailed(v) ==
  \E range \in polls[v] :
    /\ Done(v, range)
    /\ Reported(v, {})
    /\ UNCHANGED <<now, happened, streamVars, nextFrom, badPages, running>>

Dispose ==
  /\ running
  /\ running' = FALSE
  /\ timer' = [v \in Streams |-> FALSE]
  /\ sock' = [v \in Streams |-> IF sock[v] = "none" THEN "none" ELSE "closing"]
  /\ UNCHANGED <<now, happened, seeding, cuts, pollVars, tradeVars, connected>>

Next ==
  \/ Tick
  \/ Dispose
  \/ \E v \in Venues : Trade(v)
  \/ \E v \in Streams : Opened(v) \/ Closed(v) \/ Reconnect(v) \/ Seeded(v)
  \/ \E v \in Windows \cup Cursors : Poll(v) \/ PollFailed(v)
  \/ \E v \in Windows : Answered(v)
  \/ \E v \in Cursors : RangeAnswered(v)

Spec == Init /\ [][Next]_vars

-------------------------------------------------------------------------------

\* The trade at the head of the buffer counts as now for what is old.
Old(t) == buffer # <<>> /\ t.at + Retention < buffer[1].at

\* Listeners are told of a trade once: polls that overlap, seeds that repeat what
\* came live and late answers do not tell them again, until it is old.
ToldOnce == \A t \in DOMAIN told : told[t] > 1 => Old(t)

\* Nothing that a cursor has gone past is left untold, however late the answers
\* of its polls are and however they overtake each other, as long as every range
\* was read to its end.
CursorKeepsUp ==
  badPages = 0 =>
    \A v \in Cursors : \A t \in Of(v) : t.at < nextFrom[v] => t \in DOMAIN told

================================================================================
