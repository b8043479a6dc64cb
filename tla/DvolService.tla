----------------------------- MODULE DvolService -----------------------------
(***************************************************************************)
(* Deribit's volatility index (services/dvol.ts): a year of daily candles,  *)
(* fetched at the start and every midnight, and the live value pushed in    *)
(* between, joined in a snapshot with the year's range, the rank of the     *)
(* live value in it and the last close.                                     *)
(*                                                                         *)
(* A year is a sequence of candles [high, low, close] in per cent.          *)
(***************************************************************************)
EXTENDS Integers, Sequences

CONSTANTS
  None,
  Currencies,
  Years,     \* the years of candles looked at
  Levels     \* the values of the index

VARIABLES
  year,      \* [currency -> the candles the exchange has]
  phase,     \* "new", "connecting", "fetching", "subscribing", "started", "failed"
  awaited,   \* currencies whose history start or a refresh waits for
  candleHistory, hvHistory,   \* [currency -> what was fetched, None before]
  dvolSnapshots,              \* [currency -> DvolSnapshot]
  connected, refreshing

dvolVars == <<year, phase, awaited, candleHistory, hvHistory, dvolSnapshots,
              connected, refreshing>>

Highest(candles) == LET S == {candles[i].high : i \in DOMAIN candles}
                    IN CHOOSE x \in S : \A y \in S : y <= x
Lowest(candles) == LET S == {candles[i].low : i \in DOMAIN candles}
                   IN CHOOSE x \in S : \A y \in S : x <= y
Close(candles, back) ==
  candles[IF Len(candles) > back THEN Len(candles) - back ELSE Len(candles)].close

Rank(current, high, low) ==
  IF high > low THEN ((current - low) * 100) \div (high - low) ELSE 0

BuildSnapshot(current, previousClose, high, low) ==
  [current |-> current, high52w |-> high, low52w |-> low,
   ivr |-> Rank(current, high, low), previousClose |-> previousClose,
   ivChange1d |-> current - previousClose]

DvolInit ==
  /\ year \in {[c \in Currencies |-> y] : y \in Years}
  /\ phase = "new" /\ awaited = {}
  /\ candleHistory = [c \in Currencies |-> None]
  /\ hvHistory = [c \in Currencies |-> None]
  /\ dvolSnapshots = [c \in Currencies |-> None]
  /\ connected = FALSE /\ refreshing = FALSE

DvolStart ==
  /\ phase = "new" /\ phase' = "connecting"
  /\ UNCHANGED <<year, awaited, candleHistory, hvHistory, dvolSnapshots, connected,
                 refreshing>>

Connects ==
  /\ ~connected /\ phase # "new"
  /\ connected' = TRUE
  /\ IF phase = "connecting" THEN phase' = "fetching" /\ awaited' = Currencies
     ELSE UNCHANGED <<phase, awaited>>
  /\ UNCHANGED <<year, candleHistory, hvHistory, dvolSnapshots, refreshing>>

\* A start that fails anywhere is given up; its client goes on connecting.
DvolFails ==
  /\ phase \in {"connecting", "fetching", "subscribing"}
  /\ phase' = "failed"
  /\ UNCHANGED <<year, awaited, candleHistory, hvHistory, dvolSnapshots, connected,
                 refreshing>>

ConnectionLost ==
  /\ connected /\ connected' = FALSE
  /\ UNCHANGED <<year, phase, awaited, candleHistory, hvHistory, dvolSnapshots,
                 refreshing>>

\* The last wait of a start lets it subscribe, that of a refresh sets its timer.
Waited(c) ==
  /\ awaited' = awaited \ {c}
  /\ refreshing' = (refreshing /\ awaited # {c})
  /\ phase' = IF phase = "fetching" /\ awaited = {c} THEN "subscribing" ELSE phase

\* A defect: only the candles are renewed, the snapshot waits for a push.
KeepCandles(c, candles) ==
  /\ candleHistory' = [candleHistory EXCEPT ![c] = candles]
  /\ dvolSnapshots' = [dvolSnapshots EXCEPT ![c] =
       IF @ # None THEN @
       ELSE BuildSnapshot(Close(candles, 0), Close(candles, 1), Highest(candles),
                          Lowest(candles))]

\* The last candle's close takes the place of what was pushed.
Keep(c, candles) ==
  /\ candleHistory' = [candleHistory EXCEPT ![c] = candles]
  /\ dvolSnapshots' = [dvolSnapshots EXCEPT ![c] =
       BuildSnapshot(Close(candles, 0), Close(candles, 1), Highest(candles),
                     Lowest(candles))]

FetchHistory(c) ==
  /\ c \in awaited /\ connected
  /\ Waited(c)
  /\ \/ Keep(c, year[c])
     \/ UNCHANGED <<candleHistory, dvolSnapshots>>  \* no candles, or unreadable
  /\ UNCHANGED <<year, hvHistory, connected>>

\* A request that fails while the service refreshes is passed over.
RefreshFails(c) ==
  /\ c \in awaited /\ phase = "started"
  /\ Waited(c)
  /\ UNCHANGED <<year, candleHistory, hvHistory, dvolSnapshots, connected>>

FetchHv(c) ==
  /\ phase = "fetching" /\ connected
  /\ hvHistory[c] = None /\ hvHistory' = [hvHistory EXCEPT ![c] = "points"]
  /\ UNCHANGED <<year, phase, awaited, candleHistory, dvolSnapshots, connected,
                 refreshing>>

Subscribed ==
  /\ phase = "subscribing" /\ connected
  /\ phase' = "started"
  /\ UNCHANGED <<year, awaited, candleHistory, hvHistory, dvolSnapshots, connected,
                 refreshing>>

\* Pushes keep the range and the close the snapshot has.
HandlePush(c, volatility) ==
  /\ phase = "started" /\ connected /\ dvolSnapshots[c] # None
  /\ dvolSnapshots' = [dvolSnapshots EXCEPT ![c] =
       BuildSnapshot(volatility, @.previousClose, @.high52w, @.low52w)]
  /\ UNCHANGED <<year, phase, awaited, candleHistory, hvHistory, connected, refreshing>>

Midnight ==
  /\ phase = "started" /\ ~refreshing
  /\ refreshing' = TRUE /\ awaited' = Currencies
  /\ UNCHANGED <<year, phase, candleHistory, hvHistory, dvolSnapshots, connected>>

DayPasses(c) ==
  /\ \E y \in Years \ {year[c]} : year' = [year EXCEPT ![c] = y]
  /\ UNCHANGED <<phase, awaited, candleHistory, hvHistory, dvolSnapshots, connected,
                 refreshing>>

DvolNext ==
  \/ DvolStart \/ Connects \/ DvolFails \/ ConnectionLost \/ Subscribed \/ Midnight
  \/ \E c \in Currencies :
       \/ FetchHistory(c) \/ RefreshFails(c) \/ FetchHv(c) \/ DayPasses(c)
       \/ \E v \in Levels : HandlePush(c, v)

\* The range, the rank and the change a snapshot states are those of the history
\* that is served beside it (GET /stats and GET /dvol-history), through every push
\* and every refresh, also one that some of its requests fail of.
RangeIsHistory ==
  \A c \in Currencies :
    LET s == dvolSnapshots[c] IN
    LET h == candleHistory[c] IN
    IF h = None THEN s = None
    ELSE /\ s.high52w = Highest(h) /\ s.low52w = Lowest(h)
         /\ s.previousClose = Close(h, 1)
         /\ s.ivr = Rank(s.current, Highest(h), Lowest(h))
         /\ s.ivChange1d = s.current - Close(h, 1)
===============================================================================
