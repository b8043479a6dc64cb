------------------------------ MODULE TradeIngest ------------------------------
(***************************************************************************)
(* The ingest worker (packages/ingest/src/index.ts) and its two halves: the *)
(* runtime of the live trades, which reports them, and the writer, which    *)
(* takes a report of any trade at any time.  They share nothing else, so a  *)
(* behaviour is of one of the two.  BlockTradeRuntime reports likewise.     *)
(***************************************************************************)
EXTENDS TradeWriter

CONSTANTS
  Parts,
  Venues, started, OwnCurrency, UsdcBases, BufferSize, MaxTrades, MaxCuts

VARIABLES
  part,
  venue, sock, routes, registered, timer, keepalive, connected, heard, seeding, buffer,
  received, made, running, cuts

Live == INSTANCE TradeRuntime

ASSUME LiveAssumption == Live!TradeAssumption

writerVars == <<queue, batch, inserted, backingOff, shutdown, queuedBeforeFlush, rows,
                historyVars, pushes, failures, restarts>>
liveVars   == <<venue, sock, routes, registered, timer, keepalive, connected, heard,
                seeding, buffer, received, made, running, cuts>>
ingestVars == <<part, writerVars, liveVars>>

IngestInit ==
  /\ part \in Parts
  /\ Init /\ Live!Init
  /\ part # "live" => venue = CHOOSE v \in Venues : TRUE

OfWriter(A) == part = "writer" /\ A /\ UNCHANGED <<part, liveVars>>
OfLive(A)   == part = "live" /\ A /\ UNCHANGED <<part, writerVars>>

IngestNext == OfWriter(Next) \/ OfLive(Live!Next)

\* Timers fire, time passes, an insert is answered or fails, and a socket that is
\* given up closes.
IngestSpec ==
  /\ IngestInit /\ [][IngestNext]_ingestVars
  /\ WF_ingestVars(OfWriter(TimerFlush))
  /\ WF_ingestVars(OfWriter(BackoffPasses))
  /\ WF_ingestVars(OfWriter(Settle))
  /\ WF_ingestVars(OfLive(Live!Watchdog))
  /\ \A u \in Live!AllUnderlyings : WF_ingestVars(OfLive(u \in Live!Underlyings /\ Live!Ages(u)))
  /\ \A k \in Live!AllConnections : WF_ingestVars(OfLive(k \in Live!Connections /\ Live!Buried(k)))

\* What TradeRuntime says.
BufferIsNewest == Live!BufferIsNewest
SilenceEnds    == Live!SilenceEnds
================================================================================
