----------------------------- MODULE TradeRuntime -----------------------------
(***************************************************************************)
(* The live option trades of a venue: its WebSocket connections, the       *)
(* watchdog over them, the REST seed and the buffer per underlying.        *)
(* Deribit's USDC underlyings share a connection; elsewhere each has its   *)
(* own.  A behaviour is one venue's.                                       *)
(*                                                                         *)
(* A trade is [of, at]: its underlying, and its number at the exchange,    *)
(* which is also its timestamp.                                            *)
(***************************************************************************)
EXTENDS Sorting, SequencesExt

CONSTANTS
  Venues,
  started,         \* per venue: the underlyings start() is given, in its order
  OwnCurrency,         \* DERIBIT_INVERSE_OPTION_CURRENCIES
  UsdcBases,       \* DERIBIT_USDC_OPTION_BASES
  BufferSize,      \* TRADE_RUNTIME_BUFFER_SIZE
  MaxTrades,       \* bound on the trades of an underlying
  MaxCuts          \* bound on connections that close, fail or fall silent

TradeAssumption ==
  /\ Venues \subseteq {"deribit", "okx", "bybit", "binance", "derive"}
  /\ DOMAIN started = Venues
  /\ \A v \in Venues : started[v] # <<>> /\ DOMAIN started[v] = 1 .. Len(started[v])
  /\ "deribit" \in Venues =>
       \A i \in DOMAIN started["deribit"] : started["deribit"][i] \in OwnCurrency \cup UsdcBases
  /\ BufferSize \in Nat \ {0} /\ MaxTrades \in Nat /\ MaxCuts \in Nat

VARIABLES
  venue,
  sock,        \* per connection: "none", "connecting", "open", "silent" (open
               \* here and dead at the other end), "closing" or "terminated"
  routes,      \* per connection: the underlyings its handlers were made for
  registered,  \* subscribedUnderlyingsByConnection
  timer,       \* reconnectTimers
  keepalive,   \* keepaliveTimers
  connected,   \* streamState.connected, per underlying
  heard,       \* lastMessageAt: "never", "recent", or "old": over the threshold
  seeding,     \* the underlyings whose seed is on its way
  buffer,      \* per underlying: the trades kept
  received,    \* per underlying: every trade that reached the runtime
  made,        \* per underlying: the trades the exchange has seen
  running,     \* shouldReconnect
  cuts

lineVars   == <<sock, routes, timer, keepalive>>
healthVars == <<connected, heard>>
tradeVars  == <<seeding, buffer, received, made>>
vars == <<venue, lineVars, registered, healthVars, tradeVars, running, cuts>>

Underlyings == ToSet(started[venue])

\* getDeribitTradeCurrency, and the channel trades.option.<currency>.
Currency(u) == IF u \in OwnCurrency THEN u ELSE "USDC"

\* What a connection is for, and the one channel it subscribes to.
ConnectionKey(u) == IF venue = "deribit" THEN Currency(u) ELSE u

Connections == {ConnectionKey(u) : u \in Underlyings}

Registered(k) == {u \in Underlyings : ConnectionKey(u) = k}

\* The underlying that start() comes to first.
First(k) ==
  LET list == started[venue]
  IN  CHOOSE u \in Registered(k) :
        \E i \in DOMAIN list : list[i] = u /\ \A j \in 1 .. i - 1 : ConnectionKey(list[j]) # k

\* start(): an underlying's connection is dialled before the next underlying is
\* registered, and the handlers keep the set they were made with.
Init ==
  /\ venue \in Venues
  /\ sock = [k \in Connections |-> "connecting"]
  /\ routes = [k \in Connections |-> {First(k)}]
  /\ registered = [k \in Connections |-> Registered(k)]
  /\ timer = [k \in Connections |-> FALSE]
  /\ keepalive = [k \in Connections |-> FALSE]
  /\ connected = [u \in Underlyings |-> FALSE]
  /\ heard = [u \in Underlyings |-> "never"]
  /\ seeding = IF venue = "binance" THEN {} ELSE Underlyings
  /\ buffer = [u \in Underlyings |-> <<>>]
  /\ received = [u \in Underlyings |-> <<>>]
  /\ made = [u \in Underlyings |-> 0]
  /\ running = TRUE
  /\ cuts = 0

(***************************************************************************)
(* What the venues' frames say.                                            *)
(***************************************************************************)

\* Every trade says in its symbol what it is of.
BybitTrades(trade, u) == <<trade>>
BinanceTrades(trade, u) == <<trade>>

\* isDeribitTradeForUnderlying: the frame is the currency's.
DeribitTrades(trade, u) == IF trade.of = u THEN <<trade>> ELSE <<>>

\* The frame is the family's or the channel's: its trades are taken to be u's.
OkxTrades(trade, u) == <<[of |-> u, at |-> trade.at]>>
DeriveTrades(trade, u) == <<[of |-> u, at |-> trade.at]>>

\* A frame has one trade here; the trades of a longer one are pushed one after the
\* other.
Parse(trade, u) ==
  CASE venue = "deribit" -> DeribitTrades(trade, u)
    [] venue = "okx"     -> OkxTrades(trade, u)
    [] venue = "bybit"   -> BybitTrades(trade, u)
    [] venue = "binance" -> BinanceTrades(trade, u)
    [] venue = "derive"  -> DeriveTrades(trade, u)

\* The answers a seed can bring: last trades of the underlying as of when they
\* were taken; none after an error or ten seconds.
SeedAnswers(u) ==
  UNION {{[n \in 1 .. last + 1 - first |-> [of |-> u, at |-> first + n - 1]] :
            first \in 1 .. last + 1} : last \in 0 .. made[u]}

\* A keepalive whose answer is a message the runtime takes in.  OKX's "pong" is
\* not JSON, and a WebSocket pong, Binance's and Derive's, is no message.
KeepaliveHeard == venue \in {"deribit", "bybit"}

(***************************************************************************)
(* The connections.                                                        *)
(***************************************************************************)
Cut == cuts < MaxCuts /\ cuts' = cuts + 1

\* updateStreamStates: for the underlyings of the handlers.
ForRouted(states, k, value) ==
  [u \in Underlyings |-> IF u \in routes[k] THEN value ELSE states[u]]

Opened(k) ==
  /\ sock[k] = "connecting"
  /\ sock' = [sock EXCEPT ![k] = "open"]
  /\ connected' = ForRouted(connected, k, TRUE)
  /\ keepalive' = [keepalive EXCEPT ![k] = TRUE]
  /\ UNCHANGED <<venue, routes, registered, timer, heard, tradeVars, running, cuts>>

Times(trades) == [i \in DOMAIN trades |-> trades[i].at]

Sorted(trades) == SortByKey(trades, Times(trades))

\* pushTradeEvents: sorted, and the oldest go.
Newest(trades) ==
  LET over == IF Len(trades) > BufferSize THEN Len(trades) - BufferSize ELSE 0
  IN  SubSeq(Sorted(trades), over + 1, Len(trades))

Push(u, trades) ==
  /\ buffer' = [buffer EXCEPT ![u] = Newest(@ \o trades)]
  /\ received' = [received EXCEPT ![u] = @ \o trades]

\* A frame, parsed for every underlying of the handlers.
Received(k, trade) ==
  LET pushed == [u \in Underlyings |-> IF u \in routes[k] THEN Parse(trade, u) ELSE <<>>]
  IN  /\ buffer' = [u \in Underlyings |-> Newest(buffer[u] \o pushed[u])]
      /\ received' = [u \in Underlyings |-> received[u] \o pushed[u]]

\* A frame can come until the other end has answered close().
Delivers(k) == sock[k] \in {"open", "closing"}

\* An option of underlying u trades; who hears of it depends on the handlers.
Trade(u) ==
  LET k == ConnectionKey(u)
  IN  /\ made[u] < MaxTrades
      /\ made' = [made EXCEPT ![u] = @ + 1]
      /\ heard' = IF Delivers(k) THEN ForRouted(heard, k, "recent") ELSE heard
      /\ IF Delivers(k)
         THEN Received(k, [of |-> u, at |-> made[u] + 1])
         ELSE UNCHANGED <<buffer, received>>
      /\ UNCHANGED <<venue, lineVars, registered, connected, seeding, running, cuts>>

\* A frame without trades: an acknowledgement, or the answer to a keepalive.
Heard(k) ==
  /\ Delivers(k)
  /\ heard' = ForRouted(heard, k, "recent")
  /\ UNCHANGED <<venue, lineVars, registered, connected, tradeVars, running, cuts>>

\* A seed has come back.  None of it is compared with what has come live.
Seeded(u) ==
  /\ u \in seeding
  /\ seeding' = seeding \ {u}
  /\ \E trades \in SeedAnswers(u) : Push(u, trades)
  /\ UNCHANGED <<venue, lineVars, registered, healthVars, made, running, cuts>>

FallsSilent(k) ==
  /\ sock[k] = "open"
  /\ Cut
  /\ sock' = [sock EXCEPT ![k] = "silent"]
  /\ UNCHANGED <<venue, routes, timer, keepalive, registered, healthVars, tradeVars, running>>

\* Five minutes without a message.
Ages(u) ==
  /\ heard[u] = "recent"
  /\ ~ (KeepaliveHeard /\ sock[ConnectionKey(u)] = "open" /\ u \in routes[ConnectionKey(u)])
  /\ heard' = [heard EXCEPT ![u] = "old"]
  /\ UNCHANGED <<venue, lineVars, registered, connected, tradeVars, running, cuts>>

\* Mutant: only an underlying that was never heard of is stale.
StaleNever(k) ==
  /\ sock[k] # "none"
  /\ \E u \in registered[k] : connected[u] /\ heard[u] = "never"

\* checkStreamLiveness: an underlying that was never heard of is passed over, and
\* one that has not been heard of since before a reconnect is not.
Stale(k) ==
  /\ sock[k] # "none"
  /\ \E u \in registered[k] : connected[u] /\ heard[u] = "old"

Watchdog ==
  /\ running
  /\ \E k \in Connections : Stale(k)
  /\ sock' = [k \in Connections |-> IF Stale(k) THEN "terminated" ELSE sock[k]]
  /\ UNCHANGED <<venue, routes, timer, keepalive, registered, healthVars, tradeVars, running, cuts>>

\* 'close': of a socket given up here, or cut off.
Closed(k) ==
  /\ \/ sock[k] \in {"closing", "terminated"} /\ UNCHANGED cuts
     \/ sock[k] \in {"connecting", "open", "silent"} /\ Cut
  /\ sock' = [sock EXCEPT ![k] = "none"]
  /\ connected' = ForRouted(connected, k, FALSE)
  /\ keepalive' = [keepalive EXCEPT ![k] = FALSE]
  /\ timer' = [timer EXCEPT ![k] = running]
  /\ UNCHANGED <<venue, routes, registered, heard, tradeVars, running>>

\* connectStream: the handlers are made for all that is registered by now.
Reconnect(k) ==
  /\ timer[k]
  /\ timer' = [timer EXCEPT ![k] = FALSE]
  /\ sock' = [sock EXCEPT ![k] = "connecting"]
  /\ routes' = [routes EXCEPT ![k] = registered[k]]
  /\ UNCHANGED <<venue, keepalive, registered, healthVars, tradeVars, running, cuts>>

\* A socket that is still connecting is aborted: it never opens.
Dispose ==
  /\ running
  /\ running' = FALSE
  /\ timer' = [k \in Connections |-> FALSE]
  /\ keepalive' = [k \in Connections |-> FALSE]
  /\ sock' = [k \in Connections |-> IF sock[k] \in {"none", "terminated"} THEN sock[k] ELSE "closing"]
  /\ registered' = [k \in Connections |-> {}]
  /\ UNCHANGED <<venue, routes, healthVars, tradeVars, cuts>>

Next ==
  \/ \E k \in Connections :
       Opened(k) \/ Heard(k) \/ FallsSilent(k) \/ Closed(k) \/ Reconnect(k)
  \/ \E u \in Underlyings : Trade(u) \/ Seeded(u) \/ Ages(u)
  \/ Watchdog
  \/ Dispose

\* A socket given up here closes at once: nothing waits for the other end.
Buried(k) == sock[k] = "terminated" /\ Closed(k)

AllUnderlyings == UNION {ToSet(started[v]) : v \in Venues}
AllConnections == AllUnderlyings \cup {"USDC"}

\* Time passes, the watchdog's interval fires, and a socket given up closes.
Fairness ==
  /\ WF_vars(Watchdog)
  /\ \A u \in AllUnderlyings : WF_vars(u \in Underlyings /\ Ages(u))
  /\ \A k \in AllConnections : WF_vars(k \in Connections /\ Buried(k))

Spec == Init /\ [][Next]_vars /\ Fairness

-------------------------------------------------------------------------------

TypeOK ==
  /\ venue \in Venues
  /\ sock \in [Connections -> {"none", "connecting", "open", "silent", "closing", "terminated"}]
  /\ routes \in [Connections -> SUBSET Underlyings]
  /\ registered \in [Connections -> SUBSET Underlyings]
  /\ timer \in [Connections -> BOOLEAN]
  /\ keepalive \in [Connections -> BOOLEAN]
  /\ connected \in [Underlyings -> BOOLEAN]
  /\ heard \in [Underlyings -> {"never", "recent", "old"}]
  /\ seeding \subseteq Underlyings
  /\ made \in [Underlyings -> 0 .. MaxTrades]
  /\ running \in BOOLEAN
  /\ cuts \in 0 .. MaxCuts

\* What is kept of an underlying are its own trades and no other's, the newest of
\* all that reached the runtime, in order, however seeds and live trades have
\* overtaken each other and whichever underlyings share a connection.
BufferIsNewest ==
  \A u \in Underlyings :
    LET all == Sorted(received[u])
        n == Len(buffer[u])
    IN  /\ n = IF Len(all) < BufferSize THEN Len(all) ELSE BufferSize
        /\ \A i \in 1 .. n : buffer[u][i].of = u /\ buffer[u][i].at = all[Len(all) - n + i].at

\* A connection that is dead at the other end, and was heard once, is given up by
\* the watchdog, though neither end closes it.
SilenceEnds ==
  \A k \in AllConnections :
    (k \in Connections /\ sock[k] = "silent" /\ \E u \in routes[k] : heard[u] # "never")
      ~> ~ (k \in Connections /\ sock[k] = "silent")

===============================================================================
