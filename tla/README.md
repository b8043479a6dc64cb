# oggregator in TLA+

oggregator collects option chains from five exchanges (Deribit, OKX, Binance, Bybit, Derive), merges them
per expiry, and streams the merged chain to browsers; a worker stores the trades it sees. These modules
model the parts of it that decide whether the numbers on the screen are the exchange's numbers: who is
subscribed to what, what survives a reconnect, how updates are merged and published, who shares a runtime,
what a browser puts together from the stream, which trades are reported and stored, and what is computed
from all of it. Paths below are relative to `packages/`.

## The system

    exchange WS/REST -> venue client -> VenueSubscriptionCoordinator -> ChainRuntime
        -> ChainRuntimeRegistry -> ChainStreamSession, /ws/chain -> useChainWs -> query cache
    exchange WS/REST -> TradeRuntime, BlockTradeRuntime -> BufferedTradeWriter -> flow_trades
        -> /flow/history, /block-flow/history -> FlowView, BlockFlowView

| Part | State | Operations | What is hard | What makes it correct |
| --- | --- | --- | --- | --- |
| `VenueSubscriptionCoordinator` (core/src/core) | venue entries, request entries with a count and listeners, one promise chain per venue | acquire, release, dispose | calls overlap at the adapter's awaits; a rejection travels down the chain; dispose removes what others hold | counts are exact; a holder is streamed; calls settle |
| SDK adapter (core/src/feeds/shared/sdk-base.ts) | reference counts per request and per handlers object, quote store, instruments | subscribe and the function it returns, fetchOptionChain, eager subscription, sweep | counted before an await that may reject | its counts agree with the coordinator's; a viewer's copy is the store's |
| Transports (`topic-ws-client.ts`, `jsonrpc-client.ts`), planners, venue clients (core/src/feeds) | socket, topics, pending calls, timers; channels asked for and confirmed | connect, reconnect, subscribe, unsubscribe, refresh, sweep | reconnects race with closes and late answers | what is held is replayed, what is replayed is streamed |
| Codecs and quote state (`codec.ts`, `state.ts`) | the quote of an instrument | one per message | fields that are missing, null or blank | a viewer's copy is what a chain fetched now would say |
| Venue health (`health.ts`) | last transport and health status, last activity | ingest, touch | a status derived from two sources and a clock, told to handlers that chains share | an outage is shown, and its end |
| `ChainRuntime`, `ChainProjection` (core/src/runtime/chain) | handles, pending deltas, snapshot, sequence number, timer, builds in flight | initialize, onDelta, push timer, buildSnapshot, subscribe, dispose | overflow, rebuilds that overlap, dispose while acquiring; a patch recomputes what it touches | no quote is lost or goes back; listeners' copies agree; a patched chain is the chain enriched whole |
| `ChainRuntimeRegistry` | entry per request: runtime, count, last use | acquire, release, cleanup timer, dispose | a list made before an await | one shared live runtime per request |
| `/ws/chain`, `ChainStreamSession` (server/src) | session and version per socket | subscribe, close, slow client, publish | superseded at two awaits | nothing held once the sockets are closed |
| `useChainWs`, `useChainQuery` (web/src) | socket, timer, active subscription, query cache | navigate, switch venues, reconnect, message, REST answer | frames of the past, answers that are late | the cache holds a chain that was published |
| Trade and block trade runtimes (core/src/runtime) | connections, buffers, seen ids, cursors, timers | start, message, watchdog, poll, dispose | reconnects, duplicates, polls that overlap | a trade is told once, and none is passed over |
| Spot runtime, DVOL service | prices; a year's range and the live value | polls, pushes, daily refresh | answers that overlap and fail | prices settle; the range is the history's |
| Server bootstrap (server/src) | flags, listening, draining | load, start, close | parts that fail | it comes to serve with the others |
| Ingest worker, Postgres store (ingest, core) | bounded queue, backoff; table | push, flush, shutdown; write, read | failure and shutdown during a flush; pages read while rows are written | what was accepted is stored once or dropped on overflow; no row is skipped |
| History views, date range picker (web/src/features/flow) | stack of cursors, kept pages, range | next, previous, filters | answers in any order | pages follow on; what was picked is shown |
| Enrichment, strategy builder (core, web/src/features/architect) | legs, effects of a render | templates, answers, effects | effects that rewrite what they depend on | a strategy stays what its card says |
| Wire schemas, other views and stores | - | - | - | not modelled |

The parts call one another directly or through promises; there is one thread in each process. Everything
between two awaits is atomic, and that is what an action is in every module here.

## Modules

### From the exchange to the coordinator

**`VenueFeed`** is what the five venue clients share: the requests and instruments of `SdkBaseAdapter`, and
the sockets and reconnect timers of the two transports. It has no next-state relation; a client's actions
are put together from its pieces. A request whose subscription was rejected keeps its count and is never
subscribed again (`stuck`).

**`RpcFeed`** adds `JsonRpcWsClient`. A job is an async function that awaits one RPC after the other: the
coordinator's call (`user`), what a listing or a refresh sets off (`market`), and the replay after a socket
has opened. A step of a job is one RPC; answers come in any order, may refuse, or never come (the request is
then done without its answer). What follows a settled await runs before the next event: events need every
job to be `Quiet`.

**`BinanceFeed`**, **`OkxFeed`**, **`BybitFeed`** (over `TopicWsClient`), **`DeribitFeed`** and
**`DeriveFeed`** (over `JsonRpcWsClient`) are the planners and clients, and **`VenueFeeds`** runs them, one
venue per behaviour, and states what all of them owe: `HeldIsReplayed` and `ReplayedIsStreamed`. The
coordinator calls a venue one call at a time, which is why at most one request is being subscribed or
released.

**`Quotes`** and **`MarketData`** are the data side of an adapter: how each venue's listing becomes a
`CachedInstrument`, how its messages make a `LiveQuote` out of the message and the quote before it, and the
catalogue and store over a life of snapshots, messages, polls, removals and listings, with a viewer who
fetched a chain and has been told quotes since. Any message may come for any instrument, listed or not: what
is subscribed is the feed modules' part. Instruments go with their quotes: those of past days at the daily
sweep, Deribit's on any day it tells that they are delivered or archived, Bybit's whenever its list does not
have them, which on a bad answer is all of a coin. All may be listed again. `unsaid` has the symbols whose
quote the code changed without telling anybody, by a removal or by what Derive fetches.

**`VenueHealth`** is `feeds/*/health.ts` with the `VenueHealthManager` of every chain runtime that listens.
Times are ages; `masked` remembers the runtimes that were told "connected" by somebody's subscription during
an outage (see below).

**`SdkAdapter`** holds the adapter's counts (`requestRefCounts`, `handlerRefCounts`) and `wire`, the
requests the exchange streams, which stands for the feeds above. It has no next-state relation: it gives the
pieces of `subscribe` and of its returned function (`CountSubscribe`, `CountRelease`, `FirstReference`,
`LastReferences`) that the coordinator's actions call. A map entry that the code deletes at zero is a count
of 0. `loadMarkets` subscribes to the nearest expiries without counting them, so `wire` starts as any set.

**`SubscriptionCoordinator`** extends it with the coordinator. `operations[v]` is the promise chain of venue
`v`, head first; `running[v]` is what the head waits for (`subscribing`: in subscribeChain; `subscribed`: in
a subscribe that had nothing to do); `rejecting[v]` is a rejection on its way down the chain, which skips
one queued operation per step (`SkipRejected`), as `previous.then(op)` does. A client is one caller with its
listener; `phase` says where its call or handle is. `Acquire`, `Release`, `DisposeCall` are the calls;
`JoinEntry`, `SubscribeUpstream`, `ReleaseShared`, `ReleaseLast`, `DisposeVenue`... are the operations up to
their await; `Subscribed`, `SubscribeRejected`, `Unsubscribed` are what follows it. Two assumptions: the
coordinator alone calls the adapters (true of the repository), and nobody acquires once `dispose` has been
called (no code of the repository calls `dispose`; it is meant for shutdown).

**`SharedFeed`** is what the coordinator promises, without queues or counts: holders and the topics that are
fed; a topic is only stopped while nobody holds it, and a handle is only granted on a fed topic. `Feed` in
`SubscriptionCoordinator` is the refinement mapping.

### From the coordinator to the browser

**`ChainRuntime`** is one runtime with its projection. A quote is the number of the update that brought it,
so that lost and stale quotes can be told apart; a chain maps contracts (venue, strike) to quotes.
`Acquired`, `LateReleased`, `FirstBuild`... are `initialize`, one venue after the other; `Deltas` is a
venue's batch arriving in `onDelta`, with `Overflow`; `PushDelta`, `PushUnknown`, `Resync` are the 200 ms
timer; `BuildNow`, or `BuildLater` and `BuildDone`, are `buildSnapshot`. The SDK adapters resolve
`fetchOptionChain` at once, so with them a build is one step; the interface allows an adapter that waits, as
the repository's own tests do, and then several builds may be in flight (`slow`). `mirror` is what a
session's client has put together from the events: the session drops what is not newer, the client replaces
rows.

**`ChainRuntimeRegistry`** is the registry with its users. `BeginAcquire` is `acquire` up to its await,
`GiveBack` what a release does, looking its entry up by key as the code does; `StartCleanup`, `NextCleanup`
and `EndCleanup` are the timer, which works on a list across awaits, several of which may be in progress;
`GrowStale` is time passing; `Shutdown` is `dispose`, after which no new request is taken (the server is
closing). A runtime is only whether `ready()` has resolved and whether it is disposed. A count of an entry
is not exact in general, and an entry in use may be taken away: of what its callers would like to rely on
only `EntriesAreLive` holds whatever happens (see the finding).

**`ChainStream`** extends the registry with everything above it: the hook (`Navigate`, `SwitchVenues`,
`Disable`, `Reconnect`, `Deliver`), the sockets with messages on their way (`up`, `down`) that the network
may drop (`Break`), the route (`Receive`, `Continue`, `ServerClosed`), the sessions (`Subscribed`,
`SubscribedSlow`, `Publish`, `SlowClient`) and the REST query that shares the cache key (`FetchChain`,
`Answer`, `Answered`). A chain is known by its runtime and sequence number. A patch holds whole rows: it is
good for a chain that misses no earlier patch, and does no harm on one that has it already (`Fits`). A
socket the hook closes is never heard again, since the hook detaches its handlers. `HasSnapshot` follows
`currentSnapshot`, which is null before the first build and after dispose. The page asks for venues, and the
runtime serves those of them that are loaded (`Live`): the hook files every frame under the request it
names, the runtime's, which is another key of the cache than the page's when a venue is missing.

### Trades

**`TradeRuntime`** is the live trades of a venue: its connections (Deribit's USDC underlyings share one),
the watchdog over them, the REST seeds and a buffer per underlying. A trade is its underlying and its number
at the exchange.

**`BlockTradeRuntime`** is the block trades: the streams of Deribit and Bybit, and the polls of OKX, Binance
(their last trades) and Derive (a range of time that a cursor starts), all reporting into one buffer, and
the seen ids that age makes the runtime forget. **`Sorting`** is the stable sort by a number that both
runtimes' buffers go through, with its lemmas.

**`TradeWriter`** is the ingest worker's `BufferedTradeWriter` over `PostgresTradeStore`. A trade is its
`trade_uid`. `batch` is what a flush has handed to `writeMany` (`flushing` is `batch # <<>>`) and `inserted`
how far the inserts of its chunks have come; `InsertAnswered` and `InsertFails` are the answers of the
database, a failure before or after its commit. `Push` is `push` with its overflow and the flush a full
batch starts; `Shutdown` is the signal handler up to its first await, `Drain` the loop of `flushAll` after a
flush, and `"done"` is where the runtimes are disposed and the pool is closed, which refuses the next insert
of a flush that is still under way. `owed` (what the drain found waiting) and `late` (how much came while it
ran) are history variables. `Restart` is a new worker over the same table. Of the backoff only that it
passes is kept, not its length.

**`TradeIngest`** is the worker as a whole: a behaviour is the writer's or the live runtime's, which only
share the call of `push`, and that may come with any trade at any time.

**`FlowHistory`** is a trade's way back: the row the worker writes of it, the table as `PostgresTradeStore`
reads it, the routes and the trade they tell of a row, and the views that walk page by page with a stack of
cursors, React Query's kept pages, the presets and the picked range. A page is the set of its trades with
the cursor of the next one: all that the walk and the properties ask of the order within a page is which row
comes last, which is what that cursor says.

### Services and analytics

**`SpotRuntime`**, **`DvolService`** and **`ServerBootstrap`** are the prices of the underlyings, the
volatility index and the server's start and end; **`MarketServices`** runs them beside `MarketData` and
`VenueHealth`, one part per behaviour.

`Optional` is a value that may be null. **`Enrichment`** has what is computed of a chain: the venues side by
side, the best of them, statistics and gamma exposure. **`ChainProjection`** is the projection that is
snapshot and patched, **`StrategyBuilder`** is the builder's arithmetic at expiry, its store, templates and
the page's effects. **`MC_Views`** runs projection, builder and `FlowHistory`, one per behaviour.

The other `MC_` modules give values to constants that a configuration cannot write (functions, records);
`MC_ChainStream` also the symmetry of users, sockets, runtimes and keys.

## Runs

| Run | Checks | Shows |
| --- | --- | --- |
| `Coordinator_clean` | `AdapterAgrees HeldIsFed SharedFeedSpec` | while upstream subscriptions succeed, the coordinator implements `SharedFeed` |
| `Coordinator_live` | `CallsSettle` | with a rejection and two venues, a call settles unless one of its own venue's adapter calls never does |
| `Coordinator_fed` | `HeldIsFed`, violated | see findings |
| `ChainRuntime_stream` | `MirrorsAgree NothingLost QuotesNeverGoBack EventuallyShown` | the stream is the exchanges' quotes, through overflow, unknown contracts, rebuilds and dispose |
| `ChainRegistry_race` | `SharedEngine`, violated | see findings |
| `ChainStream` | `StreamShownWhole NothingLeaked EntriesAreLive StreamShowsWanted` | the browser's streamed chain is whole and of what is wanted and loaded, and nothing is left at the server |
| `Feeds` | `HeldIsReplayed ReplayedIsStreamed ConnectedAgain` | who holds a chain keeps what it needs through every reconnect, and a client connects again |
| `Ingest` | `Accounted MemoryBounded DrainIsComplete WaitingIsWritten BufferIsNewest SilenceEnds` | no accepted trade disappears unaccounted, what waits is written, a shutdown that can flush writes all it finds; buffers keep the newest trades, a silent connection is given up |
| `BlockTrades` | `ToldOnce CursorKeepsUp` | no block trade is told twice while it is young, and no cursor passes one untold |
| `Services` | `ViewIsStore OutageIsShown RangeIsHistory StatusSettles PricesSettle ServesInTheEnd` | a viewer's copy is the store's, through removals and listings, an outage and its end are shown, prices settle, the server serves |
| `Views` | `PatchedIsRebuilt StrategyIsKept CardsAreTold NothingSkipped PagesFollowOn PickedIsShown ToldAsTraded EffectsSettle` | a patched chain is the chain enriched whole, a strategy stays what its card says and is told unlimited where it is, effects end; no stored trade is passed over, back is where one was, what was picked is shown, as it was traded |
| `Builder_hump` | `UnlimitedIsSaid`, violated | see findings |

### Bounds

Every bound is a constant marked "bound" in its module, or the size of a set.

* Coordinator: venues only meet in `dispose`, so two are enough, and one where `dispose` does not matter;
  three clients on two requests give a shared request, a last holder and a call queued behind either; two
  handlers objects are one more than a venue can need. `MaxFailures` is 1: what a rejection leaves behind is
  there from then on.
* `ChainRuntime_stream`: `MaxPending` = 2 with two contracts lets a delta merge with one that waits, and
  overflow when both wait; `Updates` gives a contract a second quote to overtake the first.
  `ChainRegistry_race`: two keys, so that a cleanup has a list.
* `ChainStream`: two sockets (a drop and a reconnect), two users (two subscriptions, or one and a REST
  request), two runtimes (a change of chain, or of runtime), and two events per runtime (a snapshot and what
  follows it). The page asks for two requests, of which one names a venue that is not loaded: three keys,
  with the one its runtime serves (`Asked` bounds the search to that).
* `Feeds`: three instruments in two expiries of one underlying, one listed at boot and a new one in each
  expiry, so that a refresh has to subscribe for two chains; two sockets; any two faults (a closed
  connection, a failed attempt, a refused request, an expiry) for OKX and Bybit, and one where the exchange
  answers each request; one refused page for Bybit; batches of four channels, so that a replay takes more
  than one. The proofs have no such bounds.
* `Ingest`: a queue of three and batches of two, one record per insert, let a batch fail after half of it is
  committed and come back to a queue that is full; six reports of two trades fill the queue twice; two
  failures are a failed retry; a restart meets what a worker left in the table. Live: a buffer of two of two
  trades per underlying, two cuts, and Deribit's SOL and XRP on one connection.
* `BlockTrades`: a venue of each kind, three moments, buffer, retention, overlap, limit and lateness of one,
  two trades, two polls, a cut and a misread page: a trade is forgotten, comes late, or is beyond a page.
* `Services`: an instrument that expires and one that does not, which are removed and listed again; one or
  two messages of each kind of each venue, one item per message; `Stale` = 2; two runtimes; two polls that
  overlap; two currencies and two years. Any set of Bybit's and Deribit's instruments may go at once.
* `Views`. Projection: two venues, of which one has two contracts at one place, and two deltas. Builder: two
  cached chains, one leg put in by hand, six points of a payoff (the code takes 200 or 500), prices in half
  dollars (`Dollar` = 2), the strangle, which of the cards keeps the search smallest; the proofs cover all
  eight and any quantity. History: pages of one row over three live and two block trades, the two newest of
  one moment, so that a cursor has to tell them apart; one change of preset, range or venues; the only
  preset is the custom one. Reading a page and its arrival are one step, and late answers of filters no
  longer shown are left out.
* `Builder_hump`: a link with two legs, and a third put in by hand, of three contracts.

`CHECK_DEADLOCK FALSE` stands in every configuration but those of `MC_Views`: users may stop calling, and
the bounded supplies of quotes, sockets, faults and trades run out. The views always have something to do,
and there deadlock is checked.

### Fairness

Nothing is assumed of a connection attempt or of an adapter's call. `connect` waits for a socket that is
given no handshake timeout, and its promise is never settled when that socket is replaced
(topic-ws-client.ts:87-91, jsonrpc-client.ts:118). What waits for it is claimed only on the condition that
it settles:

* `SubscriptionCoordinator`: microtasks run. `CallsSettle` says of a call that it settles if, again and
  again, its own venue's adapter has no call open; what hangs at another venue, or in a dispose there, may
  hang for ever.
* `VenueFeeds`: a reconnect timer fires. `ConnectedAgain` is claimed when no attempt goes on for ever, and
  of the venues of `TopicWsClient` only, since the replay of `JsonRpcWsClient` depends on answers the
  exchange owes nobody.
* `ChainRuntime`: the timer fires, and microtasks run. `EventuallyShown` is claimed once every venue was
  granted or refused, since `initialize` takes one after the other. Builds of slow adapters get no fairness,
  so it is claimed for the SDK adapters alone.
* The server: its own steps are taken. `ServesInTheEnd` is claimed when all loads and starts settle. One
  venue whose connect hangs keeps the server initializing, since adapters.ts:22 waits for all.

Weak fairness is enough because the head of a chain stays enabled until it moves. Registry and stream are
checked for safety only. `TradeIngest`: the flush timer and the watchdog fire, the backoff passes, an insert
is answered or fails (the connection is closed in the end), a closed connection is noticed; that the
database works again is the bound on failures, and nothing is claimed of a worker that ends.
`MarketServices`: probes and poll timers fire, and a fetch over HTTP settles, by its client's timeout if by
nothing else. `Views`: React runs the effects of a render.

## Findings

Three runs show the code at odds with what it says of itself:

* `Coordinator_fed`. A rejected `subscribeChain` leaves its count behind (sdk-base.ts:178); the next acquire
  of the request skips `subscribeChain`, and its caller holds a handle on a request that is not on the wire.
* `ChainRegistry_race`. `cleanup` does not look at the count again after an await
  (chain-runtime-registry.ts:91): a runtime acquired meanwhile is disposed in use.
* `Builder_hump`. "If P&L keeps growing/falling at the extremes, it's unlimited" (payoff.ts:105), but a
  payoff that goes on growing beyond the drawn range counts as limited when something in between outdoes its
  ends: six calls bought at 30, eight sold at 40 and three bought at 65. Any quantity can be entered
  (LegInput.tsx:60). The cards never do (`CardsAreTold`).

Modelling met more, which the modules state at their place, either as a condition of a property or in a
comment:

* Coordinator and runtime. A connect that never settles leaves its venue's chain of promises waiting, with
  it every chain runtime that asks for the venue (chain-runtime.ts:249), and at boot the whole server (see
  fairness). A release queued behind a rejected acquire of another request never runs
  (subscription-coordinator.ts:209). A build that ends clears `needsResync` also when the overflow came
  after it read its chains (chain-runtime.ts:307), which needs an adapter whose `fetchOptionChain` waits;
  none does. A REST answer may replace a newer streamed chain (queries.ts:78), and patches are merged into
  it unchecked (useChainWs.ts:126). When the page asks for a venue that is not loaded, the stream fills the
  key without it (chain-runtime.ts:241, useChainWs.ts:107) and the page's own key has the REST answer only.
* Feeds. Binance's sweep forgets the mark prices of an underlying when one of its expiries goes
  (binance/ws-client.ts:619; `MarkSwept`), and a release that overtakes an acknowledgement leaves its
  streams subscribed (`astray`). Bybit's answer with a code other than 0 removes all instruments of the
  coin, against the comment beside it (bybit/ws-client.ts:155, 169). `connect` while a socket is connecting
  opens a second one, and the first one's promise is never settled. Deribit's release does not return
  tickers to the slower interval. In Derive, a subscribe that is rejected while a refresh adds the new
  instruments leaves the loop over their chains (derive/ws-client.ts:345): those of the chains after it are
  catalogued, and not subscribed until their chain is released (`astray`). It came up in looking for the
  inductive invariant. `HeldIsReplayed` and `ReplayedIsStreamed` leave out what is astray: topics the
  exchange refused, that an answer overtook, or that a failed job did not come to.
* Trades. `TradeRuntime.start` connects per underlying before the next one is registered, so that on
  Deribit's shared connection only the first one's trades are parsed until it reconnects
  (trade-runtime.ts:30). The watchdog takes OKX's "pong" for silence, never gives up a connection it has not
  heard from, and seeds are not compared with live trades. Derive's cursor moves past a page that was
  misread or capped (`CursorKeepsUp` is claimed while there was none); pollers swallow their errors and stay
  "connected"; block trades older than a day are told again with every poll. A shutdown that finds a flush
  under way or backing off loses the queue (ingest/src/index.ts:216; `DrainIsComplete` is about the others).
* Health. A subscription tells `connected` to all handlers of the venue (sdk-base.ts:170), which hides an
  outage until the next status (`masked`); a recovery is told only with the next status; a Deribit platform
  message may say "connected" while the public status is locked.
* Codecs. Deribit's book summaries at boot take the contract size as 1, OKX's boot tickers the default one.
  Derive stores the ticker of every name that a subscribe or refresh fetches, without telling, and that of a
  removed instrument too (derive/ws-client.ts:197, 234). Binance keeps the quotes of instruments it has
  removed, and of some it never listed.
* Services. An older spot answer may overwrite a newer one; `connected` of the spot runtime never becomes
  false; a pushed DVOL outside the year's range makes the rank leave 0 to 100; a venue that fails at boot is
  never retried.
* Views. Two contracts of a venue at one strike share a cell of the comparison chain. A payoff whose extreme
  is at the edge of the range counts as unlimited (payoff.ts:110; a bull call spread is). Effects of a
  commit run with the closure of their render, so a switch to an underlying whose chain is cached puts the
  old legs back as legs of the new one. The flow view's Next may act on a kept page; a picked start after
  the newest bound is applied as an inverted range.

## Proofs

The theorems hold for every value of the constants that satisfies the modules' named assumptions: any
numbers of clients, requests, venues, sockets, runtimes and trades, any sizes. Each invariant that a run
checks is proved from an inductive one, whose conjuncts are named; there is a lemma per part, with a step
per action, and a last theorem puts them together.

| Module | Theorem | States |
| --- | --- | --- |
| `SubscriptionCoordinator_proofs` | `Invariance`, `TypeCorrect`, `RefCountsAreExact` | `[]IInv`, `[]TypeOK`, `[]RefCountExact` |
| | `AdaptersAgree`, `HoldersAreFed` | `[]AdapterAgrees`, `[]HeldIsFed`, without rejections |
| | `ImplementsSharedFeed` | the coordinator implements `SharedFeed`, without rejections |
| `ChainRuntime_proofs` | `Invariance`, `TypeCorrect` | `[]IInv`, `[]TypeOK` |
| | `ListenersAgree`, `NoQuoteLost`, `NothingStaysAttached` | `[]MirrorsAgree`, `[]NothingLost`, `[]NothingLeftBehind` |
| | `NoQuoteGoesBack` | `QuotesNeverGoBack`, an action property |
| `ChainStream_proofs` | `DisposedIsNotHandedOut` | `[]EntriesAreLive`, of the registry alone |
| | `StreamInvariance` | `[]StreamInv` |
| | `ShownIsWhole`, `HeldIsGivenBack`, `StreamEntriesAreLive`, `ShowsWhatIsWanted` | `[]StreamShownWhole`, `[]NothingLeaked`, `[]EntriesAreLive`, `StreamShowsWanted` |
| `BlockTradeRuntime_proofs` | `Invariance`, `NothingIsPassedUntold` | `[]IInv`, `[]CursorKeepsUp` |
| | `TradesAreToldOnce` | `[]ToldOnce` |
| `TradeIngest_proofs` | `Invariance`, `NoTradeLost`, `OneRowEach`, `BoundedMemory` | `[]IInv`, `[]Accounted`, `[]StoredOnce`, `[]MemoryBounded`, of the writer |
| | `ShutdownDrains` | `[]DrainIsComplete` |
| | `BuffersAreNewest` | `[]BufferIsNewest`, of the live runtime |
| `Views_proofs` | `HistoryInvariance` | `[]HistoryInv` |
| | `NothingIsSkipped`, `PagesAreWalked`, `PickedRangeIsShown`, `StoredIsToldAsTraded` | `[]NothingSkipped`, `[]PagesFollowOn`, `[]PickedIsShown`, `[]ToldAsTraded` |
| | `ProjectionInvariance` | `[]ProjectionInv` |
| | `PatchesRebuild` | `[]PatchedIsRebuilt` |
| | `BuilderInvariance` | `[]BuilderInv` |
| | `StrategiesAreKept` | `[]StrategyIsKept` |
| | `CardInvariance`, `CardsAreToldUnlimited` | `[]CardInv`, `[]CardsAreTold` |
| `VenueFeeds_proofs` | `Invariance` | `[]Inv`, of each of the five clients |
| | `HolderIsReplayed`, `ReplayIsStreamed` | `[]HeldIsReplayed`, `[]ReplayedIsStreamed` |
| `MarketServices_proofs` | `ServicesInvariance` | `[]ServicesInv` |
| | `OutagesAreShown`, `RangesAreOfHistory`, `ViewsAreCurrent` | `[]OutageIsShown`, `[]RangeIsHistory`, `[]ViewIsStore` |

### The coordinator

`RefCountExact` is not inductive. A release subtracts one because it was queued, and that is right only if
its client is among the holders, once. `VenueInv` adds: every queued call belongs to a client of this venue
in the phase of that call (`QueuePhases`), a client has one call queued (`OneCallEach`), what the head waits
for fits the head (`HeadFits`: in particular the request entry of a running subscribe does not exist yet), a
venue in use has its entry (`UsedHasEntry`), no acquire is queued behind a dispose (`DisposeIsLast`), and a
client that lost its entry to dispose is a client of a venue where nothing is or will be in use
(`LostToDispose`). The proof has a lemma for queues (`EnqueueQueue`, `SettleQueue`), one for how the counted
set changes (`HoldersGain`, `HoldersLose`, `HoldersKeep`, with the library's facts on cardinality), one that
a step of one venue leaves the others alone (`OtherVenue`), and then one lemma per action; `InvStep` puts
them together. The assumption that nobody acquires after `dispose` is used: without it the release of an
orphaned handle can take away the reference of somebody else, which TLC shows at once when the guard is
dropped.

Without rejections (`MaxFailures = 0`; the findings show what a rejection does) `CleanInvariance` goes on
from there. Between the operations of a venue the adapter counts a request exactly if it has an entry at the
coordinator, and a handlers object as often as it has requests; while the head subscribes or unsubscribes
the two differ by what the head is about to do, and the invariant says by what. From it follow
`AdapterAgrees`, then `HeldIsFed`, and with that the refinement: a step of the coordinator that stops a
topic finds no holder of it, and one that grants a handle finds its topic fed.

### The runtime

The runtime's `IInv` adds four things. `HandlesInv`: what is attached is exactly what `handles`, a release
of `dispose` or a late release holds, so when none is left nothing is attached. `PhaseInv`: the timer runs
only once a snapshot exists (with adapters that do not wait), so that a patch is never published into
nothing, and no snapshot is numbered above `seq`, so that a listener never drops the next event.
`PendingInv`: a delta that waits is the newest of its contract, so that pushing it, or dropping it because a
snapshot built now has it, loses nothing; a release cannot break this because only `dispose` releases.
`ChainInv`: the published chain is the projection's, and never ahead of the venues, so that a snapshot never
goes back. Each has a lemma with a step per action.

### The registry and the stream

`DisposedIsNotHandedOut` rests on two facts: a live entry has the key it is filed under, so that a cleanup
that deletes by key deletes the entry of the runtime it disposes; and the list of a cleanup in progress
knows the key of each of its entries. No count is needed, and none is exact.

`ChainStream`'s `StreamInv` takes the registry's invariant along (its lemmas are proved for one step of the
registry and used for both) and adds, from the browser down: `HookInv`, the subscription the hook follows is
one it sent on its current socket, for the chain it wants, so that every frame of it is filed under `Live`
of that chain; `SocketInv`, the server's end of a socket knows only what was sent on it; `SubInv`, a runtime
is held by the session of an open socket or by a call in progress, and a socket has one session; `RouteInv`
and `UpInv`, what waits at an await or is on its way up; `RuntimeInv`, what `ready` and `dispose` have done
to a runtime that is held. `NothingLeaked` and `StreamShowsWanted` follow from these. `StreamShownWhole`
needs two more, about frames on their way. `FollowsInv`: every patch comes right after the frame before it
on its socket, or after what the cache has if it is the first. `NewestInv`: the last frame sent to a holder
is of the newest chain its runtime has published, and once all have arrived the cache has that chain.
Without the second the first is not inductive: the next publication would not follow. A session that a slow
client loses, or that ends with its runtime, leaves a gap only behind its last frame, and the hook takes
nothing from a subscription that another has followed. In the proof a publication changes the end of every
holder's socket, a delivery the front of one, and each of the two has its lemmas (`PublishFollows`,
`PublishNewest`, `DeliverFollows`, `DeliverNewest`).

### The feeds

`HeldIsReplayed` and `ReplayedIsStreamed` are stated once and hold for another reason in each client, so
that `Inv` has a part per client, over what the clients of one kind share (`AdapterInv`: the catalogue and
the request counts; `SocketInv`: how socket, attempt and timers go together).

* OKX and Bybit (`OkxInv`, `BybitInv`): the replay list is a part of what the open socket was asked for, and
  what a holder needs is in the list: with OKX once the socket is there, with Bybit already while the call
  waits for it.
* Binance (`BinanceInv`): the streams tracked are those planned and confirmed; what has been sent and not
  answered is known per socket (`AnswersInv`), so an acknowledgement that comes after a release, or on a
  socket that was replaced, tracks nothing (`TrackedInv`); `HolderInv` says what a holder has meanwhile.
* Deribit and Derive (`RpcInv`): calls are sequences of steps with an await between any two, and several are
  in progress at once: a subscribe, a refresh, a replay after a reconnect, a release. The invariant
  therefore speaks of what is still to be done. `PlannedIsKept`: what is planned is a channel of the list,
  or astray, or a job in progress has still to subscribe it (`SubscribesBy`). `ChannelIsStreamed`: a channel
  of the list was asked for on the open socket, or a job is about to ask again or to drop it (`ReplaysBy`,
  `LeavesBy`). `DeribitInv` and `DeriveInv` say which steps a job of each client may still have.

There is a lemma per action and client, and a step of one venue's client is no step of another's, since
`venue` never changes. The proof changed the model: `ChannelIsStreamed` was not inductive as long as a
refresh of Derive subscribed for one chain only, which led to the finding above, and two arms of a CASE that
gives what a step sends overlapped, which TLC and TLA+ read differently.

### Trades

`NothingIsPassedUntold` is about polls that overlap. A cursor moves to the newest moment a range had when it
was asked for, less an overlap; the invariant says that nothing is untold before a cursor, nor before the
start of a range that is still asked for, when every range so far was read to its end. A trade may come
late, by no more than the overlap, and an older poll may answer last: the cursor then goes back, never past
an untold trade.

`Accounted` needs `InsertedInv`: when the last insert of a batch is answered the batch is forgotten, and
that is right because every earlier insert of it is in the table. `MemoryBounded` needs `BatchInv`: a flush
takes a batch off a queue that may be over its limit, and until it comes back pushes keep the rest within
the limit. `DrainIsComplete` is about a loop that gives up on a queue that has not become shorter, while
trades are pushed to its end. `DrainInv` follows it: the queue and the batch have no more than the loop
counted and what came since, so that with less than a batch of these a full batch always makes it shorter,
and a batch that is not full had all that was owed.

Sorted buffers. Both runtimes sort what is new into what they have and cut the tail. `Sorting` gives each
record its place by counting what comes before it, since the provers know nothing of TLC's `SortSeq`, and
the two proofs that sort show that the places are a permutation in order (`PlacesAreOrdered` and what
follows from it, in both modules); two ordered sequences are compared by how many of their records are at or
after each moment, so no induction over sequences is needed. `BuffersAreNewest` follows: a record that was
cut has a whole buffer of newer ones, and later insertions only push it further out. `TradesAreToldOnce`
says that the runtime does not forget too early: what `seen` forgets is older than the retention before the
newest record of the buffer, the newest only becomes newer (`ForgottenIsOld`), and so a trade that is told
again is old when it is.

### The history

`PagesFollowOn` and `NothingSkipped` are not inductive. `WalkInv` adds that the cursors of a walk strictly
descend, so that they are distinct, and that no page below the last cursor is asked for: Next and Prev wait
for the page shown (`CanNext`), and the view itself only asks for the page it shows (`AsksAbove`). Hence an
answer replaces the page shown or one of no walk, and the links between the others stay. `PagesInv` says of
any kept page what it was read with: whatever of the filter was in the store then and lies between its
cursor and the next one is on it (`PageIsRead`). That rests on two lemmas about the page as the newest
`Limit` rows: it has a last row (`LastExists`), and what is no older than one of its rows is on it
(`NewestIsUpwardClosed`), because fewer rows are newer still. A walk gathers its pages, so every trade that
all of them were read with (`known`) and that is no older than a cursor has been seen. `PickInv` carries the
draft a range was picked with, and `PickedRange` does the arithmetic of hours and bounds. The assumption is
what the code and the database give: ids are ordered, a live trade's id is its own, a block trade has one,
moments and sizes are numbers. A live trade without an id gets a hash, and the assumption leaves out two
different trades alike in all the hash is made of.

### The projection

A push applies the waiting deltas to the chains, computes again the strikes they touch, and the client puts
those into the chain it shows. `PatchedIsRebuilt` needs to know why the other strikes may stay, and
`ProjectionInv` says it: the rows are those of the chains as they are now, and the projection's strikes are
what enrichment makes of these rows. The chains keep their shape under a delta, that is, symbol, strike and
side of every place (`OverContractKeeps`, `AppliedKeeps`), hence their rows (`RowsKept`); and a row whose
contracts no delta names is enriched to what it was (`OthersKept`). That a delta touches one strike of a
venue rests on `ChainsAssumption`: a listing has a contract once under its symbol.

### The builder

`StrategyIsKept` speaks of strikes and of a name; `BuilderInv` says of which card the legs are (`OfCard`):
as many as the card has parts, each with its part's side, its direction with or against the variant's and
its quantity, at strikes in the order of the parts' offsets (two parts at the same one only where their
offsets are the same), all of one expiry. From that the eight names follow, one lemma per number of legs
(`SinglesNamed`, `TwosNamed`, `ButterflyNamed`, `IronCondorNamed`). The order comes from `OffsetStrikeIs`,
the strike of a rank, which needs that the ranks of a finite set of numbers are all taken (`RankOnto`) and
in order (`RankOrders`). Applying a template gives such legs (`VariantIsOfCard`). Effects price them again:
a strike that the chain lists is nearest to itself (`ClosestToItself`), so a leg stays where it is
(`LegKept`), and either all legs take the new expiry or none misses a price in the one they have
(`RepricedIsOfCard`); otherwise the template is given up. The rest of `BuilderInv` says that an underlying,
an expiry and a shown answer are of those the constants list, so that `Data` is a chain (`DataIsChain`). The
assumptions are what the code gets: contracts have numbers or null (`NoneAssumption`, `DeltasAssumption`), a
chain has finitely many strikes and quotes, an index is no negative price, expiries are listed in order, all
venues together are one of the choices, and the legs of a shared address have numbers (`BuilderAssumption`).

`CardsAreTold` is about a sampled function. `EndsLead` says what the sampling needs of the value of a
strategy: where it rises or falls just outside a range, nothing within the range outdoes its higher or lower
end (`Outdone`). A leg is a call plus a tilt, a put being a call plus the strike less the price
(`LegIsTilted`), so the value of a strategy is a sum of at most four kinks and a line, and `EndsLead` is
arithmetic of that sum: for one leg, for two (`BoughtLead`, `SpreadLeads`, `PairLeads`), for a butterfly and
for an iron condor (`ButterflyOutdone`, `CondorOutdone`, where the order of the strikes does not even
matter). A sum over a set is a fold that takes the set's elements in an order of `CHOOSE`, of which the
provers know nothing: `SumsExist` gives a function that satisfies the fold's equation, set size by set size,
`SumIsWhole` that the sum is a number, and `SumOfOne` to `SumOfFour` its value for up to four legs, in
whatever order. The points of the payoff lie in the range, its ends among them (`PartOfRange`), and
`MetricsSayUnlimited` puts this together, for any number of points. `CardInv` is `BuilderInv` and that the
legs of an applied card are of such a form, at whatever strikes and prices (`Drawable`): the card is
forgotten as soon as a leg is put in by hand or comes from a link, and effects keep sides, directions and
quantities (`RepricedIsDrawable`). Of legs of any quantities `EndsLead` is false (`Builder_hump`).

### The services

`ServicesInv` has a part per service, and each service leaves the others' part alone. `HealthInv`: the
status a runtime keeps of the transport is the one the transport told last, unless a subscription said
otherwise (`masked`), and it is the first thing `EffectiveState` looks at; what a probe or message brings is
a status of the venue's health, told apart from the transport's by its text (`AnswerIsHealth`). `DvolInv`: a
snapshot is what `BuildSnapshot` makes of the history beside it. `DataInv`: a symbol has one instrument, an
instrument comes from a listing, a viewer's copy of a listed symbol is what a chain fetched now would say of
it, last price apart (`Shows`), unless the symbol is in `unsaid`; and what is held and not listed is in
`unsaid`, so that a symbol that is listed again is compared only once it is told (`EmitKeeps`: what is told
reaches the viewer's copy). Two assumptions: a listing is of the symbol it is told of (`ListingAssumption`),
and no year or text is the value that stands for none (`YearsAssumption`, `NoneAssumption`). The proof found
two arms of a CASE of an earlier `EffectiveState` that overlapped: TLC takes the first that is true, TLA+
any.

### Only model-checked

Liveness, which is out of the prover's reach: `CallsSettle`, `EventuallyShown`, `ConnectedAgain`,
`WaitingIsWritten`, `SilenceEnds`, `StatusSettles`, `PricesSettle`, `ServesInTheEnd`, `EffectsSettle`.

## Not modelled

Wire schemas, the other views and stores, the stateless routes: they keep no state that several actors
share. Floating-point arithmetic of greeks, break-evens, scenario profit and loss, days to expiry
(enrichment.ts:525: computed with a snapshot and never patched), the volatility surface and the term
structure are left out of the analytics; order of listing, tick sizes and timestamps of the quotes. In the
stream: `subscribed`, `status` and `error` messages, which only colour the connection state; `unsubscribe`,
which the hook never sends and which does at the route what a close does; and a `ready()` that rejects,
which `initialize` never lets happen. In the feeds: keepalives count as the closing of a connection,
`disconnect` and the adapters' `dispose` are called by nobody, and the retries of boot are left out. Four
hazards have no property: the entry a rejected acquire leaves behind (subscription-coordinator.ts:85), the
REST answer older than the stream (queries.ts:78), the promise of a connect whose socket is replaced
(topic-ws-client.ts:90), and quotes of removed instruments that come back (bybit/ws-client.ts:155): the
modules have them, and the code promises nothing they could be held against. The timer that `initialize`
installs after a dispose with an adapter that waits (chain-runtime.ts:271) is left out: it does nothing but
tick.
