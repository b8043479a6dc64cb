----------------------------- MODULE FlowHistory -----------------------------
(***************************************************************************)
(* The history of trades: what the ingest worker writes of a trade         *)
(* (mapLiveTrade, mapInstitutionalTrade), flow_trades as PostgresTradeStore*)
(* reads it, the routes /flow/history and /block-flow/history of the       *)
(* server, which tell a row as a trade again, and the views FlowView and   *)
(* BlockFlowView, which walk through the pages.                            *)
(*                                                                         *)
(* A page is asked for by the row it comes after, its cursor.  The view    *)
(* keeps a stack of cursors: Next pushes the last row of the page shown,   *)
(* Prev pops.  Answers are kept by React Query under what was asked        *)
(* (venues, range, cursor): a kept page is shown at once and asked for     *)
(* again, in the order the answers come, while the ingest worker goes on   *)
(* writing rows, late ones too.  Reading the store and receiving the       *)
(* answer are one step: until a page has arrived the view acts on none.    *)
(*                                                                         *)
(* Times are ticks, HourTicks of them an hour, HoursPerDay hours a day; a  *)
(* picked range is in whole hours.                                         *)
(***************************************************************************)
EXTENDS Optional, Integers, Sequences, SequencesExt, FiniteSets

CONSTANTS
  LiveTrades,    \* the trades that may be written
  BlockTrades,   \* the block trades that may be written
  Spots,         \* the spot prices of the moments they are written
  Before(_, _),  \* uid a sorts before uid b in the database
  Limit,         \* rows asked for a page
  Modes,         \* the views checked, of {"live", "institutional"}
  VenueFilters,  \* the selections of venues the user tries
  Presets,       \* the presets the user tries
  Nows,          \* the moments at which a preset is chosen
  LiveBounds,    \* bounds of the live trades, while the other view is shown
  Drafts,        \* the first and last hours the user picks
  HourTicks,
  HoursPerDay,
  MaxChanges,    \* bound: changes of preset, range or venues, and failed requests
  RowsChanged    \* bound: rows in the store once there has been one

-----------------------------------------------------------------------------
\* A trade as a row.  It carries its venue, underlying, instrument, tradeId, ts,
\* price, size and index price, a block trade its legs and totalSize instead of
\* instrument, price and size.  Contracts are counted in hundredths, the
\* smallest contract size of the code.

KnownVenues == {"deribit", "okx", "bybit", "binance", "derive"}
InverseVenues == {"deribit", "okx"}

Multiplier(venue, underlying) ==
  IF venue # "okx" THEN 100
  ELSE CASE underlying = "BTC" -> 1
         [] underlying = "ETH" -> 10
         [] OTHER -> 100

\* The price the amounts are computed with: the trade's own index price, or
\* else the spot price of the moment, when there is one.
Reference(trade, spot) == OrElse(trade.indexPrice, spot)
Priced(ref) == ref # None /\ ref > 0

\* A trade without an id is known by a hash of what it says: two such trades
\* alike in all of it are one row.
LiveUid(trade) ==
  IF trade.tradeId # None
    THEN <<trade.venue, trade.instrument, trade.tradeId>>
    ELSE <<"hash", trade.venue, trade.instrument, trade.ts, trade.price, trade.size>>

BlockUid(trade) == <<"hash", trade.venue, trade.tradeId, trade.ts>>

LiveAmounts(trade, ref) ==
  LET contracts == trade.size * Multiplier(trade.venue, trade.underlying) IN
  [contracts |-> contracts,
   notional  |-> IF Priced(ref) THEN contracts * ref ELSE None,
   premium   |-> IF trade.venue \notin InverseVenues THEN trade.price * contracts
                 ELSE IF Priced(ref) THEN trade.price * contracts * ref ELSE None]

\* A leg's price below one is taken for a price in the underlying, whatever
\* the venue; prices here are [below |-> BOOLEAN, amount |-> Nat].
LegPriceUsd(leg, ref) ==
  IF ~leg.price.below THEN leg.price.amount
  ELSE IF Priced(ref) THEN leg.price.amount * ref ELSE None

BlockAmounts(trade, ref) ==
  LET mult == Multiplier(trade.venue, trade.underlying)
      Lots(leg) == leg.size * leg.ratio * mult
      \* A leg without a price forgets the legs before it, not those after.
      AddLeg(sum, leg) ==
        LET price == LegPriceUsd(leg, ref) IN
        IF price = None THEN None ELSE OrElse(sum, 0) + price * Lots(leg)
      AddLots(sum, leg) == sum + Lots(leg) IN
  [contracts |-> trade.size * mult,
   notional  |-> IF Priced(ref) THEN FoldLeft(AddLots, 0, trade.legs) * ref ELSE None,
   premium   |-> FoldLeft(AddLeg, 0, trade.legs)]

LiveRecord(trade, spot) ==
  LET ref == Reference(trade, spot) IN
  [mode |-> "live", uid |-> LiveUid(trade), ts |-> trade.ts, venue |-> trade.venue,
   amounts |-> LiveAmounts(trade, ref),
   raw |-> [size |-> trade.size, tradeId |-> None, indexPrice |-> trade.indexPrice]]

BlockRecord(trade, spot) ==
  LET ref == Reference(trade, spot) IN
  [mode |-> "institutional", uid |-> BlockUid(trade), ts |-> trade.ts, venue |-> trade.venue,
   amounts |-> BlockAmounts(trade, ref),
   raw |-> [size |-> trade.size, tradeId |-> trade.tradeId, indexPrice |-> trade.indexPrice]]

Record(view, trade, spot) ==
  IF view = "live" THEN LiveRecord(trade, spot) ELSE BlockRecord(trade, spot)

TradeIdFromUid(uid, venue) == IF uid[1] = venue THEN Last(uid) ELSE None

\* A mutant: the size told is the contracts stored.
ToldContracts(row) ==
  [venue |-> row.venue, ts |-> row.ts, uid |-> row.uid,
   tradeId |-> OrElse(row.raw.tradeId, TradeIdFromUid(row.uid, row.venue)),
   size |-> row.amounts.contracts,
   indexPrice |-> row.raw.indexPrice]

\* The trade a row is told as.
ToldLive(row) ==
  [venue |-> row.venue, ts |-> row.ts, uid |-> row.uid,
   tradeId |-> OrElse(row.raw.tradeId, TradeIdFromUid(row.uid, row.venue)),
   size |-> OrElse(row.raw.size, row.amounts.contracts),
   indexPrice |-> row.raw.indexPrice]

ToldBlock(row) ==
  [venue |-> row.venue, ts |-> row.ts, uid |-> row.uid,
   tradeId |-> OrElse(OrElse(row.raw.tradeId, TradeIdFromUid(row.uid, row.venue)), row.uid),
   size |-> OrElse(row.raw.size, row.amounts.contracts),
   indexPrice |-> row.raw.indexPrice]

Told(row) == IF row.mode = "live" THEN ToldLive(row) ELSE ToldBlock(row)

-----------------------------------------------------------------------------
\* The summary of an empty store has neither.
NoBounds == [oldest |-> None, newest |-> None]

Uids == {LiveUid(t) : t \in LiveTrades} \cup {BlockUid(t) : t \in BlockTrades}

\* Before is the order of the ids as texts, and no two live trades have one id.
\* null is neither a number nor an id; a block trade has an id of its own.
ASSUME HistoryAssumption ==
  /\ Limit \in Nat \ {0} /\ HourTicks \in Nat \ {0} /\ HoursPerDay \in Nat \ {0}
  /\ Modes \subseteq {"live", "institutional"}
  /\ \A a, b, c \in Uids : Before(a, b) /\ Before(b, c) => Before(a, c)
  /\ \A a, b \in Uids : a # b <=> Before(a, b) \/ Before(b, a)
  /\ \A t1, t2 \in LiveTrades : LiveUid(t1) = LiveUid(t2) => t1 = t2
  /\ \A t \in LiveTrades \cup BlockTrades :
       t.venue \in KnownVenues /\ t.ts \in Nat /\ t.size \in Nat
  /\ \A t \in BlockTrades : t.tradeId # None
  /\ None \notin Int
  /\ LiveBounds \subseteq [oldest : Nat, newest : Nat] \cup {NoBounds}
  /\ Drafts \subseteq [start : Nat, end : Nat]

VARIABLES
  mode,        \* which of the two views
  stored,      \* the rows of flow_trades
  venues,      \* activeVenues
  preset,      \* historyPreset
  range,       \* historyRange, NoRange while its ends are null
  lastCustom,  \* lastCustomRange
  bounds,      \* the kept summary of everything: [oldest, newest], or None
  cursors,     \* historyCursors
  pages,       \* the kept pages
  counted,     \* the kept summaries: whether a filter has rows
  asked,       \* the requests on their way
  picked,      \* the draft last applied with its bounds, for the properties
  seen,        \* the rows shown since the walk began, likewise
  known,       \* the rows every page walked past was read with, likewise
  changes

filterVars == <<venues, preset, range, lastCustom, picked, changes>>
queryVars == <<pages, counted, bounds, asked>>
walkVars == <<cursors, seen, known>>
vars == <<mode, stored, filterVars, queryVars, walkVars>>

-----------------------------------------------------------------------------
\* The store.

Trades == IF mode = "live" THEN LiveTrades ELSE BlockTrades

\* (trade_ts, trade_uid) < (ts, uid)
Older(row, other) ==
  \/ row.ts < other.ts
  \/ row.ts = other.ts /\ Before(row.uid, other.uid)

\* A mutant: the cursor compares times only.
AfterInTime(row, cursor) == cursor # None => row.ts < cursor.ts

After(row, cursor) == cursor # None => Older(row, cursor)

NoRange == [start |-> None, end |-> None]
IsRange(r) == r.start # None /\ r.end # None

Where(row, filter) ==
  /\ row.venue \in filter.venues
  /\ filter.range.start # None => row.ts >= filter.range.start
  /\ filter.range.end # None => row.ts < filter.range.end

\* The first Limit of the rows, the newest first.
Newest(rows) == {row \in rows : Cardinality({other \in rows : Older(row, other)}) < Limit}

\* loadHistory: the newest rows below the cursor.
LoadHistory(filter, cursor) ==
  Newest({row \in stored : Where(row, filter) /\ After(row, cursor)})

-----------------------------------------------------------------------------
\* The routes: rows of a venue the server does not know are left out, and the
\* next page comes after the last row told.

LastOf(rows) == CHOOSE row \in rows : \A other \in rows : ~Older(other, row)

NextCursor(rows) ==
  IF rows = {} THEN None ELSE [ts |-> LastOf(rows).ts, uid |-> LastOf(rows).uid]

HistoryPage(filter, cursor) ==
  LET rows == {row \in LoadHistory(filter, cursor) : row.venue \in KnownVenues} IN
  [trades |-> {Told(row) : row \in rows}, nextCursor |-> NextCursor(rows)]

\* summarizeHistory, of which the view tells zero from more.
AnyRow(filter) == \E row \in stored : Where(row, filter)

-----------------------------------------------------------------------------
\* The ranges of the view.

TicksPerDay == HourTicks * HoursPerDay

PresetRange(p, now) ==
  LET today == (now \div TicksPerDay) * TicksPerDay IN
  CASE p = "today"     -> [start |-> today, end |-> now]
    [] p = "yesterday" -> [start |-> today - TicksPerDay, end |-> today]
    [] p = "last7d"    -> [start |-> today - 6 * TicksPerDay, end |-> now]
    [] p = "last30d"   -> [start |-> today - 29 * TicksPerDay, end |-> now]

Bounded(b) == b \notin {None, NoBounds}

RangeFromBounds(b) ==
  IF ~Bounded(b) THEN NoRange ELSE [start |-> b.oldest, end |-> b.newest + 1]

HourOf(tick) == tick \div HourTicks

\* normalizeDraft: a draft in whole hours, cut to the bounds; an end before
\* the start becomes the end of the start's hour.
Normalized(draft, b) ==
  LET Below(t) == IF Bounded(b) /\ t > b.newest THEN b.newest ELSE t
      start0 == draft.start * HourTicks
      start == IF Bounded(b) /\ start0 < b.oldest THEN b.oldest ELSE start0
      end0 == Below((draft.end + 1) * HourTicks - 1)
      end == IF end0 < start THEN Below(start + HourTicks - 1) ELSE end0 IN
  [start |-> HourOf(start), end |-> HourOf(end)]

\* A mutant: the range ends with the last tick of its hour, left out.
RangeShort(draft, b) ==
  LET d == Normalized(draft, b) IN
  [start |-> d.start * HourTicks, end |-> (d.end + 1) * HourTicks - 1]

\* buildRangeFromDraft: the end is the first tick after its hour.
RangeFromDraft(draft, b) ==
  LET d == Normalized(draft, b) IN
  [start |-> d.start * HourTicks, end |-> (d.end + 1) * HourTicks]

-----------------------------------------------------------------------------
\* The view: what it asks for and what it shows.

Filter == [venues |-> venues, range |-> range]
PageKey(filter, cursor) == <<"page", filter, cursor>>
CountKey(filter) == <<"count", filter>>
BoundsKey(v) == <<"bounds", v>>

\* isHistoryRangeReady, with today's presets always ready.
Ready(r) == IsRange(r)

Key == PageKey(Filter, Last(cursors))
Fetching == Key \in asked
HasPage == Key \in DOMAIN pages
HasRows == Filter \in DOMAIN counted /\ counted[Filter]

\* historyTrades, and what the empty state hides of them.
ShownRows ==
  IF HasPage /\ HasRows /\ Ready(range)
    THEN pages[Key].page.trades
    ELSE {}

\* The queries of a view that shows range r of venues v at cursor c.
Queries(v, r, c) ==
  LET f == [venues |-> v, range |-> r] IN
  {BoundsKey(v)} \cup (IF Ready(r) THEN {PageKey(f, c), CountKey(f)} ELSE {})

\* The view is opened on today, or the custom preset is chosen before anything
\* has been answered.
Init ==
  /\ mode \in Modes
  /\ stored = {}
  /\ venues = UNION VenueFilters
  /\ \/ preset = "today" /\ \E now \in Nows : range = PresetRange("today", now)
     \/ preset = "custom" /\ range = NoRange
  /\ lastCustom = NoRange
  /\ bounds = None
  /\ cursors = <<None>>
  /\ pages = <<>>
  /\ counted = <<>>
  /\ asked = Queries(venues, range, None)
  /\ picked = None
  /\ seen = {}
  /\ known = Trades
  /\ changes = 0

-----------------------------------------------------------------------------
\* The ingest worker: an INSERT of a batch, rows already there left as they
\* are.
Write ==
  \E trade \in Trades, spot \in Spots :
    LET row == Record(mode, trade, spot) IN
    /\ changes > 0 => Cardinality(stored) < RowsChanged
    /\ stored' = IF \E r \in stored : r.uid = row.uid THEN stored ELSE stored \cup {row}
    /\ UNCHANGED <<mode, filterVars, queryVars, walkVars>>

\* Showing venues v and range r from the first page: the effect that resets
\* the cursors runs after a render with the old cursor, whose query is sent.
\* The answers on their way for what is no longer shown are left out: they fill
\* a kept page, which is asked for again when it is shown.
Show(v, r, onTheWay) ==
  /\ venues' = v
  /\ range' = r
  /\ cursors' = <<None>>
  /\ seen' = {}
  /\ known' = Trades
  /\ LET queries == Queries(v, r, Last(cursors)) \cup Queries(v, r, None) IN
     asked' = (onTheWay \cap {BoundsKey(v)}) \cup (IF v = venues THEN queries \ {BoundsKey(v)} ELSE queries)

Disturbed ==
  /\ changes < MaxChanges /\ Cardinality(stored) <= RowsChanged
  /\ changes' = changes + 1

ChangesFilter ==
  /\ Disturbed
  /\ UNCHANGED <<mode, stored, pages, counted>>

\* The store's setActiveVenues and toggleVenue; the bounds are those of the
\* venues and so not known yet.
ChangeVenues(v) ==
  /\ ChangesFilter
  /\ v # venues
  /\ bounds' = None
  /\ Show(v, range, asked)
  /\ UNCHANGED <<preset, lastCustom, picked>>

\* handlePresetChange, FlowView's in both views: the custom preset starts from
\* the last custom range, or else from the bounds of the live trades.
ChangePreset(p) ==
  /\ ChangesFilter
  /\ preset' = p
  /\ picked' = None
  /\ IF p = "custom"
       THEN \E b \in IF mode = "live" THEN {bounds} ELSE LiveBounds :
              Show(venues, IF IsRange(lastCustom) THEN lastCustom ELSE RangeFromBounds(b), asked)
       ELSE \E now \in Nows : Show(venues, PresetRange(p, now), asked)
  /\ UNCHANGED <<lastCustom, bounds>>

\* handleApply of the DateRangePicker, shown for the custom preset, then
\* handleRangeChange.
ApplyRange(draft) ==
  /\ ChangesFilter
  /\ preset = "custom"
  /\ LET r == RangeFromDraft(draft, bounds) IN
     /\ lastCustom' = r
     /\ Show(venues, r, asked)
  /\ picked' = [draft |-> draft, bounds |-> bounds]
  /\ UNCHANGED <<preset, bounds>>

-----------------------------------------------------------------------------
\* The pager: both buttons wait for the page.

\* A mutant: Next does not wait for the page shown to be read again.
CanNextAtOnce ==
  /\ HasPage /\ Ready(range)
  /\ pages[Key].page.nextCursor # None
  /\ mode = "live" => HasRows

CanNext ==
  /\ ~Fetching /\ HasPage /\ Ready(range)
  /\ pages[Key].page.nextCursor # None
  /\ mode = "live" => HasRows

\* Going to a page asks for it again, kept or not.
GoTo(stack) ==
  /\ cursors' = stack
  /\ asked' = asked \cup {PageKey(Filter, Last(stack))}
  /\ UNCHANGED <<mode, stored, filterVars, pages, counted, bounds>>

NextPage ==
  /\ CanNext
  /\ seen' = seen \cup ShownRows
  /\ known' = known \cap pages[Key].asOf
  /\ GoTo(Append(cursors, pages[Key].page.nextCursor))

PreviousPage ==
  /\ ~Fetching
  /\ Len(cursors) > 1
  /\ GoTo(Front(cursors))
  /\ UNCHANGED <<seen, known>>

\* The window is focused, or History is shown again: what is shown is asked
\* for again.
Focus ==
  /\ asked' = asked \cup Queries(venues, range, Last(cursors))
  /\ UNCHANGED <<mode, stored, filterVars, pages, counted, bounds, walkVars>>

\* BlockFlowView is left and opened again: its cursors are new.
Reopen ==
  /\ mode = "institutional"
  /\ cursors' = <<None>> /\ seen' = {} /\ known' = Trades
  /\ asked' = asked \cup Queries(venues, range, None)
  /\ UNCHANGED <<mode, stored, filterVars, pages, counted, bounds>>

-----------------------------------------------------------------------------
\* Answers.

PageAnswered(key) ==
  /\ key[1] = "page"
  /\ pages' = [k \in DOMAIN pages \cup {key} |->
       IF k = key THEN [page |-> HistoryPage(key[2], key[3]),
                        asOf |-> {t \in Trades : \E row \in stored : row.uid = Record(mode, t, None).uid}]
       ELSE pages[k]]
  /\ asked' = asked \ {key}
  /\ UNCHANGED <<mode, stored, filterVars, counted, bounds, walkVars>>

CountAnswered(key) ==
  /\ key[1] = "count"
  /\ counted' = [f \in DOMAIN counted \cup {key[2]} |-> IF f = key[2] THEN AnyRow(f) ELSE counted[f]]
  /\ asked' = asked \ {key}
  /\ UNCHANGED <<mode, stored, filterVars, pages, bounds, walkVars>>

\* The effects that set a custom range from bounds once they are known.
Waits == preset = "custom" /\ ~IsRange(range)

SetFromBounds(b, onTheWay) ==
  /\ lastCustom' = RangeFromBounds(b)
  /\ Show(venues, RangeFromBounds(b), onTheWay)

\* While BlockFlowView is shown, FlowView's own effect sets the range from the
\* bounds of the live trades.
LiveBoundsAnswered ==
  /\ mode = "institutional" /\ Waits
  /\ \E b \in LiveBounds : Bounded(b) /\ SetFromBounds(b, asked)
  /\ UNCHANGED <<mode, stored, preset, picked, changes, pages, counted, bounds>>

BoundsAnswered(key) ==
  LET rows == {row.ts : row \in {r \in stored : r.venue \in key[2]}}
      b == IF rows = {} THEN NoBounds
           ELSE [oldest |-> CHOOSE t \in rows : \A u \in rows : t <= u,
                 newest |-> CHOOSE t \in rows : \A u \in rows : t >= u]
      theirs == key[2] # venues IN
  /\ key[1] = "bounds"
  /\ bounds' = IF theirs THEN bounds ELSE b
  /\ IF Waits /\ Bounded(b) /\ ~theirs
       THEN SetFromBounds(b, asked \ {key})
       ELSE /\ asked' = asked \ {key}
            /\ UNCHANGED <<venues, range, lastCustom, walkVars>>
  /\ UNCHANGED <<mode, stored, preset, picked, changes, pages, counted>>

\* The retries are used up: what was kept stays.
Fails(key) ==
  /\ Disturbed
  /\ asked' = asked \ {key}
  /\ UNCHANGED <<mode, stored, venues, preset, range, lastCustom, picked, pages, counted, bounds, walkVars>>

Next ==
  \/ Write
  \/ \E v \in VenueFilters : ChangeVenues(v)
  \/ \E p \in Presets : ChangePreset(p)
  \/ \E draft \in Drafts : ApplyRange(draft)
  \/ NextPage
  \/ PreviousPage
  \/ Focus
  \/ Reopen
  \/ LiveBoundsAnswered
  \/ \E key \in asked : PageAnswered(key) \/ CountAnswered(key) \/ BoundsAnswered(key) \/ Fails(key)

Spec == Init /\ [][Next]_vars

-----------------------------------------------------------------------------
(***************************************************************************)
(* Properties                                                              *)
(***************************************************************************)

\* Walking on with Next passes no trade over: a trade of the filter that was in
\* the store when each page walked through was read, and is newer than the
\* page now shown, has been on one of those pages, however many rows were
\* written in between and whatever was read again.
NothingSkipped ==
  mode = "live" /\ Len(cursors) > 1 =>
    \A t \in known :
      LET row == Record(mode, t, None) IN
      (Where(row, Filter) /\ ~Older(row, Last(cursors))) =>
        \E told \in seen : told.uid = row.uid

\* The stack is a walk: each page kept for it is followed by the next one, so
\* Prev leads back to the page Next was pressed on.
PagesFollowOn ==
  \A i \in 1 .. Len(cursors) - 1 :
    LET key == PageKey(Filter, cursors[i]) IN
    key \in DOMAIN pages => pages[key].page.nextCursor = cursors[i + 1]

\* A range picked in order holds every stored trade of the picked hours that
\* lies within the bounds it was cut to.
PickedIsShown ==
  (picked # None /\ picked.draft.start <= picked.draft.end) =>
    \A row \in stored :
      (/\ HourOf(row.ts) \in picked.draft.start .. picked.draft.end
       /\ Bounded(picked.bounds) =>
            row.ts \in picked.bounds.oldest .. picked.bounds.newest)
        => Where(row, [venues |-> {row.venue}, range |-> range])

\* A trade read back from the store is told as it was traded, its size in the
\* venue's own unit and its id as the venue gave it.
ToldAsTraded ==
  \A key \in DOMAIN pages : \A told \in pages[key].page.trades :
    \E t \in Trades :
      /\ told.venue = t.venue /\ told.ts = t.ts /\ told.size = t.size
      /\ told.tradeId = t.tradeId /\ told.indexPrice = t.indexPrice
=============================================================================
