----------------------------- MODULE Views_proofs -----------------------------
(***************************************************************************)
(* The safety properties of what the web shows: the history views, for any  *)
(* trades, order of their ids, page size, drafts and bounds, and any        *)
(* interleaving of writes, answers, changes and walks; the chain, for any   *)
(* snapshots and deltas; the strategy builder, for any chains, expiries,    *)
(* venues, quantities and prices.                                           *)
(***************************************************************************)
EXTENDS FlowHistory, ChainProjection, StrategyBuilder, FiniteSetTheorems,
        SequenceTheorems, WellFoundedInduction, TLAPS

-------------------------------------------------------------------------------
\* A set of naturals that is not empty has a least element.
LEMMA LeastNatural ==
  ASSUME NEW S, S \subseteq Nat, S # {}
  PROVE  \E n \in S : \A m \in S : n <= m
<1>1. IsWellFoundedOn(OpToRel(<, Nat), Nat)
  BY NatLessThanWellFounded
<1>2. PICK n \in S : \A m \in S : ~ (<<m, n>> \in OpToRel(<, Nat))
  BY <1>1, WFMin
<1>3. \A m \in S : ~ (m < n)
  BY <1>2 DEF OpToRel
<1>. QED  BY <1>3

\* How many are no greater: the greatest element has the most.
UpTo(S, x) == {y \in S : y <= x}

LEMMA BelowGrows ==
  ASSUME NEW S, S \subseteq Int, IsFiniteSet(S), NEW x \in S, NEW y \in S, x < y
  PROVE  /\ Cardinality(UpTo(S, x)) \in Nat /\ Cardinality(UpTo(S, y)) \in Nat
         /\ Cardinality(UpTo(S, x)) < Cardinality(UpTo(S, y))
<1>1. IsFiniteSet(UpTo(S, y)) /\ IsFiniteSet(UpTo(S, x))
  BY FS_Subset DEF UpTo
<1>2. UpTo(S, x) \subseteq UpTo(S, y) /\ UpTo(S, x) # UpTo(S, y)
  <2>1. y \in UpTo(S, y) /\ y \notin UpTo(S, x)
    BY DEF UpTo
  <2>2. \A z \in S : z <= x => z <= y
    OBVIOUS
  <2>3. UpTo(S, x) \subseteq UpTo(S, y)
    BY <2>2 DEF UpTo
  <2>. QED  BY <2>1, <2>3
<1>3. Cardinality(UpTo(S, x)) # Cardinality(UpTo(S, y))
  BY <1>1, <1>2, FS_Subset
<1>4. Cardinality(UpTo(S, x)) <= Cardinality(UpTo(S, y))
  BY <1>1, <1>2, FS_Subset
<1>. QED  BY <1>1, <1>3, <1>4, FS_CardinalityType

LEMMA RankType ==
  ASSUME NEW S, S \subseteq Int, IsFiniteSet(S), NEW x \in S
  PROVE  /\ Cardinality(UpTo(S, x)) \in 1..Cardinality(S)
         /\ Cardinality(S) \in Nat
<1>1. UpTo(S, x) \subseteq S /\ x \in UpTo(S, x)
  BY DEF UpTo
<1>2. IsFiniteSet(UpTo(S, x)) /\ Cardinality(UpTo(S, x)) <= Cardinality(S)
  BY <1>1, FS_Subset
<1>3. Cardinality(UpTo(S, x)) # 0
  BY <1>1, <1>2, FS_EmptySet
<1>. QED  BY <1>2, <1>3, FS_CardinalityType

\* The values of a function on a finite set are finitely many.
LEMMA ImageFinite ==
  ASSUME NEW S, IsFiniteSet(S), NEW f
  PROVE  IsFiniteSet({f[x] : x \in S}) /\ Cardinality({f[x] : x \in S}) <= Cardinality(S)
<1>. DEFINE T == {f[x] : x \in S}
            g == [x \in S |-> f[x]]
<1>1. g \in Surjection(S, T)
  BY DEF Surjection
<1>. QED  BY <1>1, FS_Surjection

\* A finite set of numbers has a greatest element and a least one.
LEMMA FiniteMax ==
  ASSUME NEW S, S \subseteq Int, IsFiniteSet(S), S # {}
  PROVE  Max(S) \in S /\ \A y \in S : y <= Max(S)
<1>. DEFINE Above == {Cardinality(S) - Cardinality(UpTo(S, x)) : x \in S}
<1>0. \A x \in S : /\ Cardinality(UpTo(S, x)) \in 1..Cardinality(S)
                    /\ Cardinality(S) \in Nat
  BY RankType
<1>1. Above \subseteq Nat /\ Above # {}
  <2>1. Above # {}
    OBVIOUS
  <2>2. ASSUME NEW n \in Above PROVE n \in Nat
    <3>1. PICK x \in S : n = Cardinality(S) - Cardinality(UpTo(S, x))
      BY <2>2
    <3>. HIDE DEF Above
    <3>. QED  BY <1>0, <3>1
  <2>. QED  BY <2>1, <2>2
<1>2. PICK n \in Above : \A m \in Above : n <= m
  BY <1>1, LeastNatural
<1>3. PICK x \in S : n = Cardinality(S) - Cardinality(UpTo(S, x))
  BY <1>2
<1>4. \A y \in S : ~ (x < y)
  <2>1. SUFFICES ASSUME NEW y \in S, x < y PROVE FALSE
    OBVIOUS
  <2>2. Cardinality(UpTo(S, x)) < Cardinality(UpTo(S, y))
    BY <2>1, BelowGrows
  <2>3. Cardinality(S) - Cardinality(UpTo(S, y)) \in Above
    OBVIOUS
  <2>4. n <= Cardinality(S) - Cardinality(UpTo(S, y))
    BY <1>2, <2>3
  <2>. HIDE DEF Above
  <2>. QED  BY <1>0, <1>3, <2>2, <2>4
<1>5. \E z \in S : \A y \in S : z >= y
  BY <1>4
<1>6. Max(S) \in S /\ \A y \in S : Max(S) >= y
  BY <1>5 DEF Max
<1>. QED  BY <1>6

LEMMA FiniteMin ==
  ASSUME NEW S, S \subseteq Int, IsFiniteSet(S), S # {}
  PROVE  Min(S) \in S /\ \A y \in S : Min(S) <= y
<1>. DEFINE Ranks0 == {Cardinality(UpTo(S, x)) : x \in S}
<1>0. \A x \in S : /\ Cardinality(UpTo(S, x)) \in 1..Cardinality(S)
                    /\ Cardinality(S) \in Nat
  BY RankType
<1>1. Ranks0 \subseteq Nat /\ Ranks0 # {}
  <2>1. Ranks0 # {}
    OBVIOUS
  <2>2. ASSUME NEW n \in Ranks0 PROVE n \in Nat
    <3>1. PICK x \in S : n = Cardinality(UpTo(S, x))
      BY <2>2
    <3>. HIDE DEF Ranks0
    <3>. QED  BY <1>0, <3>1
  <2>. QED  BY <2>1, <2>2
<1>2. PICK n \in Ranks0 : \A m \in Ranks0 : n <= m
  BY <1>1, LeastNatural
<1>3. PICK x \in S : n = Cardinality(UpTo(S, x))
  BY <1>2
<1>4. \A y \in S : ~ (y < x)
  <2>1. SUFFICES ASSUME NEW y \in S, y < x PROVE FALSE
    OBVIOUS
  <2>2. Cardinality(UpTo(S, y)) < Cardinality(UpTo(S, x))
    BY <2>1, BelowGrows
  <2>. QED  BY <1>2, <1>3, <2>2, RankType
<1>5. \E z \in S : \A y \in S : z =< y
  BY <1>4
<1>. QED  BY <1>5 DEF Min

\* Of the strikes of a finite chain one is the closest to a price.
LEMMA ClosestExists ==
  ASSUME NEW S, S \subseteq Int, IsFiniteSet(S), S # {}, NEW p \in Int
  PROVE  \E s \in S : \A t \in S :
           Distance(s, p) < Distance(t, p) \/ (Distance(s, p) = Distance(t, p) /\ s <= t)
<1>. DEFINE D == {Distance(s, p) : s \in S}
<1>1. \A s \in S : Distance(s, p) \in Nat
  BY DEF Distance
<1>2. D \subseteq Nat /\ D # {}
  BY <1>1
<1>3. PICK d \in D : \A e \in D : d <= e
  BY <1>2, LeastNatural
<1>. DEFINE T == {s \in S : Distance(s, p) = d}
<1>4. T \subseteq Int /\ T # {} /\ IsFiniteSet(T)
  BY <1>3, FS_Subset
<1>5. Min(T) \in T /\ \A t \in T : Min(T) <= t
  BY <1>4, FiniteMin
<1>6. \A t \in S : d < Distance(t, p) \/ (d = Distance(t, p) /\ Min(T) <= t)
  <2>1. SUFFICES ASSUME NEW t \in S PROVE d < Distance(t, p) \/ (d = Distance(t, p) /\ Min(T) <= t)
    OBVIOUS
  <2>2. Distance(t, p) \in D /\ d \in Nat /\ Distance(t, p) \in Nat
    BY <1>1, <1>2, <1>3
  <2>3. CASE d = Distance(t, p)
    BY <2>3, <1>5
  <2>. QED  BY <2>2, <2>3, <1>3
<1>7. Min(T) \in S /\ Distance(Min(T), p) = d
  BY <1>5
<1>. QED  BY <1>6, <1>7

-----------------------------------------------------------------------------
(* Finite sets that are ordered, and rows *)

\* A finite set that is ordered has a member nothing comes before.
LEMMA FirstExists ==
  ASSUME NEW S, IsFiniteSet(S), S # {}, NEW R,
         \A x \in S : <<x, x>> \notin R,
         \A x, y, z \in S : <<x, y>> \in R /\ <<y, z>> \in R => <<x, z>> \in R
  PROVE  \E x \in S : \A y \in S : <<y, x>> \notin R
<1> DEFINE Down(x) == {y \in S : <<y, x>> \in R}
           counts == {Cardinality(Down(x)) : x \in S}
<1>1. \A x \in S : IsFiniteSet(Down(x)) /\ Cardinality(Down(x)) \in Nat
  <2>1. ASSUME NEW x \in S PROVE IsFiniteSet(Down(x)) /\ Cardinality(Down(x)) \in Nat
    <3>1. Down(x) \in SUBSET S
      OBVIOUS
    <3> HIDE DEF Down
    <3>2. QED
      BY <3>1, FS_Subset, FS_CardinalityType
  <2>2. QED
    BY <2>1
<1>2. ASSUME NEW x \in S, NEW y \in S, <<y, x>> \in R
      PROVE  Cardinality(Down(y)) < Cardinality(Down(x))
  <2>1. Down(y) \in SUBSET Down(x) /\ y \in Down(x) /\ y \notin Down(y)
    BY <1>2
  <2> HIDE DEF Down
  <2>2. /\ Cardinality(Down(y)) <= Cardinality(Down(x))
        /\ Cardinality(Down(x)) = Cardinality(Down(y)) => Down(x) = Down(y)
    BY <1>1, <2>1, FS_Subset
  <2>3. Cardinality(Down(y)) # Cardinality(Down(x))
    BY <2>1, <2>2
  <2>4. QED
    BY <1>1, <2>2, <2>3
<1> HIDE DEF Down
<1>3. counts \subseteq Nat /\ counts # {}
  BY <1>1
<1>4. PICK n \in counts : \A m \in counts : ~ (m < n)
  <2>1. IsWellFoundedOn(OpToRel(<, Nat), Nat)
    BY NatLessThanWellFounded
  <2>2. \E n \in counts : \A m \in counts : ~ (<<m, n>> \in OpToRel(<, Nat))
    <3> HIDE DEF counts
    <3> QED
      BY <1>3, <2>1, WFMin
  <2>3. QED
    BY <1>3, <2>2 DEF OpToRel
<1>5. PICK x \in S : n = Cardinality(Down(x))
  BY <1>4
<1>6. \A y \in S : <<y, x>> \notin R
  BY <1>2, <1>4, <1>5
<1>7. QED
  BY <1>6

\* A finite set of numbers has a least and a greatest.
LEMMA NumbersHaveEnds ==
  ASSUME NEW S, S \subseteq Nat, IsFiniteSet(S), S # {}
  PROVE  /\ \E t \in S : \A u \in S : t <= u
         /\ \E t \in S : \A u \in S : t >= u
<1> DEFINE Up == {p \in S \X S : p[1] < p[2]}
           Down == {p \in S \X S : p[1] > p[2]}
<1>0. \A x, y \in S : (<<y, x>> \in Up <=> y < x) /\ (<<y, x>> \in Down <=> y > x)
  OBVIOUS
<1>1. \E x \in S : \A y \in S : <<y, x>> \notin Up
  <2>1. \A x \in S : <<x, x>> \notin Up
    OBVIOUS
  <2>2. \A x, y, z \in S : <<x, y>> \in Up /\ <<y, z>> \in Up => <<x, z>> \in Up
    OBVIOUS
  <2> HIDE DEF Up
  <2>3. QED
    BY <2>1, <2>2, FirstExists
<1>2. \E x \in S : \A y \in S : <<y, x>> \notin Down
  <2>1. \A x \in S : <<x, x>> \notin Down
    OBVIOUS
  <2>2. \A x, y, z \in S : <<x, y>> \in Down /\ <<y, z>> \in Down => <<x, z>> \in Down
    OBVIOUS
  <2> HIDE DEF Down
  <2>3. QED
    BY <2>1, <2>2, FirstExists
<1> HIDE DEF Up, Down
<1>3. \E x \in S : \A y \in S : x <= y
  <2>1. PICK x \in S : \A y \in S : <<y, x>> \notin Up
    BY <1>1
  <2>2. ASSUME NEW y \in S PROVE x <= y
    <3>1. ~ (y < x) /\ x \in Nat /\ y \in Nat
      BY <1>0, <2>1
    <3>2. QED
      BY <3>1
  <2>3. QED
    BY <2>2
<1>4. \E x \in S : \A y \in S : x >= y
  <2>1. PICK x \in S : \A y \in S : <<y, x>> \notin Down
    BY <1>2
  <2>2. ASSUME NEW y \in S PROVE x >= y
    <3>1. ~ (y > x) /\ x \in Nat /\ y \in Nat
      BY <1>0, <2>1
    <3>2. QED
      BY <3>1
  <2>3. QED
    BY <2>2
<1>5. QED
  BY <1>3, <1>4

\* What a row or a cursor is placed by.
Placed(row) == row.ts \in Nat /\ row.uid \in Uids

Same(row, other) == row.ts = other.ts /\ row.uid = other.uid

\* Rows are in a strict order, of which only time and id decide.
LEMMA OlderIsOrder ==
  ASSUME NEW a, Placed(a), NEW b, Placed(b), NEW c, Placed(c)
  PROVE  /\ ~ Older(a, a)
         /\ Older(a, b) /\ Older(b, c) => Older(a, c)
         /\ Older(a, b) \/ Older(b, a) \/ Same(a, b)
         /\ Same(a, b) => (Older(a, c) <=> Older(b, c)) /\ (Older(c, a) <=> Older(c, b))
<1>1. /\ \A x, y, z \in Uids : Before(x, y) /\ Before(y, z) => Before(x, z)
      /\ \A x, y \in Uids : x # y <=> Before(x, y) \/ Before(y, x)
  BY HistoryAssumption
<1>2. ~ Older(a, a)
  BY <1>1 DEF Older, Placed
<1>3. Older(a, b) /\ Older(b, c) => Older(a, c)
  BY <1>1 DEF Older, Placed
<1>4. Older(a, b) \/ Older(b, a) \/ Same(a, b)
  BY <1>1 DEF Older, Placed, Same
<1>5. Same(a, b) => (Older(a, c) <=> Older(b, c)) /\ (Older(c, a) <=> Older(c, b))
  BY DEF Older, Same
<1>6. QED
  BY <1>2, <1>3, <1>4, <1>5

\* The rows of a page have a last one.
LEMMA LastExists ==
  ASSUME NEW rows, IsFiniteSet(rows), rows # {}, \A row \in rows : Placed(row)
  PROVE  LastOf(rows) \in rows /\ \A other \in rows : ~ Older(other, LastOf(rows))
<1> DEFINE R == {p \in rows \X rows : Older(p[1], p[2])}
<1>1. \A x \in rows : <<x, x>> \notin R
  BY OlderIsOrder
<1>2. ASSUME NEW x \in rows, NEW y \in rows, NEW z \in rows, <<x, y>> \in R, <<y, z>> \in R
      PROVE  <<x, z>> \in R
  <2>1. Older(x, y) /\ Older(y, z)
    BY <1>2
  <2>2. Older(x, z)
    BY <2>1, OlderIsOrder
  <2>3. QED
    BY <2>2
<1>3. \E x \in rows : \A y \in rows : <<y, x>> \notin R
  <2> HIDE DEF R
  <2> QED
    BY <1>1, <1>2, FirstExists
<1>4. \E x \in rows : \A y \in rows : ~ Older(y, x)
  BY <1>3
<1>5. QED
  BY <1>4 DEF LastOf

\* What is no older than a row of a page is on the page.
LEMMA NewestIsUpwardClosed ==
  ASSUME NEW rows, IsFiniteSet(rows), \A row \in rows : Placed(row),
         NEW row \in rows, NEW last \in Newest(rows), ~ Older(row, last)
  PROVE  row \in Newest(rows)
<1> DEFINE Up(r) == {other \in rows : Older(r, other)}
<1>1. last \in rows /\ Cardinality(Up(last)) < Limit
  BY DEF Newest
<1>2. Up(row) \in SUBSET Up(last)
  <2> SUFFICES ASSUME NEW other \in rows, Older(row, other) PROVE Older(last, other)
    OBVIOUS
  <2>1. Placed(row) /\ Placed(last) /\ Placed(other)
    BY <1>1
  <2>2. Older(last, row) \/ Same(last, row)
    BY <2>1, OlderIsOrder DEF Same
  <2>3. QED
    BY <2>1, <2>2, OlderIsOrder
<1>3. Up(last) \in SUBSET rows
  OBVIOUS
<1>4. row \in Newest(rows) <=> Cardinality(Up(row)) < Limit
  BY DEF Newest
<1> HIDE DEF Up
<1>5. IsFiniteSet(Up(last)) /\ Cardinality(Up(last)) \in Nat
  BY <1>3, FS_Subset, FS_CardinalityType
<1>6. Cardinality(Up(row)) <= Cardinality(Up(last)) /\ Cardinality(Up(row)) \in Nat
  BY <1>2, <1>5, FS_Subset, FS_CardinalityType
<1>7. QED
  BY <1>1, <1>4, <1>5, <1>6, HistoryAssumption

-----------------------------------------------------------------------------
(* Trades as rows, and rows as told *)

UidOf(t) == IF mode = "live" THEN LiveUid(t) ELSE BlockUid(t)

ModeInv == mode \in {"live", "institutional"}

\* What a trade's row and what is told of it keep of the trade.
LEMMA RecordFacts ==
  ASSUME ModeInv, NEW t \in Trades, NEW spot
  PROVE  LET row == Record(mode, t, spot) IN
         /\ row.mode = mode /\ row.ts = t.ts /\ row.venue = t.venue /\ row.uid = UidOf(t)
         /\ Placed(row) /\ row.venue \in KnownVenues
         /\ row.raw.size = t.size /\ row.raw.indexPrice = t.indexPrice
         /\ row.raw.tradeId = IF mode = "live" THEN None ELSE t.tradeId
<1>1. t \in LiveTrades \cup BlockTrades /\ UidOf(t) \in Uids
  BY DEF Trades, UidOf, Uids
<1>2. t.ts \in Nat /\ t.venue \in KnownVenues
  BY <1>1, HistoryAssumption
<1>3. CASE mode = "live"
  BY <1>1, <1>2, <1>3 DEF Record, LiveRecord, UidOf, Placed
<1>4. CASE mode # "live"
  BY <1>1, <1>2, <1>4, ModeInv DEF Record, BlockRecord, UidOf, Placed, ModeInv
<1>5. QED
  BY <1>3, <1>4

LEMMA ToldFacts ==
  ASSUME ModeInv, NEW t \in Trades, NEW spot
  PROVE  LET told == Told(Record(mode, t, spot)) IN
         /\ told.uid = UidOf(t) /\ told.venue = t.venue /\ told.ts = t.ts
         /\ told.size = t.size /\ told.tradeId = t.tradeId /\ told.indexPrice = t.indexPrice
<1> DEFINE row == Record(mode, t, spot)
<1>1. /\ row.mode = mode /\ row.ts = t.ts /\ row.venue = t.venue /\ row.uid = UidOf(t)
      /\ row.raw.size = t.size /\ row.raw.indexPrice = t.indexPrice
      /\ row.raw.tradeId = IF mode = "live" THEN None ELSE t.tradeId
  BY RecordFacts
<1> HIDE DEF row
<1>2. t.size # None /\ t.venue # "hash"
  BY HistoryAssumption DEF Trades, KnownVenues
<1>3. CASE mode = "live"
  <2>1. TradeIdFromUid(UidOf(t), t.venue) = t.tradeId
    <3>1. CASE t.tradeId # None
      <4>1. UidOf(t) = <<t.venue, t.instrument, t.tradeId>>
        BY <1>3, <3>1 DEF UidOf, LiveUid
      <4>2. QED
        BY <4>1 DEF TradeIdFromUid, Last
    <3>2. CASE t.tradeId = None
      <4>1. UidOf(t) = <<"hash", t.venue, t.instrument, t.ts, t.price, t.size>>
        BY <1>3, <3>2 DEF UidOf, LiveUid
      <4>2. UidOf(t)[1] # t.venue
        BY <1>2, <4>1
      <4>3. QED
        BY <3>2, <4>2 DEF TradeIdFromUid
    <3>3. QED
      BY <3>1, <3>2
  <2>2. Told(row) = ToldLive(row)
    BY <1>1, <1>3 DEF Told
  <2>3. QED
    BY <1>1, <1>2, <1>3, <2>1, <2>2 DEF ToldLive, OrElse, row
<1>4. CASE mode # "live"
  <2>1. t.tradeId # None
    BY <1>4, HistoryAssumption DEF Trades
  <2>2. Told(row) = ToldBlock(row)
    BY <1>1, <1>4 DEF Told
  <2>3. QED
    BY <1>1, <1>2, <1>4, <2>1, <2>2 DEF ToldBlock, OrElse, row
<1>5. QED
  BY <1>3, <1>4

-----------------------------------------------------------------------------
(* The invariant *)

Noted(t) == Record(mode, t, None)

Recorded(row) == \E t \in Trades, spot \in Spots : row = Record(mode, t, spot)

StoreInv == IsFiniteSet(stored) /\ \A row \in stored : Recorded(row)

KnownBounds == {None, NoBounds} \cup [oldest : Nat, newest : Nat]

BoundsInv == bounds \in KnownBounds

\* A range that was picked is the one shown.
PickInv ==
  picked # None =>
    /\ picked.draft \in Drafts /\ picked.bounds \in KnownBounds
    /\ range = RangeFromDraft(picked.draft, picked.bounds)

\* Cursors.
CursorPlaces == [ts : Nat, uid : Uids]

\* A kept page tells of recorded trades; the next one begins below it; and what
\* it was read from is on it, as far as it goes.
PageOf(key, kept) ==
  LET next == kept.page.nextCursor
  IN  /\ kept.asOf \subseteq Trades
      /\ \A told \in kept.page.trades : \E row : Recorded(row) /\ told = Told(row)
      /\ next # None => next \in CursorPlaces /\ After(next, key[3])
      /\ mode = "live" /\ next # None =>
           \A t \in kept.asOf :
             Where(Noted(t), key[2]) /\ After(Noted(t), key[3]) /\ ~ Older(Noted(t), next) =>
               \E told \in kept.page.trades : told.uid = UidOf(t)

PagesInv == \A key \in DOMAIN pages : PageOf(key, pages[key])

\* The cursors go down; no page below the last is asked for; and what was known
\* all the way and is no older than a cursor has been seen.
WalkInv ==
  /\ cursors \in Seq({None} \cup CursorPlaces)
  /\ Len(cursors) > 0 /\ cursors[1] = None
  /\ \A i \in 2 .. Len(cursors) : cursors[i] # None /\ cursors[i] \in CursorPlaces
  /\ \A i, j \in 2 .. Len(cursors) : i < j => Older(cursors[j], cursors[i])
  /\ \A i \in 1 .. Len(cursors) - 1 : PageKey(Filter, cursors[i]) \notin asked
  /\ PagesFollowOn
  /\ known \subseteq Trades
  /\ mode = "live" =>
       \A i \in 2 .. Len(cursors) : \A t \in known :
         Where(Noted(t), Filter) /\ ~ Older(Noted(t), cursors[i]) =>
           \E told \in seen : told.uid = UidOf(t)

HistoryInv == ModeInv /\ StoreInv /\ BoundsInv /\ PickInv /\ PagesInv /\ WalkInv

-----------------------------------------------------------------------------
(* What is read *)

\* A page that is read is as the invariant has it.
LEMMA PageIsRead ==
  ASSUME ModeInv, StoreInv, NEW key
  PROVE  PageOf(key, [page |-> HistoryPage(key[2], key[3]),
                      asOf |-> {t \in Trades : \E row \in stored : row.uid = Noted(t).uid}])
<1> DEFINE rows == {row \in stored : Where(row, key[2]) /\ After(row, key[3])}
           listing == {row \in Newest(rows) : row.venue \in KnownVenues}
           next == NextCursor(listing)
           asOf == {t \in Trades : \E row \in stored : row.uid = Noted(t).uid}
           told == {Told(row) : row \in listing}
<1>1. /\ IsFiniteSet(rows)
      /\ \A row \in rows : Placed(row) /\ Recorded(row) /\ row \in stored
  <2>1. rows \in SUBSET stored
    OBVIOUS
  <2>2. IsFiniteSet(rows)
    BY <2>1, FS_Subset DEF StoreInv
  <2>3. \A row \in stored : Placed(row)
    BY RecordFacts DEF StoreInv, Recorded
  <2>4. QED
    BY <2>2, <2>3 DEF StoreInv
<1>2. listing \in SUBSET rows
  BY DEF Newest
<1>3. IsFiniteSet(listing) /\ \A row \in listing : Placed(row)
  BY <1>1, <1>2, FS_Subset
<1>4. HistoryPage(key[2], key[3]) = [trades |-> told, nextCursor |-> next]
  BY DEF HistoryPage, LoadHistory
<1>5. asOf \subseteq Trades
  OBVIOUS
<1>6. \A x \in told : \E row : Recorded(row) /\ x = Told(row)
  BY <1>1, <1>2
<1>7. next # None => /\ LastOf(listing) \in listing /\ Same(next, LastOf(listing))
                     /\ Placed(next) /\ Placed(LastOf(listing))
  <2> HIDE DEF listing
  <2>1. next # None => listing # {} /\ next = [ts |-> LastOf(listing).ts, uid |-> LastOf(listing).uid]
    BY DEF NextCursor
  <2>2. listing # {} => LastOf(listing) \in listing
    BY <1>3, LastExists
  <2>3. QED
    BY <1>3, <2>1, <2>2 DEF Same, Placed
<1>8. next # None => next \in CursorPlaces /\ After(next, key[3])
  <2> SUFFICES ASSUME next # None PROVE next \in CursorPlaces /\ After(next, key[3])
    OBVIOUS
  <2>3. next \in CursorPlaces
    BY <1>7 DEF NextCursor, CursorPlaces, Placed, Same
  <2>1. Same(next, LastOf(listing)) /\ After(LastOf(listing), key[3])
    BY <1>2, <1>7
  <2>2. QED
    BY <1>7, <2>1, <2>3 DEF After, Older, Same
<1>9. ASSUME mode = "live", next # None, NEW t \in asOf,
             Where(Noted(t), key[2]), After(Noted(t), key[3]), ~ Older(Noted(t), next)
      PROVE  \E x \in told : x.uid = UidOf(t)
  <2>1. /\ Noted(t).ts = t.ts /\ Noted(t).venue = t.venue /\ Noted(t).uid = UidOf(t)
    BY RecordFacts DEF Noted
  <2>2. PICK row \in stored : row.uid = UidOf(t)
    BY <2>1
  <2>3. PICK u \in Trades, spot \in Spots : row = Record(mode, u, spot)
    BY DEF StoreInv, Recorded
  <2>4. row.uid = UidOf(u) /\ row.ts = u.ts /\ row.venue = u.venue /\ row.venue \in KnownVenues
    BY <2>3, RecordFacts
  <2>5. u = t
    BY <1>9, <2>2, <2>4, HistoryAssumption DEF UidOf, Trades
  <2>6. Where(row, key[2]) /\ After(row, key[3]) /\ Same(row, Noted(t))
    BY <1>9, <2>1, <2>2, <2>4, <2>5 DEF Where, After, Older, Same
  <2>7. row \in rows /\ ~ Older(row, LastOf(listing))
    BY <1>7, <1>9, <2>6 DEF Older, Same
  <2>8. LastOf(listing) \in Newest(rows)
    BY <1>7, <1>9
  <2>9. row \in Newest(rows)
    <3> HIDE DEF rows, listing
    <3> QED
      BY <1>1, <2>7, <2>8, NewestIsUpwardClosed
  <2>10. Told(row) \in told
    BY <2>4, <2>9
  <2>11. Told(row).uid = UidOf(t)
    BY <2>3, <2>5, ToldFacts
  <2>12. QED
    BY <2>10, <2>11
<1> HIDE DEF next, told, asOf
<1>10. PageOf(key, [page |-> [trades |-> told, nextCursor |-> next], asOf |-> asOf])
  BY <1>5, <1>6, <1>8, <1>9 DEF PageOf
<1>11. QED
  BY <1>4, <1>10 DEF asOf

\* The bounds of the store are moments.
LEMMA BoundsAreRead ==
  ASSUME ModeInv, StoreInv, NEW filter
  PROVE  LET rows == {row.ts : row \in {r \in stored : r.venue \in filter}} IN
         (IF rows = {} THEN NoBounds
          ELSE [oldest |-> CHOOSE t \in rows : \A u \in rows : t <= u,
                newest |-> CHOOSE t \in rows : \A u \in rows : t >= u]) \in KnownBounds
<1> DEFINE source == {r \in stored : r.venue \in filter}
           rows == {row.ts : row \in source}
<1>1. rows \subseteq Nat
  <2>1. \A row \in stored : Placed(row)
    BY RecordFacts DEF StoreInv, Recorded
  <2>2. QED
    BY <2>1 DEF Placed
<1>2. IsFiniteSet(source)
  <2>1. source \in SUBSET stored
    OBVIOUS
  <2>2. QED
    BY <2>1, FS_Subset DEF StoreInv
<1>3. IsFiniteSet(rows)
  <2> DEFINE f == [row \in source |-> row.ts]
  <2>1. f \in Surjection(source, rows)
    BY DEF Surjection
  <2> HIDE DEF f, source, rows
  <2>2. QED
    BY <1>2, <2>1, FS_Surjection
<1> HIDE DEF source
<1> HIDE DEF rows
<1>4. rows # {} => /\ \E t \in rows : \A u \in rows : t <= u
                   /\ \E t \in rows : \A u \in rows : t >= u
  BY <1>1, <1>3, NumbersHaveEnds
<1> DEFINE low == CHOOSE t \in rows : \A u \in rows : t <= u
           high == CHOOSE t \in rows : \A u \in rows : t >= u
<1>5. rows # {} => low \in rows /\ high \in rows
  BY <1>4
<1> HIDE DEF low, high
<1>6. rows # {} => [oldest |-> low, newest |-> high] \in [oldest : Nat, newest : Nat]
  BY <1>1, <1>5
<1>7. (IF rows = {} THEN NoBounds ELSE [oldest |-> low, newest |-> high]) \in KnownBounds
  BY <1>6 DEF KnownBounds
<1>8. QED
  BY <1>7 DEF low, high, rows, source

-----------------------------------------------------------------------------
(* Ranges that are picked *)

\* A moment lies in its hour.
LEMMA HourFacts ==
  ASSUME NEW t \in Int
  PROVE  /\ HourOf(t) \in Int
         /\ HourOf(t) * HourTicks <= t /\ t < (HourOf(t) + 1) * HourTicks
<1>1. HourTicks \in Nat \ {0}
  BY HistoryAssumption
<1>2. t \div HourTicks \in Int
  BY <1>1
<1>3. (t \div HourTicks) * HourTicks <= t
  BY <1>1
<1>4. t < (t \div HourTicks + 1) * HourTicks
  BY <1>1
<1>5. QED
  BY <1>2, <1>3, <1>4 DEF HourOf

LEMMA HoursGrow ==
  ASSUME NEW a \in Int, NEW b \in Int, a <= b
  PROVE  a * HourTicks <= b * HourTicks /\ a * HourTicks \in Int
<1>1. HourTicks \in Nat \ {0}
  BY HistoryAssumption
<1>2. QED
  BY <1>1

\* A picked range holds the moments of its hours that are within the bounds.
LEMMA PickedRange ==
  ASSUME NEW draft \in Drafts, NEW b \in KnownBounds, NEW ts \in Nat,
         HourOf(ts) \in draft.start .. draft.end,
         Bounded(b) => ts \in b.oldest .. b.newest
  PROVE  LET r == RangeFromDraft(draft, b) IN
         /\ r.start \in Int /\ r.end \in Int /\ r.start <= ts /\ ts < r.end
<1> DEFINE ds == draft.start
           de == draft.end
           H == HourTicks
           Below(t) == IF Bounded(b) /\ t > b.newest THEN b.newest ELSE t
           start == IF Bounded(b) /\ ds * H < b.oldest THEN b.oldest ELSE ds * H
           end0 == Below((de + 1) * H - 1)
           end == IF end0 < start THEN Below(start + H - 1) ELSE end0
<1>1. /\ ds \in Nat /\ de \in Nat /\ H \in Nat \ {0}
      /\ Bounded(b) => b.oldest \in Nat /\ b.newest \in Nat
  BY HistoryAssumption DEF KnownBounds, Bounded
<1>2. /\ HourOf(ts) \in Int /\ HourOf(ts) * H <= ts /\ ts < (HourOf(ts) + 1) * H
      /\ ds <= HourOf(ts) /\ HourOf(ts) + 1 <= de + 1
  BY <1>1, HourFacts
<1>3. ds * H <= HourOf(ts) * H /\ ds * H \in Int
  BY <1>1, <1>2, HoursGrow
<1>4. (HourOf(ts) + 1) * H <= (de + 1) * H /\ (de + 1) * H \in Int /\ (HourOf(ts) + 1) * H \in Int
  <2>1. HourOf(ts) + 1 \in Int /\ de + 1 \in Int
    BY <1>1, <1>2
  <2>2. QED
    BY <1>1, <1>2, <2>1, HoursGrow
<1>5. HourOf(ts) * H \in Int
  BY <1>1, <1>2
<1> DEFINE low == ds * H
           high == (de + 1) * H
<1>6. low \in Int /\ low <= ts /\ high \in Int /\ ts < high
  BY <1>2, <1>3, <1>4, <1>5
<1> HIDE DEF low, high
<1>7. start \in Int /\ start <= ts
  BY <1>1, <1>6 DEF low
<1>8. end0 \in Int /\ ts <= end0
  BY <1>1, <1>6 DEF high
<1> HIDE DEF start, end0, Below, H
<1>9. end = end0
  BY <1>7, <1>8
<1>10. /\ HourOf(start) \in Int /\ HourOf(start) * H <= start
       /\ HourOf(end0) \in Int /\ end0 < (HourOf(end0) + 1) * H
  BY <1>7, <1>8, HourFacts DEF H
<1> DEFINE from == HourOf(start) * H
           to == (HourOf(end0) + 1) * H
<1>11. from \in Int /\ to \in Int
  BY <1>1, <1>10
<1> HIDE DEF from, to, end
<1>12. from <= ts /\ ts < to
  BY <1>7, <1>8, <1>10, <1>11 DEF from, to
<1>13. RangeFromDraft(draft, b) = [start |-> from, end |-> to]
  <2>1. Normalized(draft, b) = [start |-> HourOf(start), end |-> HourOf(end)]
    BY DEF Normalized, start, end, end0, Below, H
  <2>2. QED
    BY <1>9, <2>1 DEF RangeFromDraft, from, to, H
<1>14. QED
  BY <1>11, <1>12, <1>13

\* A picked range has ends.
LEMMA PickedIsRange ==
  ASSUME NEW draft \in Drafts, NEW b \in KnownBounds
  PROVE  IsRange(RangeFromDraft(draft, b))
<1> DEFINE d == Normalized(draft, b)
<1>1. d.start \in Int /\ d.end \in Int
  <2> DEFINE Below(t) == IF Bounded(b) /\ t > b.newest THEN b.newest ELSE t
             start0 == draft.start * HourTicks
             start == IF Bounded(b) /\ start0 < b.oldest THEN b.oldest ELSE start0
             end0 == Below((draft.end + 1) * HourTicks - 1)
             end == IF end0 < start THEN Below(start + HourTicks - 1) ELSE end0
  <2>1. /\ draft.start \in Nat /\ draft.end \in Nat /\ HourTicks \in Nat \ {0}
        /\ Bounded(b) => b.oldest \in Nat /\ b.newest \in Nat
    BY HistoryAssumption DEF KnownBounds, Bounded
  <2>2. \A t \in Int : Below(t) \in Int
    BY <2>1
  <2>3. start0 \in Int /\ (draft.end + 1) * HourTicks - 1 \in Int
    BY <2>1
  <2> HIDE DEF Below, start0
  <2>4. start \in Int /\ end0 \in Int
    BY <2>1, <2>2, <2>3
  <2> HIDE DEF start, end0
  <2>5. end \in Int
    BY <2>1, <2>2, <2>4
  <2> HIDE DEF end
  <2>6. HourOf(start) \in Int /\ HourOf(end) \in Int
    BY <2>4, <2>5, HourFacts
  <2>7. d = [start |-> HourOf(start), end |-> HourOf(end)]
    BY DEF Normalized, start, end, end0, start0, Below
  <2>8. QED
    BY <2>6, <2>7
<1> HIDE DEF d
<1>2. d.start * HourTicks \in Int /\ (d.end + 1) * HourTicks \in Int
  BY <1>1, HistoryAssumption
<1>3. RangeFromDraft(draft, b) = [start |-> d.start * HourTicks, end |-> (d.end + 1) * HourTicks]
  BY DEF RangeFromDraft, d
<1>4. QED
  BY <1>2, <1>3, HistoryAssumption DEF IsRange

-----------------------------------------------------------------------------
(* Steps *)

\* What is kept is what it was while the view is the same one.
LEMMA StoreKept ==
  ASSUME StoreInv, UNCHANGED <<mode, stored>>
  PROVE  StoreInv'
  BY DEF StoreInv, Recorded, Trades, Record

LEMMA PageKept ==
  ASSUME UNCHANGED mode, NEW key, NEW kept, PageOf(key, kept)
  PROVE  PageOf(key, kept)'
<1>1. Trades' = Trades /\ \A t : UidOf(t)' = UidOf(t) /\ Noted(t)' = Noted(t)
  BY DEF Trades, UidOf, Noted
<1>2. \A row : Recorded(row)' <=> Recorded(row)
  BY <1>1 DEF Recorded
<1>3. QED
  BY <1>1, <1>2 DEF PageOf

LEMMA PagesKept ==
  ASSUME PagesInv, UNCHANGED <<mode, pages>>
  PROVE  PagesInv'
  BY PageKept DEF PagesInv

\* A walk begins with the first page.
LEMMA WalkBegins ==
  ASSUME cursors' = <<None>>, known' = Trades, UNCHANGED mode
  PROVE  WalkInv'
<1>1. cursors' \in Seq({None} \cup CursorPlaces) /\ Len(cursors') = 1 /\ cursors'[1] = None
  OBVIOUS
<1>2. known' \subseteq Trades'
  BY DEF Trades
<1>3. \A i \in Int : i \notin 2 .. Len(cursors') /\ i \notin 1 .. Len(cursors') - 1
  BY <1>1
<1>4. /\ \A i \in 2 .. Len(cursors') : i \in Int /\ FALSE
      /\ \A i \in 1 .. Len(cursors') - 1 : i \in Int /\ FALSE
  BY <1>1
<1>5. PagesFollowOn'
  BY <1>4 DEF PagesFollowOn
<1>6. QED
  BY <1>1, <1>2, <1>4, <1>5 DEF WalkInv

\* A walk goes on while no page below the last is read again.
LEMMA WalkKept ==
  ASSUME WalkInv, UNCHANGED <<mode, venues, range, cursors, seen, known>>,
         \A i \in 1 .. Len(cursors) - 1 :
           LET key == PageKey(Filter, cursors[i]) IN
           /\ key \in asked' => key \in asked
           /\ key \in DOMAIN pages' => key \in DOMAIN pages /\ pages'[key] = pages[key]
  PROVE  WalkInv'
<1>1. Filter' = Filter /\ Trades' = Trades /\ \A t : UidOf(t)' = UidOf(t) /\ Noted(t)' = Noted(t)
  BY DEF Filter, Trades, UidOf, Noted
<1>2. \A i \in 1 .. Len(cursors) - 1 : PageKey(Filter, cursors[i]) \notin asked'
  BY DEF WalkInv
<1>3. PagesFollowOn'
  BY <1>1 DEF WalkInv, PagesFollowOn, PageKey
<1>4. QED
  BY <1>1, <1>2, <1>3 DEF WalkInv, PageKey

\* A cursor below the last is not the last.
LEMMA CursorsDiffer ==
  ASSUME WalkInv, NEW i \in 1 .. Len(cursors) - 1
  PROVE  cursors[i] # Last(cursors)
<1>1. Len(cursors) \in Nat
  BY LenProperties DEF WalkInv
<1>2. Last(cursors) = cursors[Len(cursors)] /\ Len(cursors) \in 2 .. Len(cursors)
  BY <1>1 DEF Last
<1>3. CASE i = 1
  BY <1>2, <1>3 DEF WalkInv
<1>4. CASE i # 1
  <2>1. i \in 2 .. Len(cursors) /\ i < Len(cursors)
    BY <1>1, <1>4
  <2>2. Older(cursors[Len(cursors)], cursors[i]) /\ cursors[i] \in CursorPlaces
    BY <1>2, <2>1 DEF WalkInv
  <2>3. ~ Older(cursors[i], cursors[i])
    BY <2>2, OlderIsOrder DEF CursorPlaces, Placed
  <2>4. QED
    BY <1>2, <2>2, <2>3
<1>5. QED
  BY <1>3, <1>4

\* What the view asks for of itself is no page below the last.
LEMMA AsksAbove ==
  ASSUME WalkInv, NEW i \in 1 .. Len(cursors) - 1, NEW key \in Queries(venues, range, Last(cursors))
  PROVE  key # PageKey(Filter, cursors[i])
<1>1. cursors[i] # Last(cursors)
  BY CursorsDiffer
<1>2. \/ key = <<"bounds", venues>>
      \/ key = <<"page", [venues |-> venues, range |-> range], Last(cursors)>>
      \/ key = <<"count", [venues |-> venues, range |-> range]>>
  BY DEF Queries, BoundsKey, PageKey, CountKey
<1>3. QED
  BY <1>1, <1>2 DEF PageKey

LEMMA WriteStep ==
  ASSUME HistoryInv, Write
  PROVE  HistoryInv'
<1>1. UNCHANGED <<mode, venues, preset, range, lastCustom, picked, changes, pages, counted, bounds, asked,
                  cursors, seen, known>>
  BY DEF Write, filterVars, queryVars, walkVars
<1>2. PICK t \in Trades, spot \in Spots :
        stored' = IF \E r \in stored : r.uid = Record(mode, t, spot).uid
                  THEN stored ELSE stored \cup {Record(mode, t, spot)}
  BY DEF Write
<1>3. StoreInv'
  <2>1. IsFiniteSet(stored')
    BY <1>2, FS_AddElement DEF HistoryInv, StoreInv
  <2>2. Recorded(Record(mode, t, spot))
    BY DEF Recorded
  <2>3. \A row \in stored' : Recorded(row)
    BY <1>2, <2>2 DEF HistoryInv, StoreInv
  <2>4. \A row : Recorded(row)' <=> Recorded(row)
    BY <1>1 DEF Recorded, Trades
  <2>5. QED
    BY <2>1, <2>3, <2>4 DEF StoreInv
<1>4. PagesInv'
  BY <1>1, PagesKept DEF HistoryInv
<1>5. WalkInv'
  BY <1>1, WalkKept DEF HistoryInv
<1>6. ModeInv' /\ BoundsInv' /\ PickInv'
  BY <1>1 DEF HistoryInv, ModeInv, BoundsInv, PickInv
<1>7. QED
  BY <1>3, <1>4, <1>5, <1>6 DEF HistoryInv

\* Another preset, range or selection of venues starts the walk again.
LEMMA ShowStep ==
  ASSUME HistoryInv, UNCHANGED <<mode, stored, pages>>, NEW v, NEW r, NEW onTheWay, Show(v, r, onTheWay),
         BoundsInv', PickInv'
  PROVE  HistoryInv'
<1>1. StoreInv' /\ PagesInv' /\ ModeInv'
  BY StoreKept, PagesKept DEF HistoryInv, ModeInv
<1>2. WalkInv'
  BY WalkBegins DEF Show
<1>3. QED
  BY <1>1, <1>2 DEF HistoryInv

LEMMA ChangeVenuesStep ==
  ASSUME HistoryInv, NEW v, ChangeVenues(v)
  PROVE  HistoryInv'
<1>1. /\ UNCHANGED <<mode, stored, pages, picked>> /\ bounds' = None /\ Show(v, range, asked)
  BY DEF ChangeVenues, ChangesFilter
<1>2. range' = range
  BY <1>1 DEF Show
<1>3. BoundsInv' /\ PickInv'
  BY <1>1, <1>2 DEF HistoryInv, BoundsInv, PickInv, KnownBounds
<1>4. QED
  BY <1>1, <1>3, ShowStep

LEMMA ChangePresetStep ==
  ASSUME HistoryInv, NEW p, ChangePreset(p)
  PROVE  HistoryInv'
<1>1. /\ UNCHANGED <<mode, stored, pages, bounds>> /\ picked' = None
      /\ \E r : Show(venues, r, asked)
  BY DEF ChangePreset, ChangesFilter
<1>2. BoundsInv' /\ PickInv'
  BY <1>1 DEF HistoryInv, BoundsInv, PickInv
<1>3. QED
  BY <1>1, <1>2, ShowStep

LEMMA ApplyRangeStep ==
  ASSUME HistoryInv, NEW draft \in Drafts, ApplyRange(draft)
  PROVE  HistoryInv'
<1>1. /\ UNCHANGED <<mode, stored, pages, bounds>>
      /\ Show(venues, RangeFromDraft(draft, bounds), asked)
      /\ picked' = [draft |-> draft, bounds |-> bounds]
  BY DEF ApplyRange, ChangesFilter
<1>2. range' = RangeFromDraft(draft, bounds)
  BY <1>1 DEF Show
<1>3. BoundsInv' /\ PickInv'
  BY <1>1, <1>2 DEF HistoryInv, BoundsInv, PickInv
<1>4. QED
  BY <1>1, <1>3, ShowStep

\* The effects that wait for bounds leave a picked range alone.
LEMMA SetFromBoundsStep ==
  ASSUME HistoryInv, UNCHANGED <<mode, stored, pages, picked>>, Waits, BoundsInv',
         NEW b, NEW onTheWay, SetFromBounds(b, onTheWay)
  PROVE  HistoryInv'
<1>1. picked = None
  BY PickedIsRange DEF HistoryInv, PickInv, Waits
<1>2. PickInv'
  BY <1>1 DEF PickInv
<1>3. QED
  BY <1>2, ShowStep DEF SetFromBounds

\* Going on, or back, along the walk.
LEMMA NextPageStep ==
  ASSUME HistoryInv, NextPage
  PROVE  HistoryInv'
<1> DEFINE N == Len(cursors)
           next == pages[Key].page.nextCursor
<1>1. /\ Key \notin asked /\ Key \in DOMAIN pages /\ Ready(range) /\ next # None
      /\ mode = "live" => HasRows
  BY DEF NextPage, CanNext, Fetching, HasPage
<1>2. /\ cursors' = Append(cursors, next) /\ asked' = asked \cup {PageKey(Filter, Last(cursors'))}
      /\ seen' = seen \cup ShownRows /\ known' = known \cap pages[Key].asOf
      /\ UNCHANGED <<mode, stored, filterVars, pages, counted, bounds>>
  BY DEF NextPage, GoTo
<1>3. /\ UNCHANGED <<mode, stored, venues, range, picked, pages, bounds>>
  BY <1>2 DEF filterVars
<1>4. /\ N \in Nat \ {0} /\ cursors \in Seq({None} \cup CursorPlaces) /\ cursors[1] = None
      /\ \A i \in 2 .. N : cursors[i] # None /\ cursors[i] \in CursorPlaces
      /\ \A i, j \in 2 .. N : i < j => Older(cursors[j], cursors[i])
      /\ \A i \in 1 .. N - 1 : PageKey(Filter, cursors[i]) \notin asked
      /\ known \subseteq Trades
      /\ mode = "live" =>
           \A i \in 2 .. N : \A t \in known :
             Where(Noted(t), Filter) /\ ~ Older(Noted(t), cursors[i]) =>
               \E told \in seen : told.uid = UidOf(t)
  BY LenProperties DEF HistoryInv, WalkInv
<1>5. Last(cursors) = cursors[N] /\ Key = PageKey(Filter, cursors[N])
  BY DEF Last, Key
<1>6. /\ PageOf(Key, pages[Key]) /\ Key[2] = Filter /\ Key[3] = cursors[N]
  BY <1>1, <1>5 DEF HistoryInv, PagesInv, PageKey
<1>7. next \in CursorPlaces /\ After(next, cursors[N])
  BY <1>1, <1>6 DEF PageOf
<1>8. Filter' = Filter /\ Trades' = Trades /\ \A t : UidOf(t)' = UidOf(t) /\ Noted(t)' = Noted(t)
  BY <1>3 DEF Filter, Trades, UidOf, Noted
<1> HIDE DEF next
<1>9. /\ cursors' \in Seq({None} \cup CursorPlaces) /\ Len(cursors') = N + 1 /\ cursors'[N + 1] = next
      /\ \A i \in 1 .. N : cursors'[i] = cursors[i]
  BY <1>2, <1>4, <1>7, AppendProperties
<1> HIDE DEF N
<1>10. Last(cursors') = next
  BY <1>4, <1>9 DEF Last
\* It is below every cursor before it.
<1>11. ASSUME NEW i \in 2 .. N PROVE Older(next, cursors[i])
  <2>1. cursors[N] # None /\ N \in 2 .. N
    BY <1>4
  <2>2. Older(next, cursors[N])
    BY <1>7, <2>1 DEF After
  <2>3. CASE i = N
    BY <2>2, <2>3
  <2>4. CASE i # N
    <3>1. Older(cursors[N], cursors[i])
      BY <1>4, <2>1, <2>4
    <3>2. Placed(next) /\ Placed(cursors[N]) /\ Placed(cursors[i])
      BY <1>4, <1>7, <2>1 DEF CursorPlaces, Placed
    <3>3. QED
      BY <2>2, <3>1, <3>2, OlderIsOrder
  <2>5. QED
    BY <2>3, <2>4
<1>12. \A i \in 2 .. N + 1 : cursors'[i] # None /\ cursors'[i] \in CursorPlaces
  BY <1>1, <1>4, <1>7, <1>9 DEF next
<1>13. \A i, j \in 2 .. N + 1 : i < j => Older(cursors'[j], cursors'[i])
  <2> SUFFICES ASSUME NEW i \in 2 .. N + 1, NEW j \in 2 .. N + 1, i < j
               PROVE  Older(cursors'[j], cursors'[i])
    OBVIOUS
  <2>1. i \in 2 .. N /\ cursors'[i] = cursors[i]
    BY <1>4, <1>9
  <2>2. CASE j = N + 1
    BY <1>9, <1>11, <2>1, <2>2
  <2>3. CASE j # N + 1
    <3>1. j \in 2 .. N /\ cursors'[j] = cursors[j]
      BY <1>4, <1>9, <2>3
    <3>2. QED
      BY <1>4, <2>1, <3>1
  <2>4. QED
    BY <2>2, <2>3
<1>14. \A i \in 1 .. N : PageKey(Filter, cursors[i]) \notin asked'
  <2> SUFFICES ASSUME NEW i \in 1 .. N PROVE PageKey(Filter, cursors[i]) \notin asked'
    OBVIOUS
  <2>1. PageKey(Filter, cursors[i]) \notin asked
    <3>1. CASE i = N
      BY <1>1, <1>5, <3>1
    <3>2. CASE i # N
      BY <1>4, <3>2
    <3>3. QED
      BY <3>1, <3>2
  <2>2. cursors[i] # next
    <3>1. CASE i = 1
      BY <1>1, <1>4, <3>1 DEF next
    <3>2. CASE i # 1
      <4>1. i \in 2 .. N
        BY <1>4, <3>2
      <4>2. Older(next, cursors[i]) /\ ~ Older(next, next)
        BY <1>7, <1>11, <4>1, OlderIsOrder DEF CursorPlaces, Placed
      <4>3. QED
        BY <4>2
    <3>3. QED
      BY <3>1, <3>2
  <2>3. PageKey(Filter, cursors[i]) # PageKey(Filter, next)
    BY <2>2 DEF PageKey
  <2>4. QED
    BY <1>2, <1>10, <2>1, <2>3
<1>15. PagesFollowOn'
  <2> SUFFICES ASSUME NEW i \in 1 .. N, PageKey(Filter, cursors[i]) \in DOMAIN pages
               PROVE  pages[PageKey(Filter, cursors[i])].page.nextCursor = cursors'[i + 1]
    BY <1>3, <1>4, <1>8, <1>9 DEF PagesFollowOn, PageKey
  <2>1. CASE i = N
    BY <1>5, <1>9, <2>1 DEF next
  <2>2. CASE i # N
    <3>1. i \in 1 .. N - 1 /\ i + 1 \in 1 .. N
      BY <1>4, <2>2
    <3>2. pages[PageKey(Filter, cursors[i])].page.nextCursor = cursors[i + 1]
      BY <3>1 DEF HistoryInv, WalkInv, PagesFollowOn, N
    <3>3. QED
      BY <1>9, <3>1, <3>2
  <2>3. QED
    BY <2>1, <2>2
\* What is newly passed is on the page.
<1>16. ASSUME mode = "live", NEW i \in 2 .. N + 1, NEW t \in known',
              Where(Noted(t), Filter), ~ Older(Noted(t), cursors'[i])
       PROVE  \E told \in seen' : told.uid = UidOf(t)
  <2>1. t \in known /\ t \in pages[Key].asOf
    BY <1>2
  <2>2. ASSUME NEW k \in 2 .. N, ~ Older(Noted(t), cursors[k])
        PROVE  \E told \in seen' : told.uid = UidOf(t)
    BY <1>2, <1>4, <1>16, <2>1, <2>2
  <2>3. CASE i \in 2 .. N
    BY <1>9, <1>16, <2>2, <2>3
  <2>4. CASE i = N + 1 /\ After(Noted(t), cursors[N])
    <3>1. ~ Older(Noted(t), next)
      BY <1>9, <1>16, <2>4
    <3>2. \E told \in pages[Key].page.trades : told.uid = UidOf(t)
      BY <1>1, <1>6, <1>16, <2>1, <2>4, <3>1 DEF PageOf, next
    <3>3. ShownRows = pages[Key].page.trades
      BY <1>1, <1>16 DEF ShownRows, HasPage
    <3>4. QED
      BY <1>2, <3>2, <3>3
  <2>5. CASE i = N + 1 /\ ~ After(Noted(t), cursors[N])
    <3>1. cursors[N] # None /\ ~ Older(Noted(t), cursors[N])
      BY <2>5 DEF After
    <3>2. N \in 2 .. N
      BY <1>4, <3>1
    <3>3. QED
      BY <2>2, <3>1, <3>2
  <2>6. QED
    BY <1>4, <2>3, <2>4, <2>5
<1>17. WalkInv'
  <2>1. Len(cursors') > 0 /\ cursors'[1] = None
    BY <1>4, <1>9
  <2>2. known' \subseteq Trades'
    BY <1>2, <1>4, <1>8
  <2>3. \A i \in 1 .. Len(cursors') - 1 : PageKey(Filter', cursors'[i]) \notin asked'
    BY <1>4, <1>8, <1>9, <1>14
  <2>4. mode' = "live" =>
          \A i \in 2 .. Len(cursors') : \A t \in known' :
            Where(Noted(t)', Filter') /\ ~ Older(Noted(t)', cursors'[i]) =>
              \E told \in seen' : told.uid = UidOf(t)'
    BY <1>3, <1>8, <1>9, <1>16
  <2>5. QED
    BY <1>9, <1>12, <1>13, <1>15, <2>1, <2>2, <2>3, <2>4 DEF WalkInv, PageKey
<1>18. StoreInv' /\ PagesInv' /\ ModeInv' /\ BoundsInv' /\ PickInv'
  BY <1>3, StoreKept, PagesKept DEF HistoryInv, ModeInv, BoundsInv, PickInv
<1>19. QED
  BY <1>17, <1>18 DEF HistoryInv

LEMMA PreviousPageStep ==
  ASSUME HistoryInv, PreviousPage
  PROVE  HistoryInv'
<1> DEFINE N == Len(cursors)
<1>1. /\ N > 1 /\ cursors' = Front(cursors) /\ asked' = asked \cup {PageKey(Filter, Last(cursors'))}
      /\ UNCHANGED <<mode, stored, filterVars, pages, counted, bounds, seen, known>>
  BY DEF PreviousPage, GoTo
<1>2. UNCHANGED <<mode, stored, venues, range, picked, pages, bounds>>
  BY <1>1 DEF filterVars
<1>3. /\ N \in Nat /\ cursors \in Seq({None} \cup CursorPlaces) /\ cursors[1] = None
      /\ \A i \in 2 .. N : cursors[i] # None /\ cursors[i] \in CursorPlaces
      /\ \A i, j \in 2 .. N : i < j => Older(cursors[j], cursors[i])
      /\ \A i \in 1 .. N - 1 : PageKey(Filter, cursors[i]) \notin asked
  BY LenProperties DEF HistoryInv, WalkInv
<1>4. /\ cursors' \in Seq({None} \cup CursorPlaces) /\ Len(cursors') = N - 1
      /\ \A i \in 1 .. N - 1 : cursors'[i] = cursors[i]
  <2>1. cursors' = SubSeq(cursors, 1, N - 1)
    BY <1>1 DEF Front
  <2>2. 1 \in 1 .. N + 1 /\ N - 1 \in 0 .. N
    BY <1>1, <1>3
  <2>3. QED
    BY <1>1, <1>3, <2>1, <2>2, SubSeqProperties
<1>5. Filter' = Filter /\ Trades' = Trades /\ \A t : UidOf(t)' = UidOf(t) /\ Noted(t)' = Noted(t)
  BY <1>2 DEF Filter, Trades, UidOf, Noted
<1>6. Last(cursors') = cursors[N - 1]
  BY <1>1, <1>3, <1>4 DEF Last
<1>7. \A i \in 1 .. N - 2 : PageKey(Filter, cursors[i]) \notin asked'
  <2> SUFFICES ASSUME NEW i \in 1 .. N - 2 PROVE PageKey(Filter, cursors[i]) \notin asked'
    OBVIOUS
  <2>1. i \in 1 .. N - 1 /\ N - 1 \in 2 .. N /\ i < N - 1
    BY <1>1, <1>3
  <2>2. cursors[i] # cursors[N - 1]
    <3>1. CASE i = 1
      BY <1>3, <2>1, <3>1
    <3>2. CASE i # 1
      <4>1. i \in 2 .. N
        BY <1>3, <2>1, <3>2
      <4>2. Older(cursors[N - 1], cursors[i]) /\ Placed(cursors[i])
        BY <1>3, <2>1, <4>1 DEF CursorPlaces, Placed
      <4>3. ~ Older(cursors[i], cursors[i])
        BY <4>2, OlderIsOrder
      <4>4. QED
        BY <4>2, <4>3
    <3>3. QED
      BY <3>1, <3>2
  <2>3. PageKey(Filter, cursors[i]) # PageKey(Filter, cursors[N - 1])
    BY <2>2 DEF PageKey
  <2>4. QED
    BY <1>1, <1>3, <1>6, <2>1, <2>3
<1>8. \A i \in 1 .. N - 2 : i \in 1 .. N - 1 /\ i + 1 \in 1 .. N - 1
  BY <1>3
<1>9. PagesFollowOn'
  <2> SUFFICES ASSUME NEW i \in 1 .. N - 2, PageKey(Filter, cursors[i]) \in DOMAIN pages
               PROVE  pages[PageKey(Filter, cursors[i])].page.nextCursor = cursors[i + 1]
    BY <1>2, <1>3, <1>4, <1>5, <1>8 DEF PagesFollowOn, PageKey
  <2>1. QED
    BY <1>8 DEF HistoryInv, WalkInv, PagesFollowOn
<1>10. WalkInv'
  <2>1. Len(cursors') > 0 /\ cursors'[1] = None
    BY <1>1, <1>3, <1>4
  <2>2. \A i \in 2 .. Len(cursors') : i \in 2 .. N /\ cursors'[i] = cursors[i]
    BY <1>3, <1>4
  <2>3. known' \subseteq Trades'
    BY <1>1, <1>5 DEF HistoryInv, WalkInv
  <2>4. \A i \in 1 .. Len(cursors') - 1 : PageKey(Filter', cursors'[i]) \notin asked'
    BY <1>3, <1>4, <1>5, <1>7, <1>8
  <2>5. mode' = "live" =>
          \A i \in 2 .. Len(cursors') : \A t \in known' :
            Where(Noted(t)', Filter') /\ ~ Older(Noted(t)', cursors'[i]) =>
              \E told \in seen' : told.uid = UidOf(t)'
    BY <1>1, <1>5, <2>2 DEF HistoryInv, WalkInv
  <2>6. /\ \A i \in 2 .. Len(cursors') : cursors'[i] # None /\ cursors'[i] \in CursorPlaces
        /\ \A i, j \in 2 .. Len(cursors') : i < j => Older(cursors'[j], cursors'[i])
    BY <1>3, <2>2
  <2>7. QED
    BY <1>4, <1>9, <2>1, <2>3, <2>4, <2>5, <2>6 DEF WalkInv, PageKey
<1>11. StoreInv' /\ PagesInv' /\ ModeInv' /\ BoundsInv' /\ PickInv'
  BY <1>2, StoreKept, PagesKept DEF HistoryInv, ModeInv, BoundsInv, PickInv
<1>12. QED
  BY <1>10, <1>11 DEF HistoryInv

LEMMA FocusStep ==
  ASSUME HistoryInv, Focus
  PROVE  HistoryInv'
<1>1. /\ asked' = asked \cup Queries(venues, range, Last(cursors))
      /\ UNCHANGED <<mode, stored, venues, range, picked, pages, bounds, cursors, seen, known>>
  BY DEF Focus, filterVars, walkVars
<1>2. \A i \in 1 .. Len(cursors) - 1 :
        PageKey(Filter, cursors[i]) \in asked' => PageKey(Filter, cursors[i]) \in asked
  BY <1>1, AsksAbove DEF HistoryInv
<1>3. WalkInv'
  BY <1>1, <1>2, WalkKept DEF HistoryInv
<1>4. StoreInv' /\ PagesInv' /\ ModeInv' /\ BoundsInv' /\ PickInv'
  BY <1>1, StoreKept, PagesKept DEF HistoryInv, ModeInv, BoundsInv, PickInv
<1>5. QED
  BY <1>3, <1>4 DEF HistoryInv

LEMMA ReopenStep ==
  ASSUME HistoryInv, Reopen
  PROVE  HistoryInv'
<1>1. /\ cursors' = <<None>> /\ known' = Trades
      /\ UNCHANGED <<mode, stored, range, picked, pages, bounds>>
  BY DEF Reopen, filterVars
<1>2. WalkInv'
  BY <1>1, WalkBegins
<1>3. StoreInv' /\ PagesInv' /\ ModeInv' /\ BoundsInv' /\ PickInv'
  BY <1>1, StoreKept, PagesKept DEF HistoryInv, ModeInv, BoundsInv, PickInv
<1>4. QED
  BY <1>2, <1>3 DEF HistoryInv

\* A page that arrives was asked for, and so is none below the last.
LEMMA PageAnsweredStep ==
  ASSUME HistoryInv, NEW key \in asked, PageAnswered(key)
  PROVE  HistoryInv'
<1> DEFINE read == [page |-> HistoryPage(key[2], key[3]),
                    asOf |-> {t \in Trades : \E row \in stored : row.uid = Noted(t).uid}]
<1>1. /\ asked' = asked \ {key}
      /\ UNCHANGED <<mode, stored, venues, range, picked, bounds, cursors, seen, known>>
  BY DEF PageAnswered, filterVars, walkVars
<1>2. pages' = [k \in DOMAIN pages \cup {key} |-> IF k = key THEN read ELSE pages[k]]
  BY DEF PageAnswered, Noted
<1>3. PageOf(key, read)
  BY PageIsRead DEF HistoryInv
<1> HIDE DEF read
<1>4. \A k \in DOMAIN pages' : PageOf(k, pages'[k])
  BY <1>2, <1>3 DEF HistoryInv, PagesInv
<1>5. PagesInv'
  BY <1>1, <1>4, PageKept DEF PagesInv
<1>6. ASSUME NEW i \in 1 .. Len(cursors) - 1
      PROVE  LET lower == PageKey(Filter, cursors[i]) IN
             /\ lower \in asked' => lower \in asked
             /\ lower \in DOMAIN pages' => lower \in DOMAIN pages /\ pages'[lower] = pages[lower]
  <2>1. PageKey(Filter, cursors[i]) \notin asked
    BY DEF HistoryInv, WalkInv
  <2>2. QED
    BY <1>1, <1>2, <2>1
<1>7. WalkInv'
  BY <1>1, <1>6, WalkKept DEF HistoryInv
<1>8. StoreInv' /\ ModeInv' /\ BoundsInv' /\ PickInv'
  BY <1>1, StoreKept DEF HistoryInv, ModeInv, BoundsInv, PickInv
<1>9. QED
  BY <1>5, <1>7, <1>8 DEF HistoryInv

\* Nothing but the requests on their way becomes less.
LEMMA SettledStep ==
  ASSUME HistoryInv, NEW key, asked' = asked \ {key}, BoundsInv',
         UNCHANGED <<mode, stored, venues, range, picked, pages, cursors, seen, known>>
  PROVE  HistoryInv'
<1>1. WalkInv'
  BY WalkKept DEF HistoryInv
<1>2. StoreInv' /\ PagesInv' /\ ModeInv' /\ PickInv'
  BY StoreKept, PagesKept DEF HistoryInv, ModeInv, PickInv
<1>3. QED
  BY <1>1, <1>2 DEF HistoryInv

LEMMA CountAnsweredStep ==
  ASSUME HistoryInv, NEW key \in asked, CountAnswered(key)
  PROVE  HistoryInv'
<1>1. /\ asked' = asked \ {key}
      /\ UNCHANGED <<mode, stored, venues, range, picked, pages, bounds, cursors, seen, known>>
  BY DEF CountAnswered, filterVars, walkVars
<1>2. BoundsInv'
  BY <1>1 DEF HistoryInv, BoundsInv
<1>3. QED
  BY <1>1, <1>2, SettledStep

LEMMA FailsStep ==
  ASSUME HistoryInv, NEW key \in asked, Fails(key)
  PROVE  HistoryInv'
<1>1. /\ asked' = asked \ {key}
      /\ UNCHANGED <<mode, stored, venues, range, picked, pages, bounds, cursors, seen, known>>
  BY DEF Fails, walkVars
<1>2. BoundsInv'
  BY <1>1 DEF HistoryInv, BoundsInv
<1>3. QED
  BY <1>1, <1>2, SettledStep

LEMMA BoundsAnsweredStep ==
  ASSUME HistoryInv, NEW key \in asked, BoundsAnswered(key)
  PROVE  HistoryInv'
<1> DEFINE rows == {row.ts : row \in {r \in stored : r.venue \in key[2]}}
           b == IF rows = {} THEN NoBounds
                ELSE [oldest |-> CHOOSE t \in rows : \A u \in rows : t <= u,
                      newest |-> CHOOSE t \in rows : \A u \in rows : t >= u]
<1>1. b \in KnownBounds
  BY BoundsAreRead DEF HistoryInv
<1>2. /\ UNCHANGED <<mode, stored, picked, pages>>
      /\ bounds' = IF key[2] # venues THEN bounds ELSE b
      /\ \/ Waits /\ SetFromBounds(b, asked \ {key})
         \/ asked' = asked \ {key} /\ UNCHANGED <<venues, range, cursors, seen, known>>
  BY DEF BoundsAnswered, walkVars
<1> HIDE DEF b
<1>3. BoundsInv'
  BY <1>1, <1>2 DEF HistoryInv, BoundsInv
<1>4. CASE Waits /\ SetFromBounds(b, asked \ {key})
  BY <1>2, <1>3, <1>4, SetFromBoundsStep
<1>5. CASE asked' = asked \ {key} /\ UNCHANGED <<venues, range, cursors, seen, known>>
  BY <1>2, <1>3, <1>5, SettledStep
<1>6. QED
  BY <1>2, <1>4, <1>5

LEMMA LiveBoundsAnsweredStep ==
  ASSUME HistoryInv, LiveBoundsAnswered
  PROVE  HistoryInv'
<1>1. /\ UNCHANGED <<mode, stored, picked, pages, bounds>> /\ Waits
      /\ \E b \in LiveBounds : SetFromBounds(b, asked)
  BY DEF LiveBoundsAnswered
<1>2. BoundsInv'
  BY <1>1 DEF HistoryInv, BoundsInv
<1>3. QED
  BY <1>1, <1>2, SetFromBoundsStep

-----------------------------------------------------------------------------
(* The theorems *)

LEMMA InitHolds ==
  ASSUME Init
  PROVE  HistoryInv
<1>1. ModeInv /\ BoundsInv /\ PickInv
  BY HistoryAssumption DEF Init, ModeInv, BoundsInv, PickInv, KnownBounds
<1>2. StoreInv
  BY FS_EmptySet DEF Init, StoreInv
<1>3. PagesInv
  BY DEF Init, PagesInv
<1>4. cursors \in Seq({None} \cup CursorPlaces) /\ Len(cursors) = 1 /\ cursors[1] = None
  BY DEF Init
<1>5. /\ \A i \in 2 .. Len(cursors) : i \in Int /\ FALSE
      /\ \A i \in 1 .. Len(cursors) - 1 : i \in Int /\ FALSE
  BY <1>4
<1>6. PagesFollowOn
  BY <1>5 DEF PagesFollowOn
<1>7. WalkInv
  BY <1>4, <1>5, <1>6 DEF Init, WalkInv
<1>8. QED
  BY <1>1, <1>2, <1>3, <1>7 DEF HistoryInv

LEMMA StepKeeps ==
  ASSUME HistoryInv, [Next]_vars
  PROVE  HistoryInv'
<1>1. CASE Write
  BY <1>1, WriteStep
<1>2. ASSUME NEW v \in VenueFilters, ChangeVenues(v) PROVE HistoryInv'
  BY <1>2, ChangeVenuesStep
<1>3. ASSUME NEW p \in Presets, ChangePreset(p) PROVE HistoryInv'
  BY <1>3, ChangePresetStep
<1>4. ASSUME NEW draft \in Drafts, ApplyRange(draft) PROVE HistoryInv'
  BY <1>4, ApplyRangeStep
<1>5. CASE NextPage
  BY <1>5, NextPageStep
<1>6. CASE PreviousPage
  BY <1>6, PreviousPageStep
<1>7. CASE Focus
  BY <1>7, FocusStep
<1>8. CASE Reopen
  BY <1>8, ReopenStep
<1>9. CASE LiveBoundsAnswered
  BY <1>9, LiveBoundsAnsweredStep
<1>10. ASSUME NEW key \in asked,
              PageAnswered(key) \/ CountAnswered(key) \/ BoundsAnswered(key) \/ Fails(key)
       PROVE  HistoryInv'
  BY <1>10, PageAnsweredStep, CountAnsweredStep, BoundsAnsweredStep, FailsStep
<1>11. CASE UNCHANGED vars
  <2>1. UNCHANGED <<mode, stored, venues, range, picked, pages, bounds, asked, cursors, seen, known>>
    BY <1>11 DEF vars, filterVars, queryVars, walkVars
  <2>2. WalkInv'
    BY <2>1, WalkKept DEF HistoryInv
  <2>3. StoreInv' /\ PagesInv' /\ ModeInv' /\ BoundsInv' /\ PickInv'
    BY <2>1, StoreKept, PagesKept DEF HistoryInv, ModeInv, BoundsInv, PickInv
  <2>4. QED
    BY <2>2, <2>3 DEF HistoryInv
<1>12. QED
  BY <1>1, <1>2, <1>3, <1>4, <1>5, <1>6, <1>7, <1>8, <1>9, <1>10, <1>11 DEF Next

\* The walk of a view goes down the store, no page below the one shown is asked
\* for, and the pages kept are whole down to where the next one begins.
THEOREM HistoryInvariance == Spec => []HistoryInv
<1>1. Init => HistoryInv
  BY InitHolds
<1>2. HistoryInv /\ [Next]_vars => HistoryInv'
  BY StepKeeps
<1>3. QED
  BY <1>1, <1>2, PTL DEF Spec

\* Whatever is written and read again in between, a trade the pages were read
\* with is on one of the pages walked through.
THEOREM NothingIsSkipped == Spec => []NothingSkipped
<1>1. HistoryInv => NothingSkipped
  <2> SUFFICES ASSUME HistoryInv, mode = "live", Len(cursors) > 1, NEW t \in known,
                      Where(Noted(t), Filter), ~ Older(Noted(t), Last(cursors))
               PROVE  \E told \in seen : told.uid = Noted(t).uid
    BY DEF NothingSkipped, Noted
  <2>1. /\ Len(cursors) \in 2 .. Len(cursors)
        /\ Last(cursors) = cursors[Len(cursors)]
    BY LenProperties DEF HistoryInv, WalkInv, Last
  <2>2. \E told \in seen : told.uid = UidOf(t)
    BY <2>1 DEF HistoryInv, WalkInv
  <2>3. Noted(t).uid = UidOf(t)
    BY RecordFacts DEF HistoryInv, WalkInv, Noted
  <2>4. QED
    BY <2>2, <2>3
<1>2. QED
  BY <1>1, HistoryInvariance, PTL

\* Prev leads back to the page Next was pressed on.
THEOREM PagesAreWalked == Spec => []PagesFollowOn
<1>1. HistoryInv => PagesFollowOn
  BY DEF HistoryInv, WalkInv
<1>2. QED
  BY <1>1, HistoryInvariance, PTL

\* A picked range, cut to the bounds and rounded to hours, loses no trade of
\* the hours picked.
THEOREM PickedRangeIsShown == Spec => []PickedIsShown
<1>1. HistoryInv => PickedIsShown
  <2> SUFFICES ASSUME HistoryInv, picked # None, NEW row \in stored,
                      HourOf(row.ts) \in picked.draft.start .. picked.draft.end,
                      Bounded(picked.bounds) => row.ts \in picked.bounds.oldest .. picked.bounds.newest
               PROVE  Where(row, [venues |-> {row.venue}, range |-> range])
    BY DEF PickedIsShown
  <2>1. row.ts \in Nat
    BY RecordFacts DEF HistoryInv, StoreInv, Recorded, Placed
  <2>2. /\ picked.draft \in Drafts /\ picked.bounds \in KnownBounds
        /\ range = RangeFromDraft(picked.draft, picked.bounds)
    BY DEF HistoryInv, PickInv
  <2>3. range.start <= row.ts /\ row.ts < range.end
    BY <2>1, <2>2, PickedRange
  <2>4. /\ range.start \in Int /\ range.end \in Int
    BY <2>1, <2>2, PickedRange
  <2>5. QED
    BY <2>1, <2>3, <2>4 DEF Where
<1>2. QED
  BY <1>1, HistoryInvariance, PTL

\* What is told of a stored trade is the trade.
THEOREM StoredIsToldAsTraded == Spec => []ToldAsTraded
<1>1. HistoryInv => ToldAsTraded
  <2> SUFFICES ASSUME HistoryInv, NEW key \in DOMAIN pages, NEW told \in pages[key].page.trades
               PROVE  \E t \in Trades :
                        /\ told.venue = t.venue /\ told.ts = t.ts /\ told.size = t.size
                        /\ told.tradeId = t.tradeId /\ told.indexPrice = t.indexPrice
    BY DEF ToldAsTraded
  <2>1. PICK t \in Trades, spot \in Spots : told = Told(Record(mode, t, spot))
    BY DEF HistoryInv, PagesInv, PageOf, Recorded
  <2>2. QED
    BY <2>1, ToldFacts DEF HistoryInv
<1>2. QED
  BY <1>1, HistoryInvariance, PTL

-------------------------------------------------------------------------------
(***************************************************************************)
(* The sum of a finite set's numbers.                                      *)
(***************************************************************************)

\* One step of the sum of values over subsets.
StepOf(values, iter, s) ==
  IF s = {} THEN 0 ELSE values[CHOOSE x \in s : TRUE] + iter[s \ {CHOOSE x \in s : TRUE}]

SumsTo(values, S, n, h) ==
  /\ h \in [{s \in SUBSET S : Cardinality(s) <= n} -> Int]
  /\ \A s \in SUBSET S : Cardinality(s) <= n => h[s] = StepOf(values, h, s)

\* Sums of the subsets of a size give those of the next.
LEMMA SumsGrow ==
  ASSUME NEW values, NEW S, IsFiniteSet(S), \A x \in S : values[x] \in Int,
         NEW n \in Nat, NEW h, SumsTo(values, S, n, h)
  PROVE  \E g : SumsTo(values, S, n + 1, g)
<1>. DEFINE Small(k) == {s \in SUBSET S : Cardinality(s) <= k}
            g == [s \in Small(n + 1) |-> IF Cardinality(s) <= n THEN h[s] ELSE StepOf(values, h, s)]
<1>1. \A s \in SUBSET S : IsFiniteSet(s) /\ Cardinality(s) \in Nat
  BY FS_Subset, FS_CardinalityType
<1>2. \A s \in SUBSET S : s # {} =>
        /\ (CHOOSE x \in s : TRUE) \in S
        /\ s \ {CHOOSE x \in s : TRUE} \in SUBSET S
        /\ Cardinality(s \ {CHOOSE x \in s : TRUE}) = Cardinality(s) - 1
  BY <1>1, FS_RemoveElement
<1>3. \A s \in Small(n) : h[s] \in Int
  BY DEF SumsTo
<1>4. ASSUME NEW s \in Small(n + 1)
      PROVE  g[s] \in Int /\ g[s] = StepOf(values, g, s)
  <2>. DEFINE x == CHOOSE y \in s : TRUE
  <2>1. CASE s = {}
    <3>1. Cardinality(s) = 0
      BY <2>1, FS_EmptySet
    <3>2. g[s] = h[s] /\ h[s] = StepOf(values, h, s)
      BY <3>1 DEF SumsTo
    <3>. QED  BY <2>1, <3>2 DEF StepOf
  <2>2. CASE s # {}
    <3>1. x \in S /\ s \ {x} \in SUBSET S /\ Cardinality(s \ {x}) = Cardinality(s) - 1
      BY <1>2, <2>2
    <3>2. Cardinality(s \ {x}) <= n /\ s \ {x} \in Small(n) /\ s \ {x} \in Small(n + 1)
      BY <1>1, <3>1
    <3>3. g[s \ {x}] = h[s \ {x}] /\ h[s \ {x}] \in Int
      BY <1>3, <3>2
    <3>4. StepOf(values, g, s) = values[x] + g[s \ {x}] /\ StepOf(values, h, s) = values[x] + h[s \ {x}]
      BY <2>2 DEF StepOf
    <3>5. Cardinality(s) <= n => h[s] = StepOf(values, h, s)
      BY DEF SumsTo
    <3>6. g[s] = StepOf(values, h, s)
      BY <3>5
    <3>7. values[x] \in Int
      BY <3>1
    <3>. QED  BY <3>3, <3>4, <3>6, <3>7
  <2>. QED  BY <2>1, <2>2
<1>5. g \in [Small(n + 1) -> Int]
  BY <1>4
<1>. QED  BY <1>4, <1>5 DEF SumsTo

LEMMA SumsExist ==
  ASSUME NEW values, NEW S, IsFiniteSet(S), \A x \in S : values[x] \in Int, NEW n \in Nat
  PROVE  \E h : SumsTo(values, S, n, h)
<1>. DEFINE Missing == {k \in Nat : ~ \E h : SumsTo(values, S, k, h)}
<1>1. \E h : SumsTo(values, S, 0, h)
  <2>. DEFINE h == [s \in {t \in SUBSET S : Cardinality(t) <= 0} |-> 0]
  <2>1. \A s \in SUBSET S : Cardinality(s) <= 0 => s = {}
    BY FS_Subset, FS_CardinalityType, FS_EmptySet
  <2>2. SumsTo(values, S, 0, h)
    BY <2>1 DEF SumsTo, StepOf
  <2>. QED  BY <2>2
<1>2. ASSUME Missing # {} PROVE FALSE
  <2>1. PICK k \in Missing : \A m \in Missing : k <= m
    BY <1>2, LeastNatural
  <2>2. k \in Nat /\ k # 0
    BY <1>1
  <2>3. k - 1 \in Nat /\ k - 1 \notin Missing
    BY <2>1, <2>2
  <2>4. PICK h : SumsTo(values, S, k - 1, h)
    BY <2>3
  <2>5. \E g : SumsTo(values, S, (k - 1) + 1, g)
    BY <2>3, <2>4, SumsGrow
  <2>. QED  BY <2>1, <2>2, <2>5
<1>. QED  BY <1>2

Total(values, S) == MapThenSumSet(LAMBDA i : values[i], S)

Stepped(values, S, sum) ==
  /\ \A x \in S : values[x] \in Int
  /\ \A s \in SUBSET S : sum[s] = StepOf(values, sum, s)

\* The sum is taken element by element.
LEMMA SumIsStepped ==
  ASSUME NEW values, NEW S, IsFiniteSet(S), \A x \in S : values[x] \in Int
  PROVE  \E sum : Stepped(values, S, sum) /\ Total(values, S) = sum[S]
<1>. DEFINE Good(iter) == iter = [s \in SUBSET S |-> StepOf(values, iter, s)]
            sum == CHOOSE iter : Good(iter)
<1>1. Total(values, S) = sum[S]
  BY DEF Total, MapThenSumSet, MapThenFoldSet, StepOf
<1>2. \A s \in SUBSET S : IsFiniteSet(s) /\ Cardinality(s) \in Nat /\ Cardinality(s) <= Cardinality(S)
  BY FS_Subset, FS_CardinalityType
<1>3. \E iter : Good(iter)
  <2>1. PICK h : SumsTo(values, S, Cardinality(S), h)
    BY <1>2, SumsExist
  <2>2. {s \in SUBSET S : Cardinality(s) <= Cardinality(S)} = SUBSET S
    BY <1>2
  <2>3. h \in [SUBSET S -> Int] /\ \A s \in SUBSET S : h[s] = StepOf(values, h, s)
    BY <1>2, <2>1, <2>2 DEF SumsTo
  <2>4. Good(h)
    BY <2>3
  <2>. QED  BY <2>4
<1>4. Good(sum)
  BY <1>3
<1>. HIDE DEF sum
<1>. QED  BY <1>1, <1>4 DEF Stepped

\* The sum of whole numbers is one.
LEMMA SumIsWhole ==
  ASSUME NEW values, NEW S, IsFiniteSet(S), \A x \in S : values[x] \in Int
  PROVE  Total(values, S) \in Int
<1>1. PICK sum : Stepped(values, S, sum) /\ Total(values, S) = sum[S]
  BY SumIsStepped
<1>2. \A s \in SUBSET S : IsFiniteSet(s) /\ Cardinality(s) \in Nat
  BY FS_Subset, FS_CardinalityType
<1>. DEFINE Bad == {Cardinality(s) : s \in {t \in SUBSET S : sum[t] \notin Int}}
<1>3. ASSUME Bad # {} PROVE FALSE
  <2>1. Bad \subseteq Nat
    BY <1>2
  <2>2. PICK k \in Bad : \A m \in Bad : k <= m
    BY <1>3, <2>1, LeastNatural
  <2>3. PICK s \in SUBSET S : sum[s] \notin Int /\ k = Cardinality(s)
    BY <2>2
  <2>4. s # {}
    BY <1>1, <2>3 DEF Stepped, StepOf
  <2>. DEFINE x == CHOOSE y \in s : TRUE
  <2>5. x \in S /\ s \ {x} \in SUBSET S /\ Cardinality(s \ {x}) = Cardinality(s) - 1
    BY <1>2, <2>4, FS_RemoveElement
  <2>6. sum[s] = values[x] + sum[s \ {x}]
    BY <1>1, <2>4 DEF Stepped, StepOf
  <2>7. sum[s \ {x}] \notin Int
    BY <2>3, <2>5, <2>6
  <2>8. Cardinality(s \ {x}) \in Bad
    BY <2>5, <2>7
  <2>9. k <= Cardinality(s) - 1
    BY <2>2, <2>5, <2>8
  <2>. QED  BY <1>2, <2>3, <2>9
<1>. QED  BY <1>1, <1>3

-------------------------------------------------------------------------------
(***************************************************************************)
(* The projection.                                                         *)
(***************************************************************************)
EnrichedOf(chains, rows) == [s \in DOMAIN rows |-> EnrichComparisonRow(chains, rows[s])]

\* The chains are as an adapter's whatever the deltas have made of them, and
\* what is kept of them beside the contracts is what a snapshot would make.
ProjectionInv ==
  /\ rebuilding \in BOOLEAN
  /\ IsChains(venueChains)
  /\ ~rebuilding =>
       /\ comparisonRows = BuildComparisonChain(venueChains)
       /\ enrichedStrikes = EnrichedOf(venueChains, comparisonRows)
       /\ shown = BuildEnrichedChain(venueChains, comparisonRows)

\* Deltas change quotes and greeks, and nothing else of a contract.
LEMMA OverContractKeeps ==
  ASSUME NEW c, IsContract(c), NEW d \in Deltas
  PROVE  /\ IsContract(OverContract(d, c))
         /\ OverContract(d, c).symbol = c.symbol
         /\ OverContract(d, c).strike = c.strike
         /\ OverContract(d, c).right = c.right
<1>. DEFINE o == OverContract(d, c)
<1>1. DOMAIN o = DOMAIN c /\ o.symbol = c.symbol /\ o.strike = c.strike /\ o.right = c.right
  BY DEF OverContract, IsContract
<1>2. o.quote = Over(d.quote, c.quote) /\ o.greeks = Over(d.greeks, c.greeks)
  BY DEF OverContract, IsContract
<1>3. \A f \in DOMAIN c.quote : Over(d.quote, c.quote)[f] \in Number
  BY DeltasAssumption DEF Over, IsContract
<1>4. \A f \in DOMAIN c.greeks : Over(d.greeks, c.greeks)[f] \in Number
  BY DeltasAssumption DEF Over, IsContract
<1>5. DOMAIN Over(d.quote, c.quote) = DOMAIN c.quote /\ DOMAIN Over(d.greeks, c.greeks) = DOMAIN c.greeks
  BY DEF Over
<1>. HIDE DEF o
<1>6. IsContract(o)
  BY <1>1, <1>2, <1>3, <1>4, <1>5 DEF IsContract
<1>. QED  BY <1>1, <1>6 DEF o

Batch(deltas) == \A n \in DOMAIN deltas : deltas[n] \in Deltas

LEMMA AppliedKeeps ==
  ASSUME NEW chains, IsChains(chains), NEW deltas, Batch(deltas)
  PROVE  /\ DOMAIN Applied(chains, deltas) = DOMAIN chains
         /\ \A v \in DOMAIN chains :
              /\ DOMAIN Applied(chains, deltas)[v] = DOMAIN chains[v]
              /\ \A j \in DOMAIN chains[v] :
                   /\ IsContract(Applied(chains, deltas)[v][j])
                   /\ Applied(chains, deltas)[v][j].symbol = chains[v][j].symbol
                   /\ Applied(chains, deltas)[v][j].strike = chains[v][j].strike
                   /\ Applied(chains, deltas)[v][j].right = chains[v][j].right
<1>. DEFINE Own(v, j) == {n \in DOMAIN deltas :
                            deltas[n].venue = v /\ deltas[n].symbol = chains[v][j].symbol}
<1>1. /\ DOMAIN Applied(chains, deltas) = DOMAIN chains
      /\ \A v \in DOMAIN chains :
           /\ DOMAIN Applied(chains, deltas)[v] = DOMAIN chains[v]
           /\ \A j \in DOMAIN chains[v] :
                Applied(chains, deltas)[v][j] =
                  IF Own(v, j) = {} THEN chains[v][j]
                  ELSE OverContract(deltas[CHOOSE n \in Own(v, j) : TRUE], chains[v][j])
  BY DEF Applied
<1>2. ASSUME NEW v \in DOMAIN chains, NEW j \in DOMAIN chains[v]
      PROVE  /\ IsContract(Applied(chains, deltas)[v][j])
             /\ Applied(chains, deltas)[v][j].symbol = chains[v][j].symbol
             /\ Applied(chains, deltas)[v][j].strike = chains[v][j].strike
             /\ Applied(chains, deltas)[v][j].right = chains[v][j].right
  <2>0. IsContract(chains[v][j])
    BY DEF IsChains
  <2>1. CASE Own(v, j) = {}
    BY <1>1, <2>0, <2>1
  <2>2. CASE Own(v, j) # {}
    <3>. DEFINE n == CHOOSE m \in Own(v, j) : TRUE
    <3>1. n \in Own(v, j)
      BY <2>2
    <3>2. deltas[n] \in Deltas
      BY <3>1 DEF Batch
    <3>3. Applied(chains, deltas)[v][j] = OverContract(deltas[n], chains[v][j])
      BY <1>1, <2>2
    <3>. HIDE DEF n
    <3>. QED  BY <2>0, <3>2, <3>3, OverContractKeeps
  <2>. QED  BY <2>1, <2>2
<1>. QED  BY <1>1, <1>2

LEMMA AppliedIsChains ==
  ASSUME NEW chains, IsChains(chains), NEW deltas, Batch(deltas)
  PROVE  IsChains(Applied(chains, deltas))
<1>. DEFINE new == Applied(chains, deltas)
<1>1. /\ DOMAIN new = DOMAIN chains
      /\ \A v \in DOMAIN chains :
           /\ DOMAIN new[v] = DOMAIN chains[v]
           /\ \A j \in DOMAIN chains[v] :
                IsContract(new[v][j]) /\ new[v][j].symbol = chains[v][j].symbol
  BY AppliedKeeps
<1>. HIDE DEF new
<1>. QED  BY <1>1 DEF IsChains, new

\* A snapshot would put the contracts at the same places of the same rows.
LEMMA RowsKept ==
  ASSUME NEW chains, IsChains(chains), NEW deltas, Batch(deltas)
  PROVE  BuildComparisonChain(Applied(chains, deltas)) = BuildComparisonChain(chains)
<1>. DEFINE new == Applied(chains, deltas)
<1>1. /\ DOMAIN new = DOMAIN chains
      /\ \A v \in DOMAIN chains :
           /\ DOMAIN new[v] = DOMAIN chains[v]
           /\ \A j \in DOMAIN chains[v] :
                new[v][j].strike = chains[v][j].strike /\ new[v][j].right = chains[v][j].right
  BY AppliedKeeps
<1>. HIDE DEF new
<1>2. \A v \in DOMAIN chains : {new[v][j].strike : j \in DOMAIN new[v]} = {chains[v][j].strike : j \in DOMAIN chains[v]}
  BY <1>1
<1>3. {{new[v][j].strike : j \in DOMAIN new[v]} : v \in DOMAIN new}
        = {{chains[v][j].strike : j \in DOMAIN chains[v]} : v \in DOMAIN chains}
  BY <1>1, <1>2
<1>4. Strikes(new) = Strikes(chains)
  BY <1>3 DEF Strikes
<1>5. \A v \in DOMAIN chains : \A s, r : Places(new[v], s, r) = Places(chains[v], s, r)
  BY <1>1 DEF Places
<1>. DEFINE At(cs, s, r) == [v \in {w \in DOMAIN cs : Places(cs[w], s, r) # {}} |-> Max(Places(cs[v], s, r))]
<1>6. ASSUME NEW s, NEW r PROVE At(new, s, r) = At(chains, s, r)
  <2>1. {w \in DOMAIN new : Places(new[w], s, r) # {}} = {w \in DOMAIN chains : Places(chains[w], s, r) # {}}
    BY <1>1, <1>5
  <2>2. \A v \in DOMAIN chains : Max(Places(new[v], s, r)) = Max(Places(chains[v], s, r))
    BY <1>5
  <2>. QED  BY <2>1, <2>2
<1>7. \A cs : BuildComparisonChain(cs) = [s \in Strikes(cs) |-> [r \in Sides |-> At(cs, s, r)]]
  BY DEF BuildComparisonChain
<1>. HIDE DEF At
<1>. QED  BY <1>4, <1>6, <1>7 DEF new

\* The place of a venue in a row is that of a contract at the row's strike.
LEMMA RowPlaces ==
  ASSUME NEW chains, IsChains(chains), NEW s \in Strikes(chains), NEW r \in Sides,
         NEW v \in DOMAIN BuildComparisonChain(chains)[s][r]
  PROVE  LET j == BuildComparisonChain(chains)[s][r][v]
         IN v \in DOMAIN chains /\ j \in DOMAIN chains[v] /\ chains[v][j].strike = s
<1>1. /\ v \in DOMAIN chains /\ Places(chains[v], s, r) # {}
      /\ BuildComparisonChain(chains)[s][r][v] = Max(Places(chains[v], s, r))
  BY DEF BuildComparisonChain
<1>2. Places(chains[v], s, r) \subseteq DOMAIN chains[v]
  BY DEF Places
<1>3. Places(chains[v], s, r) \subseteq Int /\ IsFiniteSet(Places(chains[v], s, r))
  BY <1>1, <1>2, FS_Subset DEF IsChains
<1>4. Max(Places(chains[v], s, r)) \in Places(chains[v], s, r)
  BY <1>1, <1>3, FiniteMax
<1>. QED  BY <1>1, <1>4 DEF Places

\* Where no delta's contract is, enriching gives what it gave.
LEMMA OthersKept ==
  ASSUME NEW chains, IsChains(chains), NEW deltas, Batch(deltas), NEW s \in Strikes(chains),
         s \notin ChangedStrikes(Applied(chains, deltas), deltas)
  PROVE  LET row == BuildComparisonChain(chains)[s]
         IN EnrichComparisonRow(Applied(chains, deltas), row) = EnrichComparisonRow(chains, row)
<1>. DEFINE new == Applied(chains, deltas)
            row == BuildComparisonChain(chains)[s]
<1>1. ASSUME NEW r \in Sides, NEW v \in DOMAIN row[r]
      PROVE  ContractAt(new, row, r, v) = ContractAt(chains, row, r, v)
  <2>. DEFINE j == row[r][v]
              own == {n \in DOMAIN deltas : deltas[n].venue = v /\ deltas[n].symbol = chains[v][j].symbol}
  <2>1. v \in DOMAIN chains /\ j \in DOMAIN chains[v] /\ chains[v][j].strike = s
    BY RowPlaces
  <2>2. ASSUME own # {} PROVE FALSE
    <3>1. PICK n \in DOMAIN deltas : deltas[n].venue = v /\ deltas[n].symbol = chains[v][j].symbol
      BY <2>2
    <3>2. /\ DOMAIN new[v] = DOMAIN chains[v]
          /\ \A k \in DOMAIN chains[v] : /\ new[v][k].symbol = chains[v][k].symbol
                                         /\ new[v][k].strike = chains[v][k].strike
      BY <2>1, AppliedKeeps
    <3>. HIDE DEF new, j, row
    <3>3. \A k \in DOMAIN chains[v] : chains[v][k].symbol = chains[v][j].symbol => k = j
      BY <2>1 DEF IsChains
    <3>. DEFINE k == CHOOSE i \in DOMAIN new[v] : new[v][i].symbol = deltas[n].symbol
    <3>4. k \in DOMAIN new[v] /\ new[v][k].symbol = deltas[n].symbol
      BY <2>1, <3>1, <3>2
    <3>5. k = j
      BY <3>1, <3>2, <3>3, <3>4
    <3>6. StrikeOf(new, deltas[n]) = new[v][k].strike
      BY <3>1 DEF StrikeOf
    <3>7. StrikeOf(new, deltas[n]) = s
      BY <2>1, <3>2, <3>5, <3>6
    <3>. QED  BY <3>7 DEF ChangedStrikes, new
  <2>3. new[v][j] = IF own = {} THEN chains[v][j] ELSE OverContract(deltas[CHOOSE n \in own : TRUE], chains[v][j])
    BY <2>1 DEF Applied
  <2>. QED  BY <2>2, <2>3 DEF ContractAt
<1>. HIDE DEF new, row
<1>2. ASSUME NEW r \in Sides
      PROVE  BuildEnrichedSide(new, row, r) = BuildEnrichedSide(chains, row, r)
  <2>1. [v \in DOMAIN row[r] |-> ContractToVenueQuote(ContractAt(new, row, r, v))]
          = [v \in DOMAIN row[r] |-> ContractToVenueQuote(ContractAt(chains, row, r, v))]
    BY <1>1
  <2>. QED  BY <2>1 DEF BuildEnrichedSide
<1>3. EnrichComparisonRow(new, row) = EnrichComparisonRow(chains, row)
  BY <1>2 DEF EnrichComparisonRow
<1>. QED  BY <1>3 DEF new, row

LEMMA BatchOfDeltas ==
  ASSUME NEW deltas \in Batches
  PROVE  /\ Batch(deltas)
         /\ \A n \in DOMAIN deltas : Batch(SubSeq(deltas, 1, n - 1))
<1>1. PICK k \in 1..MaxDeltas : deltas \in [1..k -> Deltas]
  BY DEF Batches
<1>2. Batch(deltas)
  BY <1>1 DEF Batch
<1>3. ASSUME NEW n \in DOMAIN deltas PROVE Batch(SubSeq(deltas, 1, n - 1))
  <2>1. SubSeq(deltas, 1, n - 1) = [i \in 1..(n - 1) |-> deltas[i]]
    BY <1>1
  <2>2. \A i \in 1..(n - 1) : i \in DOMAIN deltas
    BY <1>1
  <2>. QED  BY <1>2, <2>1, <2>2 DEF Batch
<1>. QED  BY <1>2, <1>3

LEMMA LoadKeeps ==
  ASSUME NEW chains \in Snapshots, Load(chains)
  PROVE  ProjectionInv'
<1>1. IsChains(chains)
  BY ChainsAssumption
<1>. QED  BY <1>1 DEF Load, ProjectionInv, EnrichedOf

LEMMA PushDeltaKeeps ==
  ASSUME ProjectionInv, NEW deltas \in Batches, PushDelta(deltas)
  PROVE  ProjectionInv'
<1>. DEFINE new == Applied(venueChains, deltas)
            changed == ChangedStrikes(new, deltas)
            patch == [s \in changed |-> EnrichComparisonRow(new, comparisonRows[s])]
            all == [s \in DOMAIN enrichedStrikes |->
                      IF s \in changed THEN patch[s] ELSE enrichedStrikes[s]]
<1>1. Batch(deltas)
  BY BatchOfDeltas
<1>2. venueChains' = new /\ IsChains(new)
  BY <1>1, AppliedIsChains DEF PushDelta, ApplyDeltas, ProjectionInv
<1>3. UNCHANGED <<comparisonRows, rebuilding>>
  BY DEF PushDelta, ApplyDeltas
<1>4. ASSUME ~rebuilding
      PROVE  /\ comparisonRows' = BuildComparisonChain(new)
             /\ enrichedStrikes' = EnrichedOf(new, comparisonRows)
             /\ shown' = BuildEnrichedChain(new, comparisonRows)
  <2>1. /\ IsChains(venueChains)
        /\ comparisonRows = BuildComparisonChain(venueChains)
        /\ enrichedStrikes = EnrichedOf(venueChains, comparisonRows)
        /\ shown = BuildEnrichedChain(venueChains, comparisonRows)
    BY <1>4 DEF ProjectionInv
  <2>2. BuildComparisonChain(new) = comparisonRows
    BY <1>1, <2>1, RowsKept
  <2>3. DOMAIN comparisonRows = Strikes(venueChains)
    BY <2>1 DEF BuildComparisonChain
  <2>4. ASSUME NEW s \in DOMAIN comparisonRows, s \notin changed
        PROVE  EnrichComparisonRow(new, comparisonRows[s]) = EnrichComparisonRow(venueChains, comparisonRows[s])
    BY <1>1, <2>1, <2>3, <2>4, OthersKept
  <2>5. DOMAIN enrichedStrikes = DOMAIN comparisonRows
        /\ \A s \in DOMAIN comparisonRows : enrichedStrikes[s] = EnrichComparisonRow(venueChains, comparisonRows[s])
    BY <2>1 DEF EnrichedOf
  <2>6. \A s \in DOMAIN comparisonRows :
          (IF s \in changed THEN patch[s] ELSE enrichedStrikes[s]) = EnrichComparisonRow(new, comparisonRows[s])
    BY <2>4, <2>5
  <2>7. all = EnrichedOf(new, comparisonRows)
    BY <2>5, <2>6 DEF EnrichedOf
  <2>8. shown.strikes = enrichedStrikes
    BY <2>1 DEF BuildEnrichedChain, EnrichedOf
  <2>9. /\ enrichedStrikes' = all
        /\ shown' = [strikes |-> [s \in DOMAIN shown.strikes |->
                                    IF s \in changed THEN patch[s] ELSE shown.strikes[s]],
                     stats |-> ComputeChainStats(all, new),
                     gex |-> ComputeGex(new, comparisonRows, all, SpotPrice(ComputeChainStats(all, new)))]
    BY DEF PushDelta, ApplyDeltas
  <2>10. shown' = [strikes |-> all, stats |-> ComputeChainStats(all, new),
                   gex |-> ComputeGex(new, comparisonRows, all, SpotPrice(ComputeChainStats(all, new)))]
    <3>1. [s \in DOMAIN shown.strikes |-> IF s \in changed THEN patch[s] ELSE shown.strikes[s]] = all
      BY <2>8
    <3>. HIDE DEF all, patch, changed, new
    <3>. QED  BY <2>9, <3>1
  <2>11. BuildEnrichedChain(new, comparisonRows)
           = [strikes |-> EnrichedOf(new, comparisonRows),
              stats |-> ComputeChainStats(EnrichedOf(new, comparisonRows), new),
              gex |-> ComputeGex(new, comparisonRows, EnrichedOf(new, comparisonRows),
                                 SpotPrice(ComputeChainStats(EnrichedOf(new, comparisonRows), new)))]
    BY DEF BuildEnrichedChain, EnrichedOf
  <2>. HIDE DEF all, patch, changed, new
  <2>. QED  BY <1>3, <2>2, <2>7, <2>9, <2>10, <2>11
<1>. HIDE DEF new
<1>. QED  BY <1>2, <1>3, <1>4 DEF ProjectionInv

LEMMA PushUnknownKeeps ==
  ASSUME ProjectionInv, NEW deltas \in Batches, PushUnknown(deltas)
  PROVE  ProjectionInv'
<1>1. PICK n \in DOMAIN deltas :
        venueChains' = Applied(venueChains, SubSeq(deltas, 1, n - 1)) /\ rebuilding' = TRUE
  BY DEF PushUnknown
<1>2. Batch(SubSeq(deltas, 1, n - 1))
  BY BatchOfDeltas
<1>3. IsChains(venueChains')
  BY <1>1, <1>2, AppliedIsChains DEF ProjectionInv
<1>. QED  BY <1>1, <1>3 DEF ProjectionInv

THEOREM ProjectionInvariance == ProjectionSpec => []ProjectionInv
<1>1. ProjectionInit => ProjectionInv
  <2>1. DOMAIN <<>> = {}
    OBVIOUS
  <2>2. IsChains(<<>>)
    BY <2>1, FS_EmptySet DEF IsChains
  <2>. QED  BY <2>2 DEF ProjectionInit, ProjectionInv
<1>2. ProjectionInv /\ [ProjectionNext]_projectionVars => ProjectionInv'
  <2>. SUFFICES ASSUME ProjectionInv, [ProjectionNext]_projectionVars PROVE ProjectionInv'
    OBVIOUS
  <2>1. CASE LoadSnapshot
    BY <2>1, LoadKeeps DEF LoadSnapshot
  <2>2. CASE Resync
    BY <2>2 DEF Resync, ProjectionInv
  <2>3. ASSUME NEW deltas \in Batches, PushDelta(deltas) PROVE ProjectionInv'
    BY <2>3, PushDeltaKeeps
  <2>4. ASSUME NEW deltas \in Batches, PushUnknown(deltas) PROVE ProjectionInv'
    BY <2>4, PushUnknownKeeps
  <2>5. CASE UNCHANGED projectionVars
    BY <2>5 DEF projectionVars, ProjectionInv
  <2>. QED  BY <2>1, <2>2, <2>3, <2>4, <2>5 DEF ProjectionNext
<1>. QED  BY <1>1, <1>2, PTL DEF ProjectionSpec

THEOREM PatchesRebuild == ProjectionSpec => []PatchedIsRebuilt
<1>1. ProjectionInv => PatchedIsRebuilt
  BY DEF ProjectionInv, PatchedIsRebuilt
<1>. QED  BY <1>1, ProjectionInvariance, PTL

-------------------------------------------------------------------------------
(***************************************************************************)
(* The strategy builder.                                                   *)
(***************************************************************************)
LegFields == {"type", "direction", "strike", "expiry", "quantity"}

\* The legs are those of the card, of one expiry, their strikes in the order
\* of the card's offsets.
OfCard(legs, a) ==
  LET card == TemplateCards[a.template]
  IN /\ DOMAIN legs = DOMAIN card
     /\ \A i \in DOMAIN card :
          /\ LegFields \subseteq DOMAIN legs[i]
          /\ legs[i].type = card[i].type
          /\ legs[i].direction = IF card[i].with THEN a.direction ELSE Against(a.direction)
          /\ legs[i].quantity = card[i].quantity
          /\ legs[i].strike \in Int
     /\ \A i, j \in DOMAIN card :
          /\ legs[i].expiry = legs[j].expiry
          /\ legs[i].strike < legs[j].strike <=> card[i].offset < card[j].offset
     /\ a.strikes = {legs[i].strike : i \in DOMAIN legs}

\* A template that is on the board is there as its card says, for the
\* underlying of the page; a link is read before anything else is done.
BuilderInv ==
  /\ underlying \in Underlyings /\ activeVenues \in VenueSets
  /\ builderExpiry \in Dates \cup {None}
  /\ \A key \in DOMAIN cache : cache[key] \in DOMAIN Contents
  /\ held \in DOMAIN Contents \cup {None}
  /\ link \in Links \cup {None}
  /\ DOMAIN strategy = {"underlying", "legs"}
  /\ link # None => pending /\ applied = None
  /\ applied # None =>
       /\ applied.template \in DOMAIN TemplateCards
       /\ applied.direction \in {"buy", "sell"}
       /\ strategy.underlying = underlying
       /\ OfCard(strategy.legs, applied)

IsChain(chain) ==
  /\ DOMAIN chain.strikes \subseteq Int /\ IsFiniteSet(DOMAIN chain.strikes)
  /\ {chain.stats.spotIndexUsd, chain.stats.indexPriceUsd} \subseteq Number

LEMMA MinMaxOfTwo ==
  ASSUME NEW a \in Int, NEW b \in Int
  PROVE  /\ Min({a, b}) = IF a <= b THEN a ELSE b
         /\ Max({a, b}) = IF a <= b THEN b ELSE a
<1>. DEFINE S == {a, b}
<1>1. S \subseteq Int /\ IsFiniteSet(S) /\ S # {}
  <2>1. S = ({} \cup {a}) \cup {b}
    OBVIOUS
  <2>2. IsFiniteSet({} \cup {a})
    BY FS_EmptySet, FS_AddElement
  <2>. QED  BY <2>1, <2>2, FS_AddElement
<1>2. Min(S) \in S /\ (\A y \in S : Min(S) <= y) /\ Max(S) \in S /\ (\A y \in S : y <= Max(S))
  BY <1>1, FiniteMin, FiniteMax
<1>3. (Min(S) = a \/ Min(S) = b) /\ Min(S) <= a /\ Min(S) <= b
  BY <1>2
<1>4. (Max(S) = a \/ Max(S) = b) /\ a <= Max(S) /\ b <= Max(S)
  BY <1>2
<1>. QED  BY <1>3, <1>4

\* Each rank is a strike's, and one's only: as many strikes as ranks, all different.
LEMMA RankOnto ==
  ASSUME NEW S, S \subseteq Int, IsFiniteSet(S), NEW r \in 1..Cardinality(S)
  PROVE  \E s \in S : Cardinality(UpTo(S, s)) = r
<1>. DEFINE T == 1..Cardinality(S)
            f == [s \in S |-> Cardinality(UpTo(S, s))]
<1>1. Cardinality(S) \in Nat
  BY FS_CardinalityType
<1>2. f \in [S -> T]
  BY RankType
<1>3. ASSUME NEW s \in S, NEW t \in S, s # t PROVE f[s] # f[t]
  <2>1. s < t \/ t < s
    BY <1>3
  <2>2. s < t => Cardinality(UpTo(S, s)) < Cardinality(UpTo(S, t))
    BY BelowGrows
  <2>3. t < s => Cardinality(UpTo(S, t)) < Cardinality(UpTo(S, s))
    BY BelowGrows
  <2>4. f[s] = Cardinality(UpTo(S, s)) /\ f[t] = Cardinality(UpTo(S, t))
    OBVIOUS
  <2>5. Cardinality(UpTo(S, s)) \in Int /\ Cardinality(UpTo(S, t)) \in Int
    <3>1. Cardinality(UpTo(S, s)) \in T /\ Cardinality(UpTo(S, t)) \in T
      BY RankType
    <3>. QED  BY <1>1, <3>1
  <2>. HIDE DEF f
  <2>. QED  BY <2>1, <2>2, <2>3, <2>4, <2>5
<1>4. f \in Injection(S, T)
  BY <1>2, <1>3 DEF Injection, IsInjective
<1>5. IsFiniteSet(T) /\ Cardinality(T) = Cardinality(S)
  BY <1>1, FS_Interval
<1>6. f \in Surjection(S, T)
  BY <1>4, <1>5, FS_Injection
<1>. HIDE DEF f
<1>7. \E s \in S : f[s] = r
  BY <1>6 DEF Surjection
<1>. QED  BY <1>7 DEF f

LEMMA RankOrders ==
  ASSUME NEW chain, IsChain(chain), NEW s \in DOMAIN chain.strikes, NEW t \in DOMAIN chain.strikes
  PROVE  /\ Rank(chain, s) \in Ranks(chain) /\ Rank(chain, s) \in Int
         /\ s < t <=> Rank(chain, s) < Rank(chain, t)
<1>. DEFINE S == DOMAIN chain.strikes
<1>1. S \subseteq Int /\ IsFiniteSet(S)
  BY DEF IsChain
<1>2. Rank(chain, s) = Cardinality(UpTo(S, s)) /\ Rank(chain, t) = Cardinality(UpTo(S, t))
  BY DEF Rank, UpTo
<1>3. /\ Cardinality(UpTo(S, s)) \in 1..Cardinality(S) /\ Cardinality(UpTo(S, t)) \in 1..Cardinality(S)
      /\ Cardinality(S) \in Nat
  BY <1>1, RankType
<1>4. s < t => Cardinality(UpTo(S, s)) < Cardinality(UpTo(S, t))
  BY <1>1, BelowGrows
<1>5. t < s => Cardinality(UpTo(S, t)) < Cardinality(UpTo(S, s))
  BY <1>1, BelowGrows
<1>6. s \in Int /\ t \in Int /\ (s < t \/ t < s \/ s = t)
  BY <1>1
<1>. QED  BY <1>2, <1>3, <1>4, <1>5, <1>6 DEF Ranks

\* The offset strike of a template that the chain covers is so many ranks on.
LEMMA OffsetStrikeIs ==
  ASSUME NEW chain, IsChain(chain), NEW atm \in DOMAIN chain.strikes, NEW offset \in Int,
         Rank(chain, atm) + offset \in Ranks(chain)
  PROVE  /\ OffsetStrike(chain, atm, offset) \in DOMAIN chain.strikes
         /\ Rank(chain, OffsetStrike(chain, atm, offset)) = Rank(chain, atm) + offset
<1>. DEFINE S == DOMAIN chain.strikes
            N == Cardinality(S)
            r == Rank(chain, atm) + offset
<1>1. S \subseteq Int /\ IsFiniteSet(S) /\ N \in Nat
  BY FS_CardinalityType DEF IsChain
<1>2. Rank(chain, atm) \in Int
  BY RankOrders
<1>3. r \in 1..N /\ r \in Int
  BY <1>1, <1>2 DEF Ranks
<1>4. Min({N, r}) = r
  BY <1>1, <1>3, MinMaxOfTwo
<1>5. Max({1, r}) = r
  <2>1. 1 <= r
    BY <1>1, <1>3
  <2>. HIDE DEF r
  <2>2. \A a \in Int : a <= r => Max({a, r}) = r
    BY <1>3, MinMaxOfTwo
  <2>. QED  BY <2>1, <2>2
<1>6. OffsetStrike(chain, atm, offset) = CHOOSE s \in S : Rank(chain, s) = r
  BY <1>4, <1>5 DEF OffsetStrike
<1>7. \E s \in S : Rank(chain, s) = r
  <2>1. PICK s \in S : Cardinality(UpTo(S, s)) = r
    BY <1>1, <1>3, RankOnto
  <2>. QED  BY <2>1 DEF Rank, UpTo
<1>. QED  BY <1>6, <1>7

LEMMA AtmIsListed ==
  ASSUME NEW chain, IsChain(chain), DOMAIN chain.strikes # {}
  PROVE  FindAtmStrike(chain) \in DOMAIN chain.strikes
<1>. DEFINE p == OrElse(chain.stats.indexPriceUsd, OrElse(chain.stats.spotIndexUsd, 70000))
<1>1. p \in Int
  BY DEF IsChain, OrElse, Number
<1>2. \E s \in DOMAIN chain.strikes : \A t \in DOMAIN chain.strikes :
        Distance(s, p) < Distance(t, p) \/ (Distance(s, p) = Distance(t, p) /\ s <= t)
  BY <1>1, ClosestExists DEF IsChain
<1>. QED  BY <1>2 DEF FindAtmStrike, Closest

TemplateNames == {"Call", "Put", "CallSpread", "PutSpread", "Straddle", "Strangle", "IronCondor",
                  "Butterfly"}

LEMMA CardIs ==
  ASSUME NEW t \in DOMAIN TemplateCards
  PROVE  /\ t \in TemplateNames
         /\ \E n \in 1..4 : DOMAIN TemplateCards[t] = 1..n
         /\ \A i \in DOMAIN TemplateCards[t] : TemplateCards[t][i].offset \in Int
<1>1. t \in TemplateNames
  BY DEF TemplateCards, TemplateNames
<1>2. CASE t \in {"Call", "Put"}
  <2>1. DOMAIN TemplateCards[t] = 1..1 /\ TemplateCards[t][1].offset \in Int
    BY <1>2 DEF TemplateCards, Part
  <2>. QED  BY <1>1, <2>1
<1>3. CASE t \in {"CallSpread", "PutSpread", "Straddle", "Strangle"}
  <2>1. DOMAIN TemplateCards[t] = 1..2 /\ TemplateCards[t][1].offset \in Int
        /\ TemplateCards[t][2].offset \in Int
    BY <1>3 DEF TemplateCards, Part
  <2>. QED  BY <1>1, <2>1
<1>4. CASE t = "Butterfly"
  <2>1. DOMAIN TemplateCards[t] = 1..3 /\ TemplateCards[t][1].offset \in Int
        /\ TemplateCards[t][2].offset \in Int /\ TemplateCards[t][3].offset \in Int
    BY <1>4 DEF TemplateCards, Part
  <2>. QED  BY <1>1, <2>1
<1>5. CASE t = "IronCondor"
  <2>1. DOMAIN TemplateCards[t] = 1..4 /\ TemplateCards[t][1].offset \in Int
        /\ TemplateCards[t][2].offset \in Int /\ TemplateCards[t][3].offset \in Int
        /\ TemplateCards[t][4].offset \in Int
    BY <1>5 DEF TemplateCards, Part
  <2>. QED  BY <1>1, <2>1
<1>. QED  BY <1>1, <1>2, <1>3, <1>4, <1>5 DEF TemplateNames

\* A leg that has a price is the leg that was asked for, with the price.
LEMMA PricedIsAsked ==
  ASSUME NEW chain, NEW from, NEW leg, PricedLeg(chain, from, leg) # None
  PROVE  LET priced == PricedLeg(chain, from, leg)
         IN /\ LegFields \subseteq DOMAIN priced
            /\ priced.type = leg.type /\ priced.direction = leg.direction
            /\ priced.strike = leg.strike /\ priced.expiry = leg.expiry
            /\ priced.quantity = leg.quantity
  BY DEF PricedLeg, WithMarket, LegFields

LEMMA VariantIsOfCard ==
  ASSUME NEW chain, IsChain(chain), NEW expiry, NEW t \in DOMAIN TemplateCards, NEW d,
         BuildTemplateVariant(chain, expiry, t, d) # None
  PROVE  LET legs == BuildTemplateVariant(chain, expiry, t, d)
         IN OfCard(legs, [template |-> t, direction |-> d,
                          strikes |-> {legs[i].strike : i \in DOMAIN legs}])
<1>. DEFINE legs == BuildTemplateVariant(chain, expiry, t, d)
            card == TemplateCards[t]
            atm == FindAtmStrike(chain)
            built == BuildLegs(chain, expiry, t, d)
            At(i) == OffsetStrike(chain, atm, card[i].offset)
            Asks(i) == [type |-> card[i].type, strike |-> At(i), quantity |-> card[i].quantity,
                        expiry |-> expiry,
                        direction |-> IF card[i].with THEN d ELSE Against(d)]
<1>1. /\ DOMAIN chain.strikes # {} /\ StrikesCover(chain, t)
      /\ legs = built /\ \A i \in DOMAIN built : built[i] # None
  BY DEF BuildTemplateVariant
<1>2. /\ DOMAIN built = DOMAIN card
      /\ \A i \in DOMAIN card :
           built[i] = PricedLeg(chain, DOMAIN chain.strikes[At(i)][card[i].type].venues, Asks(i))
  BY DEF BuildLegs
<1>3. atm \in DOMAIN chain.strikes
  BY <1>1, AtmIsListed
<1>4. \A i \in DOMAIN card : card[i].offset \in Int /\ Rank(chain, atm) + card[i].offset \in Ranks(chain)
  BY <1>1, CardIs DEF StrikesCover, HasStrikeOffset
<1>. HIDE DEF legs, built, card, atm
<1>5. \A i \in DOMAIN card :
        At(i) \in DOMAIN chain.strikes /\ Rank(chain, At(i)) = Rank(chain, atm) + card[i].offset
  BY <1>3, <1>4, OffsetStrikeIs
<1>6. \A i \in DOMAIN card : At(i) \in Int
  BY <1>5 DEF IsChain
<1>7. Rank(chain, atm) \in Int
  BY <1>3, RankOrders
<1>8. \A i, j \in DOMAIN card : At(i) < At(j) <=> card[i].offset < card[j].offset
  <2>. SUFFICES ASSUME NEW i \in DOMAIN card, NEW j \in DOMAIN card
                PROVE  At(i) < At(j) <=> card[i].offset < card[j].offset
    OBVIOUS
  <2>1. At(i) < At(j) <=> Rank(chain, At(i)) < Rank(chain, At(j))
    BY <1>5, RankOrders
  <2>. HIDE DEF At
  <2>. QED  BY <1>4, <1>5, <1>7, <2>1
<1>9. \A i \in DOMAIN card :
        /\ LegFields \subseteq DOMAIN legs[i]
        /\ legs[i].type = card[i].type
        /\ legs[i].direction = IF card[i].with THEN d ELSE Against(d)
        /\ legs[i].strike = At(i) /\ legs[i].expiry = expiry
        /\ legs[i].quantity = card[i].quantity
  <2>. SUFFICES ASSUME NEW i \in DOMAIN card
                PROVE  /\ LegFields \subseteq DOMAIN legs[i]
                       /\ legs[i].type = card[i].type
                       /\ legs[i].direction = IF card[i].with THEN d ELSE Against(d)
                       /\ legs[i].strike = At(i) /\ legs[i].expiry = expiry
                       /\ legs[i].quantity = card[i].quantity
    OBVIOUS
  <2>1. legs[i] = PricedLeg(chain, DOMAIN chain.strikes[At(i)][card[i].type].venues, Asks(i))
        /\ legs[i] # None
    BY <1>1, <1>2
  <2>2. /\ Asks(i).type = card[i].type /\ Asks(i).strike = At(i) /\ Asks(i).expiry = expiry
        /\ Asks(i).quantity = card[i].quantity
        /\ Asks(i).direction = IF card[i].with THEN d ELSE Against(d)
    OBVIOUS
  <2>. HIDE DEF Asks, At
  <2>. QED  BY <2>1, <2>2, PricedIsAsked
<1>10. DOMAIN legs = DOMAIN card
  BY <1>1, <1>2
<1>. DEFINE a == [template |-> t, direction |-> d, strikes |-> {legs[i].strike : i \in DOMAIN legs}]
<1>11. TemplateCards[a.template] = card /\ a.direction = d
       /\ a.strikes = {legs[i].strike : i \in DOMAIN legs}
  BY DEF card
<1>. HIDE DEF a, At
<1>12. OfCard(legs, a)
  <2>1. \A i, j \in DOMAIN card : legs[i].strike < legs[j].strike <=> card[i].offset < card[j].offset
    BY <1>8, <1>9
  <2>. QED  BY <1>6, <1>9, <1>10, <1>11, <2>1 DEF OfCard
<1>. QED  BY <1>12 DEF a, legs

LEMMA ClosestToItself ==
  ASSUME NEW S, S \subseteq Int, NEW s \in S
  PROVE  (CHOOSE x \in S : \A t \in S :
            Distance(x, s) < Distance(t, s) \/ (Distance(x, s) = Distance(t, s) /\ x <= t)) = s
<1>. DEFINE Best(x) == \A t \in S : Distance(x, s) < Distance(t, s)
                                      \/ (Distance(x, s) = Distance(t, s) /\ x <= t)
<1>1. \A t \in S : t \in Int /\ (Distance(t, s) = 0 <=> t = s) /\ Distance(t, s) >= 0
  BY DEF Distance
<1>2. Best(s)
  <2>. SUFFICES ASSUME NEW t \in S
                PROVE  Distance(s, s) < Distance(t, s) \/ (Distance(s, s) = Distance(t, s) /\ s <= t)
    OBVIOUS
  <2>. QED  BY DEF Distance
<1>3. \A x \in S : Best(x) => x = s
  <2>. SUFFICES ASSUME NEW x \in S, Best(x) PROVE x = s
    OBVIOUS
  <2>1. Distance(x, s) < Distance(s, s) \/ (Distance(x, s) = Distance(s, s) /\ x <= s)
    OBVIOUS
  <2>. QED  BY <2>1 DEF Distance
<1>. HIDE DEF Best
<1>4. (CHOOSE x \in S : Best(x)) = s
  BY <1>2, <1>3
<1>. QED  BY <1>4 DEF Best

\* Pricing a leg whose strike is listed leaves it what it is but for the expiry.
LEMMA LegKept ==
  ASSUME NEW leg, LegFields \subseteq DOMAIN leg,
         Data # None, IsChain(Data), leg.strike \in DOMAIN Data.strikes,
         builderExpiry # None, NEW exact \in BOOLEAN
  PROVE  LET next == RepriceStrategyLeg(leg, exact)
         IN /\ next # None =>
                 /\ LegFields \subseteq DOMAIN next
                 /\ next.type = leg.type /\ next.direction = leg.direction
                 /\ next.strike = leg.strike /\ next.expiry = builderExpiry
                 /\ next.quantity = leg.quantity
            /\ next = RepriceStrategyLeg(leg, TRUE)
<1>. DEFINE strikes == DOMAIN Data.strikes
            dated == [leg EXCEPT !.expiry = builderExpiry]
            AtStrike(s) == [dated EXCEPT !.strike = s]
            PricedAt == [s \in strikes |-> PricedLeg(Data, activeVenues, AtStrike(s))]
            near == CHOOSE x \in strikes : \A t \in strikes :
                      Distance(x, dated.strike) < Distance(t, dated.strike)
                        \/ (Distance(x, dated.strike) = Distance(t, dated.strike) /\ x <= t)
<1>1. /\ dated.strike = leg.strike /\ dated.expiry = builderExpiry /\ dated.type = leg.type
      /\ dated.direction = leg.direction /\ dated.quantity = leg.quantity
      /\ LegFields \subseteq DOMAIN dated
  BY DEF LegFields
<1>2. near = leg.strike
  BY <1>1, ClosestToItself DEF IsChain
<1>. HIDE DEF near
<1>. DEFINE own == AtStrike(leg.strike)
<1>3. /\ own.type = leg.type /\ own.direction = leg.direction /\ own.strike = leg.strike
      /\ own.expiry = builderExpiry /\ own.quantity = leg.quantity
  BY <1>1 DEF LegFields
<1>4. \A e \in BOOLEAN : RepriceStrategyLeg(leg, e) = PricedLeg(Data, activeVenues, own)
  <2>. SUFFICES ASSUME NEW e \in BOOLEAN
                PROVE  RepriceStrategyLeg(leg, e) = PricedLeg(Data, activeVenues, own)
    OBVIOUS
  <2>1. RepriceStrategyLeg(leg, e) = RepriceLeg(Data, activeVenues, dated, e)
    BY DEF RepriceStrategyLeg
  <2>2. RepriceLeg(Data, activeVenues, dated, e) = PricedAt[near]
    BY <1>1 DEF RepriceLeg, Closest, near
  <2>3. PricedAt[near] = PricedLeg(Data, activeVenues, own)
    BY <1>2
  <2>. QED  BY <2>1, <2>2, <2>3
<1>. HIDE DEF own
<1>5. PricedLeg(Data, activeVenues, own) # None =>
        LET next == PricedLeg(Data, activeVenues, own)
        IN /\ LegFields \subseteq DOMAIN next
           /\ next.type = leg.type /\ next.direction = leg.direction
           /\ next.strike = leg.strike /\ next.expiry = builderExpiry
           /\ next.quantity = leg.quantity
  BY <1>3, PricedIsAsked
<1>. QED  BY <1>4, <1>5

LEMMA RepricedIsOfCard ==
  ASSUME NEW a, a.template \in DOMAIN TemplateCards, OfCard(strategy.legs, a),
         Data # None => IsChain(Data) /\ \A i \in DOMAIN strategy.legs : ~ Misses(strategy.legs[i])
  PROVE  OfCard(Repriced, a)
<1>. DEFINE legs == strategy.legs
            card == TemplateCards[a.template]
<1>1. DOMAIN Repriced = DOMAIN card /\ DOMAIN legs = DOMAIN card
      /\ \A i \in DOMAIN card : Repriced[i] = OrElse(RepriceStrategyLeg(legs[i], FALSE), legs[i])
  BY DEF Repriced, OfCard
<1>2. \A i \in DOMAIN card :
        /\ LegFields \subseteq DOMAIN legs[i]
        /\ legs[i].type = card[i].type
        /\ legs[i].direction = IF card[i].with THEN a.direction ELSE Against(a.direction)
        /\ legs[i].quantity = card[i].quantity
        /\ legs[i].strike \in Int
  BY DEF OfCard
<1>3. \A i, j \in DOMAIN card :
        /\ legs[i].expiry = legs[j].expiry
        /\ legs[i].strike < legs[j].strike <=> card[i].offset < card[j].offset
  BY DEF OfCard
<1>4. a.strikes = {legs[i].strike : i \in DOMAIN legs}
  BY DEF OfCard
<1>5. CASE Data = None \/ builderExpiry = None
  <2>1. \A i \in DOMAIN card : Repriced[i] = legs[i]
    BY <1>1, <1>5 DEF RepriceStrategyLeg, OrElse
  <2>. HIDE DEF card, legs
  <2>2. \A i, j \in DOMAIN card :
          /\ Repriced[i].expiry = Repriced[j].expiry
          /\ Repriced[i].strike < Repriced[j].strike <=> card[i].offset < card[j].offset
    BY <1>3, <2>1
  <2>3. a.strikes = {Repriced[i].strike : i \in DOMAIN Repriced}
    BY <1>1, <1>4, <2>1
  <2>. QED  BY <1>1, <1>2, <2>1, <2>2, <2>3 DEF OfCard, card
<1>6. CASE Data # None /\ builderExpiry # None
  <2>1. ASSUME NEW i \in DOMAIN card
        PROVE  /\ LegFields \subseteq DOMAIN Repriced[i]
               /\ Repriced[i].type = legs[i].type /\ Repriced[i].direction = legs[i].direction
               /\ Repriced[i].strike = legs[i].strike /\ Repriced[i].expiry = builderExpiry
               /\ Repriced[i].quantity = legs[i].quantity
    <3>1. /\ legs[i].strike \in DOMAIN Data.strikes
          /\ legs[i].expiry # builderExpiry => RepriceStrategyLeg(legs[i], TRUE) # None
      BY <1>1, <1>6 DEF Misses
    <3>. DEFINE next == RepriceStrategyLeg(legs[i], FALSE)
    <3>. HIDE DEF legs, card
    <3>2. /\ next # None =>
               /\ LegFields \subseteq DOMAIN next
               /\ next.type = legs[i].type /\ next.direction = legs[i].direction
               /\ next.strike = legs[i].strike /\ next.expiry = builderExpiry
               /\ next.quantity = legs[i].quantity
          /\ next = RepriceStrategyLeg(legs[i], TRUE)
      BY <1>2, <1>6, <3>1, LegKept
    <3>. HIDE DEF next
    <3>3. Repriced[i] = IF next # None THEN next ELSE legs[i]
      BY <1>1 DEF OrElse, next
    <3>4. CASE next = None
      BY <1>2, <3>1, <3>2, <3>3, <3>4
    <3>5. CASE next # None
      BY <3>2, <3>3, <3>5
    <3>. QED  BY <3>4, <3>5
  <2>. HIDE DEF card, legs
  <2>2. \A i, j \in DOMAIN card :
          /\ Repriced[i].expiry = Repriced[j].expiry
          /\ Repriced[i].strike < Repriced[j].strike <=> card[i].offset < card[j].offset
    BY <1>3, <2>1
  <2>3. a.strikes = {Repriced[i].strike : i \in DOMAIN Repriced}
    BY <1>1, <1>4, <2>1
  <2>. QED  BY <1>1, <1>2, <2>1, <2>2, <2>3 DEF OfCard, card
<1>. QED  BY <1>5, <1>6

-------------------------------------------------------------------------------
(***************************************************************************)
(* The names of the cards.                                                 *)
(***************************************************************************)
Named(legs, a) == DetectStrategy(legs) = CardName(a.template, a.direction)

LEMMA SinglesNamed ==
  ASSUME NEW legs, NEW a, a.template \in {"Call", "Put"}, a.direction \in {"buy", "sell"},
         OfCard(legs, a)
  PROVE  Named(legs, a)
<1>1. /\ DOMAIN legs = 1..1
      /\ legs[1].type = (IF a.template = "Call" THEN "call" ELSE "put")
      /\ legs[1].direction = a.direction
  BY DEF OfCard, TemplateCards, Part
<1>2. Len(legs) = 1
  BY <1>1
<1>3. DetectStrategy(legs) = <<Way(legs[1]), legs[1].type>>
  BY <1>2 DEF DetectStrategy
<1>. QED  BY <1>1, <1>3 DEF Named, CardName, Way

LEMMA TwosNamed ==
  ASSUME NEW legs, NEW a, a.template \in {"CallSpread", "PutSpread", "Straddle", "Strangle"},
         a.direction \in {"buy", "sell"}, OfCard(legs, a)
  PROVE  Named(legs, a)
<1>. DEFINE card == TemplateCards[a.template]
<1>1. DOMAIN card = 1..2
  BY DEF TemplateCards
<1>2. /\ DOMAIN legs = 1..2
      /\ legs[1].type = card[1].type /\ legs[2].type = card[2].type
      /\ legs[1].direction = IF card[1].with THEN a.direction ELSE Against(a.direction)
      /\ legs[2].direction = IF card[2].with THEN a.direction ELSE Against(a.direction)
      /\ legs[1].strike \in Int /\ legs[2].strike \in Int
      /\ \A i, j \in DOMAIN legs : legs[i].expiry = legs[j].expiry
      /\ legs[1].strike < legs[2].strike <=> card[1].offset < card[2].offset
      /\ legs[2].strike < legs[1].strike <=> card[2].offset < card[1].offset
  BY <1>1 DEF OfCard
<1>3. Len(legs) = 2
  BY <1>2
<1>4. DetectStrategy(legs) = NameOfTwo(legs[1], legs[2])
  BY <1>2, <1>3 DEF DetectStrategy
<1>5. CASE a.template = "CallSpread"
  <2>1. /\ legs[1].type = "call" /\ legs[2].type = "call" /\ legs[1].strike < legs[2].strike
        /\ legs[1].direction = a.direction /\ legs[2].direction = Against(a.direction)
    BY <1>2, <1>5 DEF TemplateCards, Part
  <2>2. ~ (legs[2].strike < legs[1].strike)
    BY <1>2, <2>1
  <2>. QED  BY <1>4, <1>5, <2>1, <2>2 DEF NameOfTwo, Named, CardName, Against
<1>6. CASE a.template = "PutSpread"
  <2>1. /\ legs[1].type = "put" /\ legs[2].type = "put" /\ legs[2].strike < legs[1].strike
        /\ legs[1].direction = a.direction /\ legs[2].direction = Against(a.direction)
    BY <1>2, <1>6 DEF TemplateCards, Part
  <2>2. ~ (legs[1].strike < legs[2].strike)
    BY <1>2, <2>1
  <2>. QED  BY <1>4, <1>6, <2>1, <2>2 DEF NameOfTwo, Named, CardName, Against
<1>7. CASE a.template = "Straddle"
  <2>1. /\ legs[1].type = "call" /\ legs[2].type = "put"
        /\ ~ (legs[1].strike < legs[2].strike) /\ ~ (legs[2].strike < legs[1].strike)
        /\ legs[1].direction = a.direction /\ legs[2].direction = a.direction
    BY <1>2, <1>7 DEF TemplateCards, Part
  <2>2. legs[1].strike = legs[2].strike
    BY <1>2, <2>1
  <2>. QED  BY <1>4, <1>7, <2>1, <2>2 DEF NameOfTwo, Named, CardName, Way
<1>8. CASE a.template = "Strangle"
  <2>1. /\ legs[1].type = "call" /\ legs[2].type = "put" /\ legs[2].strike < legs[1].strike
        /\ legs[1].direction = a.direction /\ legs[2].direction = a.direction
    BY <1>2, <1>8 DEF TemplateCards, Part
  <2>2. legs[1].strike # legs[2].strike
    BY <1>2, <2>1
  <2>. QED  BY <1>4, <1>8, <2>1, <2>2 DEF NameOfTwo, Named, CardName, Way
<1>. QED  BY <1>5, <1>6, <1>7, <1>8

LEMMA ButterflyNamed ==
  ASSUME NEW legs, NEW a, a.template = "Butterfly", a.direction \in {"buy", "sell"},
         OfCard(legs, a)
  PROVE  Named(legs, a)
<1>. DEFINE card == TemplateCards[a.template]
            strikes == {legs[i].strike : i \in DOMAIN legs}
            At(k) == legs[CHOOSE i \in DOMAIN legs : legs[i].strike = k]
<1>1. DOMAIN card = 1..3
  BY DEF TemplateCards
<1>2. /\ DOMAIN legs = 1..3
      /\ legs[1].strike \in Int /\ legs[2].strike \in Int /\ legs[3].strike \in Int
      /\ \A i, j \in DOMAIN legs : legs[i].expiry = legs[j].expiry
      /\ legs[1].strike < legs[2].strike <=> card[1].offset < card[2].offset
      /\ legs[2].strike < legs[3].strike <=> card[2].offset < card[3].offset
      /\ \A i \in DOMAIN legs : legs[i].type = card[i].type
      /\ legs[2].quantity = card[2].quantity
      /\ legs[1].direction = IF card[1].with THEN a.direction ELSE Against(a.direction)
      /\ legs[2].direction = IF card[2].with THEN a.direction ELSE Against(a.direction)
  BY <1>1 DEF OfCard
<1>3. /\ card[1] = Part("call", 0 - 2, TRUE, 1) /\ card[2] = Part("call", 0, FALSE, 2)
      /\ card[3] = Part("call", 2, TRUE, 1)
  BY DEF TemplateCards
<1>4. /\ legs[1].strike < legs[2].strike /\ legs[2].strike < legs[3].strike
      /\ \A i \in DOMAIN legs : legs[i].type = "call"
      /\ legs[2].quantity = 2 /\ legs[1].direction = a.direction
      /\ legs[2].direction = Against(a.direction)
  BY <1>2, <1>3 DEF Part
<1>. HIDE DEF card
<1>5. strikes = {legs[1].strike, legs[2].strike, legs[3].strike}
  BY <1>2
<1>6. Cardinality(strikes) = 3 /\ IsFiniteSet(strikes)
  <2>. DEFINE one == {legs[1].strike}
              two == one \cup {legs[2].strike}
  <2>1. IsFiniteSet(one) /\ Cardinality(one) = 1
    BY FS_Singleton
  <2>2. legs[2].strike \notin one /\ legs[3].strike \notin two
    BY <1>2, <1>4
  <2>. HIDE DEF one
  <2>3. IsFiniteSet(two) /\ Cardinality(two) = 1 + 1
    <3>1. IsFiniteSet(two) /\ Cardinality(two) = Cardinality(one) + 1
      BY <2>1, <2>2, FS_AddElement
    <3>. QED  BY <2>1, <3>1
  <2>4. strikes = two \cup {legs[3].strike}
    BY <1>5 DEF one
  <2>. HIDE DEF two
  <2>5. IsFiniteSet(two \cup {legs[3].strike})
        /\ Cardinality(two \cup {legs[3].strike}) = Cardinality(two) + 1
    BY <2>2, <2>3, FS_AddElement
  <2>6. Cardinality(two) + 1 = 3
    BY <2>3
  <2>. HIDE DEF strikes
  <2>. QED  BY <2>4, <2>5, <2>6
<1>7. strikes \subseteq Int /\ strikes # {}
  BY <1>2, <1>5
<1>. HIDE DEF strikes
<1>8. /\ Min(strikes) \in strikes /\ \A y \in strikes : Min(strikes) <= y
      /\ Max(strikes) \in strikes /\ \A y \in strikes : y <= Max(strikes)
  BY <1>6, <1>7, FiniteMin, FiniteMax
<1>9. Min(strikes) = legs[1].strike /\ Max(strikes) = legs[3].strike
  BY <1>2, <1>4, <1>5, <1>8
<1>10. (CHOOSE k \in strikes : k \notin {Min(strikes), Max(strikes)}) = legs[2].strike
  <2>1. \A k \in strikes : k \notin {Min(strikes), Max(strikes)} <=> k = legs[2].strike
    BY <1>2, <1>4, <1>5, <1>9
  <2>. QED  BY <1>5, <2>1
<1>11. At(legs[1].strike) = legs[1] /\ At(legs[2].strike) = legs[2]
  <2>1. \A i \in DOMAIN legs : /\ legs[i].strike = legs[1].strike <=> i = 1
                               /\ legs[i].strike = legs[2].strike <=> i = 2
    BY <1>2, <1>4
  <2>2. 1 \in DOMAIN legs /\ 2 \in DOMAIN legs
    BY <1>2
  <2>. QED  BY <2>1, <2>2
<1>12. legs[2].direction # legs[1].direction
  BY <1>4 DEF Against
<1>13. IsButterfly(legs)
  <2>1. IsButterfly(legs) <=>
          /\ Cardinality(strikes) = 3
          /\ \A i \in DOMAIN legs : legs[i].type = legs[1].type
          /\ At(CHOOSE k \in strikes : k \notin {Min(strikes), Max(strikes)}).quantity = 2
          /\ At(CHOOSE k \in strikes : k \notin {Min(strikes), Max(strikes)}).direction
               # At(Min(strikes)).direction
    BY DEF IsButterfly, strikes
  <2>2. \A i \in DOMAIN legs : legs[i].type = legs[1].type
    BY <1>2, <1>4
  <2>. HIDE DEF At
  <2>. QED  BY <1>4, <1>6, <1>9, <1>10, <1>11, <1>12, <2>1, <2>2
<1>14. Len(legs) = 3
  BY <1>2
<1>15. DetectStrategy(legs) = <<legs[1].type, "Butterfly">>
  BY <1>2, <1>13, <1>14 DEF DetectStrategy
<1>16. legs[1].type = "call"
  BY <1>2, <1>4
<1>. QED  BY <1>15, <1>16 DEF Named, CardName

LEMMA IronCondorNamed ==
  ASSUME NEW legs, NEW a, a.template = "IronCondor", a.direction \in {"buy", "sell"},
         OfCard(legs, a)
  PROVE  Named(legs, a)
<1>. DEFINE card == TemplateCards[a.template]
<1>1. DOMAIN card = 1..4
  BY DEF TemplateCards
<1>2. /\ DOMAIN legs = 1..4
      /\ \A i, j \in DOMAIN legs : legs[i].expiry = legs[j].expiry
      /\ \A i \in DOMAIN legs :
           /\ legs[i].type = card[i].type
           /\ legs[i].direction = IF card[i].with THEN a.direction ELSE Against(a.direction)
  BY <1>1 DEF OfCard
<1>3. /\ card[1] = Part("put", 0 - 4, FALSE, 1) /\ card[2] = Part("put", 0 - 2, TRUE, 1)
      /\ card[3] = Part("call", 2, TRUE, 1) /\ card[4] = Part("call", 4, FALSE, 1)
  BY DEF TemplateCards
<1>4. /\ legs[1].type = "put" /\ legs[2].type = "put" /\ legs[3].type = "call" /\ legs[4].type = "call"
      /\ legs[1].direction = Against(a.direction) /\ legs[2].direction = a.direction
      /\ legs[3].direction = a.direction /\ legs[4].direction = Against(a.direction)
  BY <1>2, <1>3 DEF Part
<1>. HIDE DEF card
<1>5. Against(a.direction) # a.direction /\ Against(a.direction) \in {"buy", "sell"}
  BY DEF Against
<1>6. ASSUME NEW type \in {"call", "put"}, NEW direction \in {"buy", "sell"}
      PROVE  Cardinality({i \in DOMAIN legs : legs[i].type = type /\ legs[i].direction = direction}) = 1
  <2>1. \E k \in 1..4 : {i \in DOMAIN legs : legs[i].type = type /\ legs[i].direction = direction} = {k}
    <3>1. direction = a.direction \/ direction = Against(a.direction)
      BY <1>5
    <3>2. DOMAIN legs = {1, 2, 3, 4}
      BY <1>2
    <3>3. CASE type = "put" /\ direction = a.direction
      <4>1. {i \in DOMAIN legs : legs[i].type = type /\ legs[i].direction = direction} = {2}
        BY <1>4, <1>5, <3>2, <3>3
      <4>. QED  BY <4>1
    <3>4. CASE type = "put" /\ direction = Against(a.direction)
      <4>1. {i \in DOMAIN legs : legs[i].type = type /\ legs[i].direction = direction} = {1}
        BY <1>4, <1>5, <3>2, <3>4
      <4>. QED  BY <4>1
    <3>5. CASE type = "call" /\ direction = a.direction
      <4>1. {i \in DOMAIN legs : legs[i].type = type /\ legs[i].direction = direction} = {3}
        BY <1>4, <1>5, <3>2, <3>5
      <4>. QED  BY <4>1
    <3>6. CASE type = "call" /\ direction = Against(a.direction)
      <4>1. {i \in DOMAIN legs : legs[i].type = type /\ legs[i].direction = direction} = {4}
        BY <1>4, <1>5, <3>2, <3>6
      <4>. QED  BY <4>1
    <3>. QED  BY <3>1, <3>3, <3>4, <3>5, <3>6
  <2>. QED  BY <2>1, FS_Singleton
<1>7. IsIronCondor(legs)
  BY <1>6 DEF IsIronCondor
<1>8. Len(legs) = 4
  BY <1>2
<1>9. DetectStrategy(legs) = <<"Iron Condor">>
  <2>1. \A i, j \in DOMAIN legs : legs[i].expiry = legs[j].expiry
    BY <1>2
  <2>2. ~ (Len(legs) = 0) /\ ~ (Len(legs) = 1) /\ ~ (Len(legs) = 2) /\ ~ (Len(legs) = 3)
    BY <1>8
  <2>. QED  BY <1>7, <1>8, <2>1, <2>2 DEF DetectStrategy
<1>. QED  BY <1>9 DEF Named, CardName

\* The legs of a card are named as the card is.
LEMMA CardsNamed ==
  ASSUME NEW legs, NEW a, a.template \in DOMAIN TemplateCards, a.direction \in {"buy", "sell"},
         OfCard(legs, a)
  PROVE  Named(legs, a)
<1>1. a.template \in TemplateNames
  BY CardIs
<1>. QED  BY <1>1, SinglesNamed, TwosNamed, ButterflyNamed, IronCondorNamed DEF TemplateNames

-------------------------------------------------------------------------------
(***************************************************************************)
(* The builder's steps.                                                    *)
(***************************************************************************)
LEMMA DataIsChain ==
  ASSUME BuilderInv
  PROVE  /\ Shown \in DOMAIN Contents \cup {None}
         /\ Data # None => IsChain(Data)
<1>1. Shown \in DOMAIN Contents \cup {None}
  BY DEF BuilderInv, Shown
<1>2. ASSUME Data # None PROVE IsChain(Data)
  <2>1. Shown \in DOMAIN Contents /\ Data = Contents[Shown]
    BY <1>1, <1>2 DEF Data
  <2>2. /\ DOMAIN Data.strikes \subseteq Int /\ IsFiniteSet(DOMAIN Data.strikes)
        /\ {Data.stats.spotIndexUsd, Data.stats.indexPriceUsd} \subseteq Nat \cup {None}
    BY <2>1, BuilderAssumption
  <2>. QED  BY <2>2 DEF IsChain, Number
<1>. QED  BY <1>1, <1>2

LEMMA ResolvedIsDate ==
  ASSUME BuilderInv
  PROVE  ResolveBuilderExpiry \in Dates \cup {None}
<1>1. CASE Listed = <<>>
  BY <1>1 DEF ResolveBuilderExpiry, BuilderInv
<1>2. CASE Listed # <<>>
  <2>1. Listed = Expiries[underlying] /\ underlying \in Underlyings
    BY <1>2 DEF Listed, BuilderInv
  <2>2. Listed \in Seq(ToSet(Listed)) /\ ToSet(Listed) \subseteq Dates
    BY <2>1, BuilderAssumption DEF Dates
  <2>3. Len(Listed) \in Nat /\ Len(Listed) # 0 /\ DOMAIN Listed = 1..Len(Listed)
    BY <1>2, <2>2
  <2>4. \A i \in DOMAIN Listed : Listed[i] \in Dates
    BY <2>2 DEF ToSet
  <2>. DEFINE later == {i \in DOMAIN Listed : Listed[i] \in Viable}
              preferred == OrElse(builderExpiry, globalExpiry)
              two == Min({2, Len(Listed)})
  <2>5. later # {} => Min(later) \in DOMAIN Listed
    <3>1. IsFiniteSet(DOMAIN Listed) /\ DOMAIN Listed \subseteq Int
      BY <2>3, FS_Interval
    <3>2. IsFiniteSet(later) /\ later \subseteq Int
      BY <3>1, FS_Subset
    <3>3. later # {} => Min(later) \in later
      BY <3>2, FiniteMin
    <3>. QED  BY <3>3
  <2>6. two \in DOMAIN Listed
    <3>1. \A a \in Int : Min({a, Len(Listed)}) = IF a <= Len(Listed) THEN a ELSE Len(Listed)
      BY <2>3, MinMaxOfTwo
    <3>2. two = IF 2 <= Len(Listed) THEN 2 ELSE Len(Listed)
      BY <3>1
    <3>3. \A n \in Nat : n # 0 => (IF 2 <= n THEN 2 ELSE n) \in 1..n
      OBVIOUS
    <3>. HIDE DEF two
    <3>. QED  BY <2>3, <3>2, <3>3
  <2>. HIDE DEF later, two
  <2>7. ResolveBuilderExpiry = IF preferred \in ToSet(Listed) THEN preferred
                               ELSE Listed[IF later # {} THEN Min(later) ELSE two]
    BY <1>2 DEF ResolveBuilderExpiry, later, two
  <2>. HIDE DEF preferred
  <2>. QED  BY <2>2, <2>4, <2>5, <2>6, <2>7
<1>. QED  BY <1>1, <1>2

LEMMA RunEffectsKeeps ==
  ASSUME BuilderInv, RunEffects
  PROVE  BuilderInv'
<1>1. Effects(Repriced) /\ UNCHANGED <<underlying, globalExpiry, activeVenues, listed, cache>>
  BY DEF RunEffects
<1>2. link' = None /\ held' \in DOMAIN Contents \cup {None}
  BY <1>1, DataIsChain DEF Effects
<1>3. builderExpiry' \in Dates \cup {None}
  <2>1. link # None => link \in Links /\ link.legs[1].expiry \in Dates
    <3>1. link # None => link \in Links
      BY DEF BuilderInv
    <3>2. \A l \in Links : l.legs[1].expiry \in Dates
      BY DEF Dates
    <3>. QED  BY <3>1, <3>2
  <2>. QED  BY <1>1, <2>1, ResolvedIsDate DEF Effects
<1>4. DOMAIN strategy' = {"underlying", "legs"}
  <2>. DEFINE cleared == ClearLegs(strategy)
  <2>1. DOMAIN cleared = {"underlying", "legs"}
    BY DEF ClearLegs, BuilderInv
  <2>2. \/ strategy' = [underlying |-> underlying, legs |-> Repriced]
        \/ strategy' = AddLegs(cleared, link.legs, link.underlying)
        \/ strategy' = cleared
        \/ strategy' = strategy
    BY <1>1 DEF Effects
  <2>. HIDE DEF cleared
  <2>3. DOMAIN AddLegs(cleared, link.legs, link.underlying) = {"underlying", "legs"}
    BY <2>1 DEF AddLegs
  <2>. QED  BY <2>1, <2>2, <2>3 DEF BuilderInv
<1>5. ASSUME applied' # None
      PROVE  /\ applied'.template \in DOMAIN TemplateCards
             /\ applied'.direction \in {"buy", "sell"}
             /\ strategy'.underlying = underlying'
             /\ OfCard(strategy'.legs, applied')
  <2>1. /\ applied' = applied /\ applied # None
        /\ Data # None => \A i \in DOMAIN strategy.legs : ~ Misses(strategy.legs[i])
    BY <1>1, <1>5 DEF Effects
  <2>2. /\ applied.template \in DOMAIN TemplateCards
        /\ applied.direction \in {"buy", "sell"}
        /\ strategy.underlying = underlying
        /\ OfCard(strategy.legs, applied)
        /\ link = None
    BY <2>1 DEF BuilderInv
  <2>3. OfCard(Repriced, applied)
    BY <2>1, <2>2, DataIsChain, RepricedIsOfCard
  <2>4. ~ Cleared
    BY <2>2 DEF Cleared
  <2>5. \/ strategy' = [underlying |-> underlying, legs |-> Repriced]
        \/ strategy' = strategy
    BY <1>1, <2>2, <2>4 DEF Effects
  <2>6. underlying' = underlying
    BY <1>1
  <2>7. CASE strategy' = [underlying |-> underlying, legs |-> Repriced]
    <3>1. strategy'.underlying = underlying /\ strategy'.legs = Repriced
      BY <2>7
    <3>. QED  BY <2>1, <2>2, <2>3, <2>6, <3>1
  <2>8. CASE strategy' = strategy
    BY <2>1, <2>2, <2>6, <2>8
  <2>. QED  BY <2>5, <2>7, <2>8
<1>. QED  BY <1>1, <1>2, <1>3, <1>4, <1>5 DEF BuilderInv

LEMMA ChainArrivesKeeps ==
  ASSUME BuilderInv, ChainArrives
  PROVE  BuilderInv'
<1>1. PICK answer \in Answers[Asked] :
        cache' = [k \in DOMAIN cache \cup {Asked} |-> IF k = Asked THEN answer ELSE cache[k]]
  BY DEF ChainArrives
<1>2. Asked \in Underlyings \X Dates \X VenueSets
  BY DEF ChainArrives, Asked, BuilderInv
<1>3. answer \in DOMAIN Contents
  BY <1>1, <1>2, BuilderAssumption
<1>4. \A key \in DOMAIN cache' : cache'[key] \in DOMAIN Contents
  BY <1>1, <1>3 DEF BuilderInv
<1>5. UNCHANGED <<underlying, builderExpiry, activeVenues, held, link, strategy, applied>> /\ ~pending
  BY DEF ChainArrives
<1>. QED  BY <1>4, <1>5 DEF BuilderInv

LEMMA ForgottenKeeps ==
  ASSUME BuilderInv, Forgotten
  PROVE  BuilderInv'
<1>1. PICK key \in DOMAIN cache \ {Asked} : cache' = [k \in DOMAIN cache \ {key} |-> cache[k]]
  BY DEF Forgotten
<1>2. \A k \in DOMAIN cache' : cache'[k] \in DOMAIN Contents
  BY <1>1 DEF BuilderInv
<1>3. UNCHANGED <<underlying, builderExpiry, activeVenues, held, link, strategy, pending, applied>>
  BY DEF Forgotten
<1>. QED  BY <1>2, <1>3 DEF BuilderInv

\* What the user edits is no longer a card's.
LEMMA EditKeeps ==
  ASSUME BuilderInv, NEW next, DOMAIN next = {"underlying", "legs"}, Edit(next)
  PROVE  BuilderInv'
<1>1. /\ strategy' = next /\ applied' = None /\ ~pending
      /\ UNCHANGED <<underlying, builderExpiry, activeVenues, cache, held, link>>
  BY DEF Edit, Stored
<1>. QED  BY <1>1 DEF BuilderInv

LEMMA ApplyTemplateKeeps ==
  ASSUME BuilderInv, NEW template \in UsedTemplates, NEW direction \in {"buy", "sell"},
         ApplyTemplate(template, direction)
  PROVE  BuilderInv'
<1>. DEFINE legs == BuildTemplateVariant(Data, builderExpiry, template, direction)
            a == [template |-> template, direction |-> direction,
                  strikes |-> {legs[i].strike : i \in DOMAIN legs}]
            cleared == ClearLegs(strategy)
<1>1. /\ legs # None /\ ~pending
      /\ strategy' = AddLegs(cleared, legs, underlying) /\ applied' = a
      /\ UNCHANGED <<underlying, builderExpiry, activeVenues, cache, held, link>>
  BY DEF ApplyTemplate, Stored
<1>2. template \in DOMAIN TemplateCards
  BY BuilderAssumption
<1>3. Data # None
  BY <1>1 DEF BuildTemplateVariant
<1>4. OfCard(legs, a)
  BY <1>1, <1>2, <1>3, DataIsChain, VariantIsOfCard
<1>5. a.template = template /\ a.direction = direction
  OBVIOUS
<1>. HIDE DEF legs, a
<1>6. PICK n \in 1..4 : DOMAIN legs = 1..n
  BY <1>2, <1>4, <1>5, CardIs DEF OfCard
<1>7. legs # <<>>
  BY <1>6
<1>8. legs \in Seq({legs[i] : i \in 1..n})
  <2>1. legs \in [1..n -> {legs[i] : i \in 1..n}]
    <3>1. legs = [i \in DOMAIN legs |-> legs[i]]
      BY <1>1, <1>3 DEF legs, BuildTemplateVariant, BuildLegs
    <3>. QED  BY <1>6, <3>1
  <2>. QED  BY <1>6, <2>1
<1>9. cleared.legs = <<>>
  BY DEF ClearLegs, BuilderInv
<1>. HIDE DEF cleared
<1>10. strategy' = [underlying |-> underlying, legs |-> <<>> \o legs]
  BY <1>1, <1>7, <1>9 DEF AddLegs
<1>11. <<>> \o legs = legs
  BY <1>8, ConcatEmptySeq
<1>12. strategy'.underlying = underlying /\ strategy'.legs = legs
       /\ DOMAIN strategy' = {"underlying", "legs"}
  BY <1>10, <1>11
<1>13. /\ applied'.template \in DOMAIN TemplateCards
       /\ applied'.direction \in {"buy", "sell"}
       /\ strategy'.underlying = underlying'
       /\ OfCard(strategy'.legs, applied')
  BY <1>1, <1>2, <1>4, <1>5, <1>12
<1>. QED  BY <1>1, <1>12, <1>13 DEF BuilderInv

LEMMA BuildsKeep ==
  ASSUME BuilderInv, Builds
  PROVE  BuilderInv'
<1>. DEFINE Fields == {"underlying", "legs"}
<1>0. DOMAIN strategy = Fields
  BY DEF BuilderInv
<1>1. ASSUME NEW template \in UsedTemplates, NEW direction \in {"buy", "sell"},
             ApplyTemplate(template, direction)
      PROVE  BuilderInv'
  BY <1>1, ApplyTemplateKeeps
<1>2. ASSUME NEW type, NEW direction, NEW s, NEW quantity, HandleAdd(type, direction, s, quantity)
      PROVE  BuilderInv'
  <2>1. PICK leg : Edit(AddLeg(strategy, leg, underlying))
    BY <1>2 DEF HandleAdd
  <2>2. DOMAIN AddLeg(strategy, leg, underlying) = Fields
    BY DEF AddLeg
  <2>. QED  BY <2>1, <2>2, EditKeeps
<1>3. ASSUME NEW i, NEW patched, NEW exact, HandleLegUpdate(i, patched, exact)
      PROVE  BuilderInv'
  <2>1. PICK leg : Edit([strategy EXCEPT !.legs[i] = leg])
    BY <1>3 DEF HandleLegUpdate
  <2>2. DOMAIN [strategy EXCEPT !.legs[i] = leg] = Fields
    BY <1>0
  <2>. QED  BY <2>1, <2>2, EditKeeps
<1>4. ASSUME NEW i, LegUpdates(i) PROVE BuilderInv'
  BY <1>3, <1>4 DEF LegUpdates
<1>5. ASSUME NEW i, Edit([strategy EXCEPT !.legs = RemoveAt(@, i)])
      PROVE  BuilderInv'
  <2>1. DOMAIN [strategy EXCEPT !.legs = RemoveAt(@, i)] = Fields
    BY <1>0
  <2>. QED  BY <1>5, <2>1, EditKeeps
<1>6. ASSUME Edit(ClearLegs(strategy)) PROVE BuilderInv'
  <2>1. DOMAIN ClearLegs(strategy) = Fields
    BY <1>0 DEF ClearLegs
  <2>. QED  BY <1>6, <2>1, EditKeeps
<1>. QED  BY <1>1, <1>2, <1>4, <1>5, <1>6 DEF Builds

LEMMA BuilderInitHolds ==
  ASSUME BuilderInit
  PROVE  BuilderInv
<1>1. underlying \in Underlyings /\ activeVenues \in VenueSets
  BY BuilderAssumption DEF BuilderInit
<1>2. DOMAIN cache = {}
  BY DEF BuilderInit
<1>. QED  BY <1>1, <1>2 DEF BuilderInit, BuilderInv

THEOREM BuilderInvariance == BuilderSpec => []BuilderInv
<1>1. BuilderInit => BuilderInv
  BY BuilderInitHolds
<1>2. BuilderInv /\ [BuilderNext]_builderVars => BuilderInv'
  <2>. SUFFICES ASSUME BuilderInv, [BuilderNext]_builderVars PROVE BuilderInv'
    OBVIOUS
  <2>1. CASE RunEffects
    BY <2>1, RunEffectsKeeps
  <2>2. CASE ChainArrives
    BY <2>2, ChainArrivesKeeps
  <2>3. CASE Forgotten
    BY <2>3, ForgottenKeeps
  <2>4. CASE ExpiriesArrive
    BY <2>4 DEF ExpiriesArrive, BuilderInv
  <2>5. CASE SetUnderlying
    BY <2>5 DEF SetUnderlying, BuilderInv
  <2>6. CASE PickExpiry
    <3>1. builderExpiry' \in Dates
      <4>1. Listed # <<>> => Listed = Expiries[underlying] /\ underlying \in Underlyings
        BY DEF Listed, BuilderInv
      <4>2. ToSet(<<>>) = {}
        BY DEF ToSet
      <4>. QED  BY <2>6, <4>1, <4>2 DEF PickExpiry, Dates
    <3>2. /\ UNCHANGED <<underlying, activeVenues, cache, held, link, strategy, applied>>
          /\ ~pending
      BY <2>6 DEF PickExpiry
    <3>. QED  BY <3>1, <3>2 DEF BuilderInv
  <2>7. CASE SetVenues
    BY <2>7 DEF SetVenues, BuilderInv
  <2>8. CASE Builds
    BY <2>8, BuildsKeep
  <2>9. CASE UNCHANGED builderVars
    BY <2>9 DEF builderVars, BuilderInv
  <2>. QED  BY <2>1, <2>2, <2>3, <2>4, <2>5, <2>6, <2>7, <2>8, <2>9 DEF BuilderNext
<1>. QED  BY <1>1, <1>2, PTL DEF BuilderSpec

THEOREM StrategiesAreKept == BuilderSpec => []StrategyIsKept
<1>1. BuilderInv => StrategyIsKept
  <2>. SUFFICES ASSUME BuilderInv, applied # None
                PROVE  /\ {strategy.legs[i].strike : i \in DOMAIN strategy.legs} = applied.strikes
                       /\ DetectStrategy(strategy.legs) = CardName(applied.template, applied.direction)
    BY DEF StrategyIsKept
  <2>1. /\ applied.template \in DOMAIN TemplateCards
        /\ applied.direction \in {"buy", "sell"}
        /\ OfCard(strategy.legs, applied)
    BY DEF BuilderInv
  <2>2. applied.strikes = {strategy.legs[i].strike : i \in DOMAIN strategy.legs}
    BY <2>1 DEF OfCard
  <2>. QED  BY <2>1, <2>2, CardsNamed DEF Named
<1>. QED  BY <1>1, BuilderInvariance, PTL

-------------------------------------------------------------------------------
(***************************************************************************)
(* The sum of a few numbers, whatever the order they are added in.         *)
(***************************************************************************)
LEMMA SumOfOne ==
  ASSUME NEW values, NEW S, NEW sum, Stepped(values, S, sum), NEW a \in S
  PROVE  sum[{a}] = values[a]
<1>1. (CHOOSE x \in {a} : TRUE) = a /\ {a} \ {a} = {} /\ {a} # {}
  OBVIOUS
<1>2. sum[{a}] = values[a] + sum[{}] /\ sum[{}] = 0
  BY <1>1 DEF Stepped, StepOf
<1>3. values[a] \in Int
  BY DEF Stepped
<1>. QED  BY <1>2, <1>3

LEMMA SumOfTwo ==
  ASSUME NEW values, NEW S, NEW sum, Stepped(values, S, sum), NEW a \in S, NEW b \in S, a # b
  PROVE  sum[{a, b}] = values[a] + values[b]
<1>. DEFINE x == CHOOSE y \in {a, b} : TRUE
<1>1. x = a \/ x = b
  OBVIOUS
<1>2. sum[{a, b}] = values[x] + sum[{a, b} \ {x}]
  BY DEF Stepped, StepOf
<1>3. sum[{a}] = values[a] /\ sum[{b}] = values[b] /\ values[a] \in Int /\ values[b] \in Int
  BY SumOfOne DEF Stepped
<1>. HIDE DEF x
<1>4. CASE x = a
  <2>1. {a, b} \ {a} = {b}
    OBVIOUS
  <2>. QED  BY <1>2, <1>3, <1>4, <2>1
<1>5. CASE x = b
  <2>1. {a, b} \ {b} = {a}
    OBVIOUS
  <2>2. sum[{a, b}] = values[b] + values[a]
    BY <1>2, <1>3, <1>5, <2>1
  <2>. QED  BY <1>3, <2>2
<1>. QED  BY <1>1, <1>4, <1>5

LEMMA SumOfThree ==
  ASSUME NEW values, NEW S, NEW sum, Stepped(values, S, sum),
         NEW a \in S, NEW b \in S, NEW c \in S, a # b, a # c, b # c
  PROVE  sum[{a, b, c}] = values[a] + values[b] + values[c]
<1>. DEFINE x == CHOOSE y \in {a, b, c} : TRUE
<1>1. x = a \/ x = b \/ x = c
  OBVIOUS
<1>2. sum[{a, b, c}] = values[x] + sum[{a, b, c} \ {x}]
  BY DEF Stepped, StepOf
<1>3. /\ sum[{a, b}] = values[a] + values[b] /\ sum[{a, c}] = values[a] + values[c]
      /\ sum[{b, c}] = values[b] + values[c]
  <2>1. \A u, v \in S : u # v => sum[{u, v}] = values[u] + values[v]
    BY SumOfTwo
  <2>. QED  BY <2>1
<1>4. values[a] \in Int /\ values[b] \in Int /\ values[c] \in Int
  BY DEF Stepped
<1>. HIDE DEF x
<1>5. {a, b, c} \ {a} = {b, c} /\ {a, b, c} \ {b} = {a, c} /\ {a, b, c} \ {c} = {a, b}
  OBVIOUS
<1>6. CASE x = a
  <2>1. sum[{a, b, c}] = values[a] + sum[{b, c}]
    BY <1>2, <1>5, <1>6
  <2>. QED  BY <1>3, <1>4, <2>1
<1>7. CASE x = b
  <2>1. sum[{a, b, c}] = values[b] + sum[{a, c}]
    BY <1>2, <1>5, <1>7
  <2>. QED  BY <1>3, <1>4, <2>1
<1>8. CASE x = c
  <2>1. sum[{a, b, c}] = values[c] + sum[{a, b}]
    BY <1>2, <1>5, <1>8
  <2>. QED  BY <1>3, <1>4, <2>1
<1>. QED  BY <1>1, <1>6, <1>7, <1>8

LEMMA SumOfFour ==
  ASSUME NEW values, NEW S, NEW sum, Stepped(values, S, sum),
         NEW a \in S, NEW b \in S, NEW c \in S, NEW d \in S,
         a # b, a # c, a # d, b # c, b # d, c # d
  PROVE  sum[{a, b, c, d}] = values[a] + values[b] + values[c] + values[d]
<1>. DEFINE x == CHOOSE y \in {a, b, c, d} : TRUE
<1>1. x = a \/ x = b \/ x = c \/ x = d
  OBVIOUS
<1>2. sum[{a, b, c, d}] = values[x] + sum[{a, b, c, d} \ {x}]
  BY DEF Stepped, StepOf
<1>3. /\ sum[{a, b, c}] = values[a] + values[b] + values[c]
      /\ sum[{a, b, d}] = values[a] + values[b] + values[d]
      /\ sum[{a, c, d}] = values[a] + values[c] + values[d]
      /\ sum[{b, c, d}] = values[b] + values[c] + values[d]
  BY SumOfThree
<1>4. values[a] \in Int /\ values[b] \in Int /\ values[c] \in Int /\ values[d] \in Int
  BY DEF Stepped
<1>. HIDE DEF x
<1>5. /\ {a, b, c, d} \ {a} = {b, c, d} /\ {a, b, c, d} \ {b} = {a, c, d}
      /\ {a, b, c, d} \ {c} = {a, b, d} /\ {a, b, c, d} \ {d} = {a, b, c}
  OBVIOUS
<1>6. CASE x = a
  <2>1. sum[{a, b, c, d}] = values[a] + sum[{b, c, d}]
    BY <1>2, <1>5, <1>6
  <2>. QED  BY <1>3, <1>4, <2>1
<1>7. CASE x = b
  <2>1. sum[{a, b, c, d}] = values[b] + sum[{a, c, d}]
    BY <1>2, <1>5, <1>7
  <2>. QED  BY <1>3, <1>4, <2>1
<1>8. CASE x = c
  <2>1. sum[{a, b, c, d}] = values[c] + sum[{a, b, d}]
    BY <1>2, <1>5, <1>8
  <2>. QED  BY <1>3, <1>4, <2>1
<1>9. CASE x = d
  <2>1. sum[{a, b, c, d}] = values[d] + sum[{a, b, c}]
    BY <1>2, <1>5, <1>9
  <2>. QED  BY <1>3, <1>4, <2>1
<1>. QED  BY <1>1, <1>6, <1>7, <1>8, <1>9

-------------------------------------------------------------------------------
(***************************************************************************)
(* The value of a template's legs, or of two, changes from rising to       *)
(* falling, or the other way, at most once.                                *)
(***************************************************************************)
\* Where the value goes on beyond an end, what is between does not outdo the
\* ends.
Outdone(before, first, at, last, after) ==
  /\ after > last \/ before > first => at <= first \/ at <= last
  /\ after < last \/ before < first => at >= first \/ at >= last

EndsLead(f) ==
  \A low, p, high \in Int :
    low <= p /\ p <= high => Outdone(f[low - 1], f[low], f[p], f[high], f[high + 1])

\* What is paid beyond a strike.
Above(k, x) == IF x > k THEN x - k ELSE 0

LEMMA EndsLeadBack ==
  ASSUME NEW f \in [Int -> Int], NEW g \in [Int -> Int], \A x \in Int : g[x] = 0 - f[x], EndsLead(f)
  PROVE  EndsLead(g)
<1>. SUFFICES ASSUME NEW low \in Int, NEW p \in Int, NEW high \in Int, low <= p, p <= high
              PROVE  Outdone(g[low - 1], g[low], g[p], g[high], g[high + 1])
  BY DEF EndsLead
<1>1. Outdone(f[low - 1], f[low], f[p], f[high], f[high + 1])
  BY DEF EndsLead
<1>. QED  BY <1>1 DEF Outdone

\* Two calls that are bought, and a spread; and what is worth the price itself.
AreBought(f, j, k, m, e) == \A x \in Int : f[x] = Above(j, x) + Above(k, x) + m * x + e
AreSpread(f, j, k, m, e) == \A x \in Int : f[x] = Above(j, x) - Above(k, x) + m * x + e

LEMMA BoughtLead ==
  ASSUME NEW f, NEW j \in Int, NEW k \in Int, NEW m \in {0 - 2, 0 - 1, 0}, NEW e \in Int,
         AreBought(f, j, k, m, e)
  PROVE  EndsLead(f)
<1>. SUFFICES ASSUME NEW low \in Int, NEW p \in Int, NEW high \in Int, low <= p, p <= high
              PROVE  Outdone(f[low - 1], f[low], f[p], f[high], f[high + 1])
  BY DEF EndsLead
<1>0. m = 0 - 2 \/ m = 0 - 1 \/ m = 0
  OBVIOUS
<1>1. CASE m = 0
  BY <1>1 DEF Outdone, Above, AreBought
<1>2. CASE m = 0 - 1
  BY <1>2 DEF Outdone, Above, AreBought
<1>3. CASE m = 0 - 2
  BY <1>3 DEF Outdone, Above, AreBought
<1>. QED  BY <1>0, <1>1, <1>2, <1>3

LEMMA SpreadLeads ==
  ASSUME NEW f, NEW j \in Int, NEW k \in Int, NEW m \in {0 - 1, 0, 1}, NEW e \in Int,
         AreSpread(f, j, k, m, e)
  PROVE  EndsLead(f)
<1>. SUFFICES ASSUME NEW low \in Int, NEW p \in Int, NEW high \in Int, low <= p, p <= high
              PROVE  Outdone(f[low - 1], f[low], f[p], f[high], f[high + 1])
  BY DEF EndsLead
<1>0. m = 0 - 1 \/ m = 0 \/ m = 1
  OBVIOUS
<1>1. CASE m = 0
  BY <1>1 DEF Outdone, Above, AreSpread
<1>2. CASE m = 0 - 1
  BY <1>2 DEF Outdone, Above, AreSpread
<1>3. CASE m = 1
  BY <1>3 DEF Outdone, Above, AreSpread
<1>. QED  BY <1>0, <1>1, <1>2, <1>3

LEMMA OneLeads ==
  ASSUME NEW j \in Int, NEW e \in Int, NEW m \in {0 - 1, 0}, NEW f,
         \A x \in Int : f[x] = Above(j, x)  + m * x + e
  PROVE  EndsLead(f)
<1>. SUFFICES ASSUME NEW low \in Int, NEW p \in Int, NEW high \in Int, low <= p, p <= high
              PROVE  Outdone(f[low - 1], f[low], f[p], f[high], f[high + 1])
  BY DEF EndsLead
<1>0. m = 0 - 1 \/ m = 0
  OBVIOUS
<1>1. CASE m = 0
  BY <1>1 DEF Outdone, Above
<1>2. CASE m = 0 - 1
  BY <1>2 DEF Outdone, Above
<1>. QED  BY <1>0, <1>1, <1>2

IsButterflyOf(f, i, j, k, e) ==
  \A x \in Int : f[x] = Above(i, x) - 2 * Above(j, x) + Above(k, x) + e

LEMMA ButterflyLeads ==
  ASSUME NEW f, NEW i \in Int, NEW j \in Int, NEW k \in Int, NEW e \in Int,
         IsButterflyOf(f, i, j, k, e)
  PROVE  EndsLead(f)
<1>. SUFFICES ASSUME NEW low \in Int, NEW p \in Int, NEW high \in Int, low <= p, p <= high
              PROVE  Outdone(f[low - 1], f[low], f[p], f[high], f[high + 1])
  BY DEF EndsLead
<1>. QED  BY DEF Outdone, Above, IsButterflyOf

IsCondorOf(f, h, i, j, k, e) ==
  \A x \in Int : f[x] = Above(i, x) - Above(h, x) + Above(j, x) - Above(k, x) + e

LEMMA CondorLeads ==
  ASSUME NEW f, NEW h \in Int, NEW i \in Int, NEW j \in Int, NEW k \in Int, NEW e \in Int,
         IsCondorOf(f, h, i, j, k, e)
  PROVE  EndsLead(f)
<1>. SUFFICES ASSUME NEW low \in Int, NEW p \in Int, NEW high \in Int, low <= p, p <= high
              PROVE  Outdone(f[low - 1], f[low], f[p], f[high], f[high + 1])
  BY DEF EndsLead
<1>. QED  BY DEF Outdone, Above, IsCondorOf

\* A put is a call and the price itself.
Tilt(leg) == IF leg.type = "call" THEN 0 ELSE 0 - 1
Base(leg) == IF leg.type = "call" THEN 0 - leg.entryPrice ELSE leg.strike - leg.entryPrice

LEMMA AtLeastNothing ==
  ASSUME NEW gain \in Int
  PROVE  Max({0, gain}) = IF 0 <= gain THEN gain ELSE 0
<1>1. \A a \in Int : Max({a, gain}) = IF a <= gain THEN gain ELSE a
  BY MinMaxOfTwo
<1>. QED  BY <1>1

LEMMA LegIsTilted ==
  ASSUME NEW leg, IsLeg(leg), NEW x \in Int
  PROVE  /\ LegPnlAtExpiry(leg, x)
              = Sign(leg) * (Above(leg.strike, x) + Tilt(leg) * x + Base(leg)) * leg.quantity
         /\ LegPnlAtExpiry(leg, x) \in Int
<1>1. leg.strike \in Int /\ leg.entryPrice \in Int /\ leg.quantity \in Int /\ leg.type \in Sides
      /\ Sign(leg) \in Int
  BY DEF IsLeg, Sign
<1>2. CASE leg.type = "call"
  <2>. DEFINE gain == x - leg.strike
  <2>0. gain \in Int /\ Intrinsic(leg, x) = Max({0, gain})
    BY <1>1, <1>2 DEF Intrinsic
  <2>. HIDE DEF gain
  <2>1. Intrinsic(leg, x) = IF 0 <= x - leg.strike THEN x - leg.strike ELSE 0
    <3>1. Max({0, gain}) = IF 0 <= gain THEN gain ELSE 0
      BY <2>0, AtLeastNothing
    <3>. QED  BY <2>0, <3>1 DEF gain
  <2>2. Intrinsic(leg, x) - leg.entryPrice = Above(leg.strike, x) + Tilt(leg) * x + Base(leg)
    BY <1>1, <1>2, <2>1 DEF Above, Tilt, Base
  <2>3. Intrinsic(leg, x) - leg.entryPrice \in Int
    BY <1>1, <2>1
  <2>. QED  BY <1>1, <2>2, <2>3 DEF LegPnlAtExpiry
<1>3. CASE leg.type = "put"
  <2>. DEFINE gain == leg.strike - x
  <2>0. gain \in Int /\ Intrinsic(leg, x) = Max({0, gain})
    BY <1>1, <1>3 DEF Intrinsic
  <2>. HIDE DEF gain
  <2>1. Intrinsic(leg, x) = IF 0 <= leg.strike - x THEN leg.strike - x ELSE 0
    <3>1. Max({0, gain}) = IF 0 <= gain THEN gain ELSE 0
      BY <2>0, AtLeastNothing
    <3>. QED  BY <2>0, <3>1 DEF gain
  <2>2. Intrinsic(leg, x) - leg.entryPrice = Above(leg.strike, x) + Tilt(leg) * x + Base(leg)
    BY <1>1, <1>3, <2>1 DEF Above, Tilt, Base
  <2>3. Intrinsic(leg, x) - leg.entryPrice \in Int
    BY <1>1, <2>1
  <2>. QED  BY <1>1, <2>2, <2>3 DEF LegPnlAtExpiry
<1>. QED  BY <1>1, <1>2, <1>3 DEF Sides

\* What the legs are worth, one after the other.
LEMMA PnlIsSum ==
  ASSUME NEW legs, NEW n \in 1..4, DOMAIN legs = 1..n, \A i \in 1..n : IsLeg(legs[i]),
         NEW x \in Int
  PROVE  LET Pnl(i) == LegPnlAtExpiry(legs[i], x)
         IN PnlAt(legs, x) = CASE n = 1 -> Pnl(1)
                               [] n = 2 -> Pnl(1) + Pnl(2)
                               [] n = 3 -> Pnl(1) + Pnl(2) + Pnl(3)
                               [] n = 4 -> Pnl(1) + Pnl(2) + Pnl(3) + Pnl(4)
<1>. DEFINE pnl == [i \in DOMAIN legs |-> LegPnlAtExpiry(legs[i], x)]
            S == DOMAIN legs
<1>1. PnlAt(legs, x) = Total(pnl, S)
  BY DEF PnlAt, Total
<1>2. IsFiniteSet(S)
  BY FS_Interval
<1>3. \A i \in S : pnl[i] \in Int /\ pnl[i] = LegPnlAtExpiry(legs[i], x)
  BY LegIsTilted
<1>. HIDE DEF pnl
<1>4. PICK sum : Stepped(pnl, S, sum) /\ Total(pnl, S) = sum[S]
  BY <1>2, <1>3, SumIsStepped
<1>. HIDE DEF S
<1>5. CASE n = 1
  <2>1. S = {1} /\ 1 \in S
    BY <1>5 DEF S
  <2>. QED  BY <1>1, <1>3, <1>4, <1>5, <2>1, SumOfOne
<1>6. CASE n = 2
  <2>1. S = {1, 2} /\ 1 \in S /\ 2 \in S
    BY <1>6 DEF S
  <2>2. \A a, b \in S : a # b => sum[{a, b}] = pnl[a] + pnl[b]
    BY <1>4, SumOfTwo
  <2>3. sum[{1, 2}] = pnl[1] + pnl[2]
    BY <2>1, <2>2
  <2>. QED  BY <1>1, <1>3, <1>4, <1>6, <2>1, <2>3
<1>7. CASE n = 3
  <2>1. S = {1, 2, 3} /\ 1 \in S /\ 2 \in S /\ 3 \in S
    BY <1>7 DEF S
  <2>2. sum[{1, 2, 3}] = pnl[1] + pnl[2] + pnl[3]
    BY <1>4, <2>1, SumOfThree
  <2>. QED  BY <1>1, <1>3, <1>4, <1>7, <2>1, <2>2
<1>8. CASE n = 4
  <2>1. S = {1, 2, 3, 4} /\ 1 \in S /\ 2 \in S /\ 3 \in S /\ 4 \in S
    BY <1>8 DEF S
  <2>2. sum[{1, 2, 3, 4}] = pnl[1] + pnl[2] + pnl[3] + pnl[4]
    BY <1>4, <2>1, SumOfFour
  <2>. QED  BY <1>1, <1>3, <1>4, <1>8, <2>1, <2>2
<1>. QED  BY <1>5, <1>6, <1>7, <1>8

IsLegs(legs) == legs \in Seq(ToSet(legs)) /\ \A leg \in ToSet(legs) : IsLeg(leg)

Plain(legs) == Len(legs) <= 2 /\ \A i \in DOMAIN legs : legs[i].quantity = 1

\* The legs of a card, at any strikes.
Like(legs, t, d) ==
  LET card == TemplateCards[t]
  IN /\ DOMAIN legs = DOMAIN card
     /\ \A i \in DOMAIN card :
          /\ legs[i].type = card[i].type
          /\ legs[i].direction = IF card[i].with THEN d ELSE Against(d)
          /\ legs[i].quantity = card[i].quantity

ValueOf(legs) == [x \in Int |-> PnlAt(legs, x)]

LEMMA ValueIsNumber ==
  ASSUME NEW legs, NEW n \in 1..4, DOMAIN legs = 1..n, \A i \in 1..n : IsLeg(legs[i])
  PROVE  ValueOf(legs) \in [Int -> Int]
<1>. SUFFICES ASSUME NEW x \in Int PROVE PnlAt(legs, x) \in Int
  BY DEF ValueOf
<1>. DEFINE pnl == [i \in DOMAIN legs |-> LegPnlAtExpiry(legs[i], x)]
            S == DOMAIN legs
<1>1. PnlAt(legs, x) = Total(pnl, S)
  BY DEF PnlAt, Total
<1>2. IsFiniteSet(S)
  BY FS_Interval
<1>3. \A i \in S : pnl[i] \in Int
  BY LegIsTilted
<1>. HIDE DEF pnl, S
<1>. QED  BY <1>1, <1>2, <1>3, SumIsWhole

\* What the legs are worth when all are turned round.
LEMMA EndsLeadEither ==
  ASSUME NEW f \in [Int -> Int], NEW d \in {"buy", "sell"}, NEW g \in [Int -> Int], EndsLead(g),
         \A x \in Int : f[x] = IF d = "buy" THEN g[x] ELSE 0 - g[x]
  PROVE  EndsLead(f)
<1>1. CASE d = "buy"
  <2>1. \A x \in Int : f[x] = g[x]
    BY <1>1
  <2>2. f = g
    BY <2>1
  <2>. QED  BY <2>2
<1>2. CASE d = "sell"
  <2>1. \A x \in Int : f[x] = 0 - g[x]
    BY <1>2
  <2>. QED  BY <2>1, EndsLeadBack
<1>. QED  BY <1>1, <1>2

LEMMA SingleLeads ==
  ASSUME NEW legs, DOMAIN legs = 1..1, IsLeg(legs[1]), legs[1].quantity = 1
  PROVE  EndsLead(ValueOf(legs))
<1>. DEFINE a == legs[1]
            f == ValueOf(legs)
            g == [x \in Int |-> Above(a.strike, x) + Tilt(a) * x + Base(a)]
<1>1. a.strike \in Int /\ Base(a) \in Int /\ Tilt(a) \in {0 - 1, 0} /\ a.direction \in {"buy", "sell"}
  BY DEF IsLeg, Base, Tilt
<1>2. f \in [Int -> Int]
  BY ValueIsNumber
<1>3. g \in [Int -> Int]
  BY <1>1 DEF Above
<1>4. ASSUME NEW x \in Int
      PROVE  f[x] = IF a.direction = "buy" THEN g[x] ELSE 0 - g[x]
  <2>1. f[x] = LegPnlAtExpiry(a, x)
    BY PnlIsSum DEF ValueOf
  <2>2. LegPnlAtExpiry(a, x) = Sign(a) * g[x] * 1
    BY LegIsTilted
  <2>3. g[x] \in Int
    BY <1>3
  <2>. HIDE DEF g, f, a
  <2>. QED  BY <2>1, <2>2, <2>3, <1>1 DEF Sign
<1>. HIDE DEF f
<1>5. EndsLead(g)
  <2>. DEFINE k == a.strike
              m == Tilt(a)
              e == Base(a)
  <2>1. k \in Int /\ e \in Int /\ m \in {0 - 1, 0}
    BY <1>1
  <2>2. \A x \in Int : g[x] = Above(k, x) + m * x + e
    OBVIOUS
  <2>. HIDE DEF k, m, e, g
  <2>. QED  BY <2>1, <2>2, OneLeads
<1>. HIDE DEF g
<1>. QED  BY <1>1, <1>2, <1>3, <1>4, <1>5, EndsLeadEither DEF f

LEMMA PairLeads ==
  ASSUME NEW legs, DOMAIN legs = 1..2, \A i \in 1..2 : IsLeg(legs[i]) /\ legs[i].quantity = 1
  PROVE  EndsLead(ValueOf(legs))
<1>. DEFINE a == legs[1]
            b == legs[2]
            j == a.strike
            k == b.strike
            f == ValueOf(legs)
            One(x) == Above(j, x) + Tilt(a) * x + Base(a)
            Two(x) == Above(k, x) + Tilt(b) * x + Base(b)
<1>0. IsLeg(a) /\ IsLeg(b) /\ a.quantity = 1 /\ b.quantity = 1
  OBVIOUS
<1>1. /\ j \in Int /\ k \in Int /\ Base(a) \in Int /\ Base(b) \in Int
      /\ Tilt(a) \in {0 - 1, 0} /\ Tilt(b) \in {0 - 1, 0}
      /\ a.direction \in {"buy", "sell"} /\ b.direction \in {"buy", "sell"}
  BY <1>0 DEF IsLeg, Base, Tilt
<1>2. f \in [Int -> Int]
  BY ValueIsNumber
<1>3. \A x \in Int : f[x] = Sign(a) * One(x) * 1 + Sign(b) * Two(x) * 1
  <2>. SUFFICES ASSUME NEW x \in Int
                PROVE  f[x] = Sign(a) * One(x) * 1 + Sign(b) * Two(x) * 1
    OBVIOUS
  <2>1. f[x] = LegPnlAtExpiry(a, x) + LegPnlAtExpiry(b, x)
    BY PnlIsSum DEF ValueOf
  <2>2. LegPnlAtExpiry(a, x) = Sign(a) * One(x) * 1 /\ LegPnlAtExpiry(b, x) = Sign(b) * Two(x) * 1
    BY <1>0, LegIsTilted
  <2>. QED  BY <2>1, <2>2
<1>4. \A x \in Int : One(x) \in Int /\ Two(x) \in Int
  BY <1>1 DEF Above
<1>. HIDE DEF f
<1>5. CASE a.direction = b.direction
  <2>. DEFINE m == Tilt(a) + Tilt(b)
              e == Base(a) + Base(b)
              g == [x \in Int |-> Above(j, x) + Above(k, x) + m * x + e]
  <2>1. m \in {0 - 2, 0 - 1, 0} /\ e \in Int
    BY <1>1
  <2>2. \A x \in Int : g[x] = One(x) + Two(x)
    <3>. SUFFICES ASSUME NEW x \in Int
                  PROVE  Above(j, x) + Above(k, x) + m * x + e = One(x) + Two(x)
      OBVIOUS
    <3>1. Above(j, x) \in Int /\ Above(k, x) \in Int
      BY <1>1 DEF Above
    <3>2. m * x = Tilt(a) * x + Tilt(b) * x /\ Tilt(a) * x \in Int /\ Tilt(b) * x \in Int
      BY <1>1
    <3>. HIDE DEF m
    <3>3. m * x \in Int
      BY <3>2
    <3>. QED  BY <1>1, <3>1, <3>2, <3>3
  <2>3. g \in [Int -> Int]
    <3>1. \A x \in Int : g[x] \in Int
      BY <1>4, <2>2
    <3>. QED  BY <3>1
  <2>4. EndsLead(g)
    <3>1. AreBought(g, j, k, m, e)
      BY DEF AreBought
    <3>2. j \in Int /\ k \in Int
      BY <1>1
    <3>. HIDE DEF g, m, e, j, k
    <3>. QED  BY <2>1, <3>1, <3>2, BoughtLead
  <2>. HIDE DEF g, One, Two
  <2>5. ASSUME NEW x \in Int
        PROVE  f[x] = IF a.direction = "buy" THEN g[x] ELSE 0 - g[x]
    <3>1. f[x] = Sign(a) * One(x) * 1 + Sign(b) * Two(x) * 1 /\ g[x] = One(x) + Two(x)
          /\ One(x) \in Int /\ Two(x) \in Int
      BY <1>3, <1>4, <2>2
    <3>2. CASE a.direction = "buy"
      <4>1. Sign(a) = 1 /\ Sign(b) = 1
        BY <1>5, <1>1, <3>2 DEF Sign
      <4>. QED  BY <3>1, <3>2, <4>1
    <3>3. CASE a.direction = "sell"
      <4>1. Sign(a) = 0 - 1 /\ Sign(b) = 0 - 1
        BY <1>5, <1>1, <3>3 DEF Sign
      <4>. QED  BY <3>1, <3>3, <4>1
    <3>. QED  BY <1>1, <3>2, <3>3
  <2>. QED  BY <1>1, <1>2, <2>3, <2>4, <2>5, EndsLeadEither DEF f
<1>6. CASE a.direction # b.direction
  <2>. DEFINE m == Tilt(a) - Tilt(b)
              e == Base(a) - Base(b)
              g == [x \in Int |-> Above(j, x) - Above(k, x) + m * x + e]
  <2>1. m \in {0 - 1, 0, 1} /\ e \in Int
    BY <1>1
  <2>2. \A x \in Int : g[x] = One(x) - Two(x)
    <3>. SUFFICES ASSUME NEW x \in Int
                  PROVE  Above(j, x) - Above(k, x) + m * x + e = One(x) - Two(x)
      OBVIOUS
    <3>1. Above(j, x) \in Int /\ Above(k, x) \in Int
      BY <1>1 DEF Above
    <3>2. m * x = Tilt(a) * x - Tilt(b) * x /\ Tilt(a) * x \in Int /\ Tilt(b) * x \in Int
      BY <1>1
    <3>. HIDE DEF m
    <3>3. m * x \in Int
      BY <3>2
    <3>. QED  BY <1>1, <3>1, <3>2, <3>3
  <2>3. g \in [Int -> Int]
    <3>1. \A x \in Int : g[x] \in Int
      BY <1>4, <2>2
    <3>. QED  BY <3>1
  <2>4. EndsLead(g)
    <3>1. AreSpread(g, j, k, m, e)
      BY DEF AreSpread
    <3>2. j \in Int /\ k \in Int
      BY <1>1
    <3>. HIDE DEF g, m, e, j, k
    <3>. QED  BY <2>1, <3>1, <3>2, SpreadLeads
  <2>. HIDE DEF g, One, Two
  <2>5. ASSUME NEW x \in Int
        PROVE  f[x] = IF a.direction = "buy" THEN g[x] ELSE 0 - g[x]
    <3>1. f[x] = Sign(a) * One(x) * 1 + Sign(b) * Two(x) * 1 /\ g[x] = One(x) - Two(x)
          /\ One(x) \in Int /\ Two(x) \in Int
      BY <1>3, <1>4, <2>2
    <3>2. CASE a.direction = "buy"
      <4>1. Sign(a) = 1 /\ Sign(b) = 0 - 1
        BY <1>6, <1>1, <3>2 DEF Sign
      <4>. QED  BY <3>1, <3>2, <4>1
    <3>3. CASE a.direction = "sell"
      <4>1. Sign(a) = 0 - 1 /\ Sign(b) = 1
        BY <1>6, <1>1, <3>3 DEF Sign
      <4>. QED  BY <3>1, <3>3, <4>1
    <3>. QED  BY <1>1, <3>2, <3>3
  <2>. QED  BY <1>1, <1>2, <2>3, <2>4, <2>5, EndsLeadEither DEF f
<1>. QED  BY <1>5, <1>6 DEF f

LEMMA ButterflyOutdone ==
  ASSUME NEW legs, NEW d \in {"buy", "sell"}, Like(legs, "Butterfly", d),
         \A i \in DOMAIN legs : IsLeg(legs[i])
  PROVE  EndsLead(ValueOf(legs))
<1>. DEFINE f == ValueOf(legs)
            K(i) == legs[i].strike
            e == Base(legs[1]) - 2 * Base(legs[2]) + Base(legs[3])
            g == [x \in Int |-> Above(K(1), x) - 2 * Above(K(2), x) + Above(K(3), x) + e]
            One(i, x) == Above(K(i), x) + Base(legs[i])
<1>1. /\ DOMAIN legs = 1..3 /\ \A i \in 1..3 : legs[i].type = "call"
      /\ legs[1].direction = d /\ legs[2].direction = Against(d) /\ legs[3].direction = d
      /\ legs[1].quantity = 1 /\ legs[2].quantity = 2 /\ legs[3].quantity = 1
  BY DEF Like, TemplateCards, Part
<1>2. \A i \in 1..3 : K(i) \in Int /\ Base(legs[i]) \in Int /\ Tilt(legs[i]) = 0
  BY <1>1 DEF IsLeg, Base, Tilt
<1>3. \A i \in 1..3 : \A x \in Int : Above(K(i), x) \in Int /\ One(i, x) \in Int
  BY <1>2 DEF Above
<1>4. f \in [Int -> Int]
  BY <1>1, ValueIsNumber
<1>5. ASSUME NEW x \in Int
      PROVE  f[x] = Sign(legs[1]) * One(1, x) * 1 + Sign(legs[2]) * One(2, x) * 2
                      + Sign(legs[3]) * One(3, x) * 1
  <2>1. f[x] = LegPnlAtExpiry(legs[1], x) + LegPnlAtExpiry(legs[2], x) + LegPnlAtExpiry(legs[3], x)
    BY <1>1, PnlIsSum DEF ValueOf
  <2>2. ASSUME NEW i \in 1..3
        PROVE  LegPnlAtExpiry(legs[i], x) = Sign(legs[i]) * One(i, x) * legs[i].quantity
    <3>1. LegPnlAtExpiry(legs[i], x)
            = Sign(legs[i]) * (Above(K(i), x) + Tilt(legs[i]) * x + Base(legs[i])) * legs[i].quantity
      BY <1>1, LegIsTilted
    <3>2. Tilt(legs[i]) = 0 /\ Above(K(i), x) \in Int /\ Base(legs[i]) \in Int
      BY <1>2, <1>3
    <3>3. Above(K(i), x) + 0 * x + Base(legs[i]) = One(i, x)
      BY <3>2
    <3>. QED  BY <3>1, <3>2, <3>3
  <2>. HIDE DEF f, One
  <2>. QED  BY <1>1, <2>1, <2>2
<1>6. e \in Int
  BY <1>2
<1>7. g \in [Int -> Int] /\ \A x \in Int : g[x] = One(1, x) - 2 * One(2, x) + One(3, x)
  <2>1. ASSUME NEW x \in Int
        PROVE  g[x] \in Int /\ g[x] = One(1, x) - 2 * One(2, x) + One(3, x)
    <3>1. \A i \in 1..3 : Above(K(i), x) \in Int /\ Base(legs[i]) \in Int
      BY <1>2, <1>3
    <3>2. g[x] = Above(K(1), x) - 2 * Above(K(2), x) + Above(K(3), x) + e
      OBVIOUS
    <3>. HIDE DEF g
    <3>. QED  BY <3>1, <3>2
  <2>. QED  BY <2>1
<1>8. EndsLead(g)
  <2>1. IsButterflyOf(g, K(1), K(2), K(3), e)
    BY DEF IsButterflyOf
  <2>2. K(1) \in Int /\ K(2) \in Int /\ K(3) \in Int
    BY <1>2
  <2>. HIDE DEF g, e, K
  <2>. QED  BY <1>6, <2>1, <2>2, ButterflyLeads
<1>9. ASSUME NEW x \in Int
      PROVE  f[x] = IF d = "buy" THEN g[x] ELSE 0 - g[x]
  <2>1. /\ f[x] = Sign(legs[1]) * One(1, x) * 1 + Sign(legs[2]) * One(2, x) * 2
                     + Sign(legs[3]) * One(3, x) * 1
        /\ g[x] = One(1, x) - 2 * One(2, x) + One(3, x)
        /\ One(1, x) \in Int /\ One(2, x) \in Int /\ One(3, x) \in Int
    BY <1>3, <1>5, <1>7
  <2>2. CASE d = "buy"
    <3>1. Sign(legs[1]) = 1 /\ Sign(legs[2]) = 0 - 1 /\ Sign(legs[3]) = 1
      BY <1>1, <2>2 DEF Sign, Against
    <3>. HIDE DEF f, g, One
    <3>. QED  BY <2>1, <2>2, <3>1
  <2>3. CASE d = "sell"
    <3>1. Sign(legs[1]) = 0 - 1 /\ Sign(legs[2]) = 1 /\ Sign(legs[3]) = 0 - 1
      BY <1>1, <2>3 DEF Sign, Against
    <3>. HIDE DEF f, g, One
    <3>. QED  BY <2>1, <2>3, <3>1
  <2>. QED  BY <2>2, <2>3
<1>. HIDE DEF f, g
<1>. QED  BY <1>4, <1>7, <1>8, <1>9, EndsLeadEither DEF f

LEMMA CondorOutdone ==
  ASSUME NEW legs, NEW d \in {"buy", "sell"}, Like(legs, "IronCondor", d),
         \A i \in DOMAIN legs : IsLeg(legs[i])
  PROVE  EndsLead(ValueOf(legs))
<1>. DEFINE f == ValueOf(legs)
            K(i) == legs[i].strike
            e == Base(legs[2]) - Base(legs[1]) + Base(legs[3]) - Base(legs[4])
            g == [x \in Int |->
                    Above(K(2), x) - Above(K(1), x) + Above(K(3), x) - Above(K(4), x) + e]
            One(i, x) == Above(K(i), x) + Tilt(legs[i]) * x + Base(legs[i])
<1>1. /\ DOMAIN legs = 1..4
      /\ legs[1].type = "put" /\ legs[2].type = "put"
      /\ legs[3].type = "call" /\ legs[4].type = "call"
      /\ legs[1].direction = Against(d) /\ legs[2].direction = d
      /\ legs[3].direction = d /\ legs[4].direction = Against(d)
      /\ \A i \in 1..4 : legs[i].quantity = 1
  BY DEF Like, TemplateCards, Part
<1>2. /\ \A i \in 1..4 : K(i) \in Int /\ Base(legs[i]) \in Int
      /\ Tilt(legs[1]) = 0 - 1 /\ Tilt(legs[2]) = 0 - 1 /\ Tilt(legs[3]) = 0 /\ Tilt(legs[4]) = 0
  BY <1>1 DEF IsLeg, Base, Tilt
<1>3. \A i \in 1..4 : \A x \in Int : Above(K(i), x) \in Int /\ One(i, x) \in Int
  <2>. SUFFICES ASSUME NEW i \in 1..4, NEW x \in Int
                PROVE  Above(K(i), x) \in Int /\ One(i, x) \in Int
    OBVIOUS
  <2>1. Above(K(i), x) \in Int
    BY <1>2 DEF Above
  <2>2. Tilt(legs[i]) \in Int
    BY DEF Tilt
  <2>. QED  BY <1>2, <2>1, <2>2
<1>4. f \in [Int -> Int]
  BY <1>1, ValueIsNumber
<1>5. ASSUME NEW x \in Int
      PROVE  f[x] = Sign(legs[1]) * One(1, x) * 1 + Sign(legs[2]) * One(2, x) * 1
                      + Sign(legs[3]) * One(3, x) * 1 + Sign(legs[4]) * One(4, x) * 1
  <2>1. f[x] = LegPnlAtExpiry(legs[1], x) + LegPnlAtExpiry(legs[2], x)
                 + LegPnlAtExpiry(legs[3], x) + LegPnlAtExpiry(legs[4], x)
    BY <1>1, PnlIsSum DEF ValueOf
  <2>2. \A i \in 1..4 : LegPnlAtExpiry(legs[i], x) = Sign(legs[i]) * One(i, x) * 1
    BY <1>1, LegIsTilted
  <2>. HIDE DEF f, One
  <2>. QED  BY <2>1, <2>2
<1>6. e \in Int
  BY <1>2
<1>7. g \in [Int -> Int] /\ \A x \in Int : g[x] = One(2, x) - One(1, x) + One(3, x) - One(4, x)
  <2>1. ASSUME NEW x \in Int
        PROVE  g[x] \in Int /\ g[x] = One(2, x) - One(1, x) + One(3, x) - One(4, x)
    <3>1. \A i \in 1..4 : Above(K(i), x) \in Int /\ Base(legs[i]) \in Int
      BY <1>2, <1>3
    <3>2. g[x] = Above(K(2), x) - Above(K(1), x) + Above(K(3), x) - Above(K(4), x) + e
      OBVIOUS
    <3>3. /\ One(1, x) = Above(K(1), x) - x + Base(legs[1])
          /\ One(2, x) = Above(K(2), x) - x + Base(legs[2])
          /\ One(3, x) = Above(K(3), x) + Base(legs[3])
          /\ One(4, x) = Above(K(4), x) + Base(legs[4])
      BY <1>2, <3>1
    <3>. HIDE DEF g, One
    <3>. QED  BY <3>1, <3>2, <3>3
  <2>. QED  BY <2>1
<1>8. EndsLead(g)
  <2>1. IsCondorOf(g, K(1), K(2), K(3), K(4), e)
    BY DEF IsCondorOf
  <2>2. K(1) \in Int /\ K(2) \in Int /\ K(3) \in Int /\ K(4) \in Int
    BY <1>2
  <2>. HIDE DEF g, e, K
  <2>. QED  BY <1>6, <2>1, <2>2, CondorLeads
<1>9. ASSUME NEW x \in Int
      PROVE  f[x] = IF d = "buy" THEN g[x] ELSE 0 - g[x]
  <2>1. /\ f[x] = Sign(legs[1]) * One(1, x) * 1 + Sign(legs[2]) * One(2, x) * 1
                     + Sign(legs[3]) * One(3, x) * 1 + Sign(legs[4]) * One(4, x) * 1
        /\ g[x] = One(2, x) - One(1, x) + One(3, x) - One(4, x)
        /\ One(1, x) \in Int /\ One(2, x) \in Int /\ One(3, x) \in Int /\ One(4, x) \in Int
    BY <1>3, <1>5, <1>7
  <2>2. CASE d = "buy"
    <3>1. Sign(legs[1]) = 0 - 1 /\ Sign(legs[2]) = 1 /\ Sign(legs[3]) = 1 /\ Sign(legs[4]) = 0 - 1
      BY <1>1, <2>2 DEF Sign, Against
    <3>. HIDE DEF f, g, One
    <3>. QED  BY <2>1, <2>2, <3>1
  <2>3. CASE d = "sell"
    <3>1. Sign(legs[1]) = 1 /\ Sign(legs[2]) = 0 - 1 /\ Sign(legs[3]) = 0 - 1 /\ Sign(legs[4]) = 1
      BY <1>1, <2>3 DEF Sign, Against
    <3>. HIDE DEF f, g, One
    <3>. QED  BY <2>1, <2>3, <3>1
  <2>. QED  BY <2>2, <2>3
<1>. HIDE DEF f, g
<1>. QED  BY <1>4, <1>7, <1>8, <1>9, EndsLeadEither DEF f

\* A part of a range lies within it.
LEMMA PartOfRange ==
  ASSUME NEW n \in Nat \ {0}, NEW w \in Nat, NEW k \in 0..n
  PROVE  (k * w) \div n \in 0..w /\ (0 * w) \div n = 0 /\ (n * w) \div n = w
<1>1. k * w \in Nat /\ k * w <= n * w
  OBVIOUS
<1>2. \A a \in Nat : a <= n * w => a \div n \in Int /\ 0 <= a \div n /\ a \div n <= w
  OBVIOUS
<1>3. (0 * w) \div n = 0
  OBVIOUS
<1>4. (n * w) \div n = w
  OBVIOUS
<1>. QED  BY <1>1, <1>2, <1>3, <1>4

LEMMA RangeIsOrdered ==
  ASSUME NEW legs, NEW n \in 1..4, DOMAIN legs = 1..n, \A i \in 1..n : legs[i].strike \in Int,
         NEW spot \in Nat
  PROVE  LET drawn == PayoffRange(legs, spot)
         IN drawn.low \in Nat /\ drawn.high \in Int /\ drawn.low <= drawn.high
<1>. DEFINE strikes == {legs[i].strike : i \in DOMAIN legs}
            wide == ((Max(strikes) - Min(strikes)) * 3) \div 2
            third == (spot * 3) \div 10
            half == Max({wide, third})
            low == Max({0, spot - half})
<1>1. strikes \subseteq Int /\ strikes # {} /\ IsFiniteSet(strikes)
  <2>1. IsFiniteSet(1..n)
    <3>1. 1 \in Int /\ n \in Int
      OBVIOUS
    <3>. QED  BY <3>1, FS_Interval
  <2>2. \A S : IsFiniteSet(S) => IsFiniteSet({[i \in DOMAIN legs |-> legs[i].strike][x] : x \in S})
    BY ImageFinite
  <2>3. {[i \in DOMAIN legs |-> legs[i].strike][x] : x \in DOMAIN legs} = strikes
    OBVIOUS
  <2>4. IsFiniteSet(strikes)
    BY <2>1, <2>2, <2>3
  <2>5. 1 \in DOMAIN legs /\ \A i \in DOMAIN legs : legs[i].strike \in Int
    OBVIOUS
  <2>. QED  BY <2>4, <2>5
<1>2. Max(strikes) \in Int /\ Min(strikes) \in Int /\ Min(strikes) <= Max(strikes)
  <2>1. Max(strikes) \in strikes /\ Min(strikes) \in strikes /\ \A y \in strikes : y <= Max(strikes)
    BY <1>1, FiniteMax, FiniteMin
  <2>. HIDE DEF strikes
  <2>. QED  BY <1>1, <2>1
<1>. HIDE DEF strikes
<1>3. wide \in Int /\ third \in Nat
  BY <1>2
<1>. HIDE DEF wide, third
<1>4. half \in Nat
  <2>1. half = IF wide <= third THEN third ELSE wide
    <3>1. \A a, b \in Int : Max({a, b}) = IF a <= b THEN b ELSE a
      BY MinMaxOfTwo
    <3>. QED  BY <1>3, <3>1
  <2>. HIDE DEF half
  <2>. QED  BY <1>3, <2>1
<1>. HIDE DEF half
<1>5. low \in Nat /\ low <= spot
  <2>1. low = IF 0 <= spot - half THEN spot - half ELSE 0
    <3>1. spot - half \in Int
      BY <1>4
    <3>. QED  BY <3>1, AtLeastNothing
  <2>. HIDE DEF low
  <2>. QED  BY <1>4, <2>1
<1>. HIDE DEF low
<1>6. PayoffRange(legs, spot) = [low |-> low, high |-> spot + half]
  BY DEF PayoffRange, low, half, wide, third, strikes
<1>. QED  BY <1>4, <1>5, <1>6

LEMMA MetricsSayUnlimited ==
  ASSUME NEW legs, NEW n \in 1..4, DOMAIN legs = 1..n, \A i \in 1..n : IsLeg(legs[i]),
         EndsLead(ValueOf(legs)), NEW spot \in Nat, NEW points \in Nat \ {0}
  PROVE  LET metrics == ComputeMetrics(legs, spot, points)
             drawn   == PayoffRange(legs, spot)
             Rises(a, b) == PnlAt(legs, b) > PnlAt(legs, a)
         IN /\ Rises(drawn.high, drawn.high + 1) \/ Rises(drawn.low, drawn.low - 1)
                 => metrics.maxProfit = None
            /\ Rises(drawn.high + 1, drawn.high) \/ Rises(drawn.low - 1, drawn.low)
                 => metrics.maxLoss = None
<1>. DEFINE f == ValueOf(legs)
            drawn == PayoffRange(legs, spot)
            low == drawn.low
            high == drawn.high
            Price(i) == low + ((i - 1) * (high - low)) \div points
            last == points + 1
            payoff == ComputePayoff(legs, spot, points)
            pnls == {payoff[i].pnl : i \in DOMAIN payoff}
            edges == {payoff[1].pnl, payoff[Len(payoff)].pnl}
<1>1. f \in [Int -> Int] /\ \A x \in Int : f[x] = PnlAt(legs, x)
  BY ValueIsNumber DEF ValueOf
<1>2. low \in Int /\ high \in Int /\ low <= high
  <2>1. \A i \in 1..n : legs[i].strike \in Int
    BY DEF IsLeg
  <2>2. drawn.low \in Nat /\ drawn.high \in Int /\ drawn.low <= drawn.high
    BY <2>1, RangeIsOrdered
  <2>. HIDE DEF drawn
  <2>. QED  BY <2>2
<1>3. legs # <<>>
  BY DEF IsLeg
<1>. HIDE DEF drawn
<1>4. payoff = [i \in 1..last |-> [underlyingPrice |-> Price(i), pnl |-> PnlAt(legs, Price(i))]]
  BY <1>3 DEF ComputePayoff, drawn
<1>. HIDE DEF payoff, low, high
<1>5. \A i \in 1..last : Price(i) \in Int /\ low <= Price(i) /\ Price(i) <= high
  <2>. SUFFICES ASSUME NEW i \in 1..last
                PROVE  Price(i) \in Int /\ low <= Price(i) /\ Price(i) <= high
    OBVIOUS
  <2>. DEFINE w == high - low
              part == ((i - 1) * w) \div points
  <2>1. w \in Nat /\ i - 1 \in 0..points
    BY <1>2
  <2>. HIDE DEF w
  <2>2. part \in 0..w
    BY <2>1, PartOfRange
  <2>3. Price(i) = low + part
    BY DEF w
  <2>. HIDE DEF part, Price
  <2>. QED  BY <1>2, <2>2, <2>3 DEF w
<1>6. Price(1) = low /\ Price(last) = high
  <2>. DEFINE w == high - low
  <2>1. w \in Nat
    BY <1>2
  <2>2. (0 * w) \div points = 0 /\ (points * w) \div points = w
    <3>. HIDE DEF w
    <3>. QED  BY <2>1, PartOfRange
  <2>3. Price(1) = low + (0 * w) \div points /\ Price(last) = low + (points * w) \div points
    BY <1>2
  <2>. QED  BY <1>2, <2>2, <2>3
<1>. HIDE DEF Price
<1>7. DOMAIN payoff = 1..last /\ Len(payoff) = last /\ \A i \in 1..last : payoff[i].pnl = f[Price(i)]
  <2>1. last \in Nat /\ DOMAIN payoff = 1..last
    BY <1>4
  <2>2. \A i \in 1..last : f[Price(i)] = PnlAt(legs, Price(i))
    BY <1>1, <1>5
  <2>3. \A i \in 1..last : payoff[i].pnl = PnlAt(legs, Price(i))
    BY <1>4
  <2>. QED  BY <2>1, <2>2, <2>3
<1>8. edges = {f[low], f[high]}
  BY <1>6, <1>7
<1>9. pnls = {f[Price(i)] : i \in 1..last}
  BY <1>7
<1>10. pnls \subseteq Int /\ IsFiniteSet(pnls) /\ f[low] \in pnls /\ f[high] \in pnls
  <2>1. IsFiniteSet(1..last)
    BY FS_Interval
  <2>2. \A S : IsFiniteSet(S) => IsFiniteSet({[i \in 1..last |-> f[Price(i)]][x] : x \in S})
    BY ImageFinite
  <2>3. {[i \in 1..last |-> f[Price(i)]][x] : x \in 1..last} = pnls
    BY <1>9
  <2>4. \A i \in 1..last : f[Price(i)] \in Int
    BY <1>1, <1>5
  <2>5. 1 \in 1..last /\ last \in 1..last
    OBVIOUS
  <2>. QED  BY <1>6, <1>9, <2>1, <2>2, <2>3, <2>4, <2>5
<1>11. /\ Max(pnls) \in pnls /\ \A y \in pnls : y <= Max(pnls)
       /\ Min(pnls) \in pnls /\ \A y \in pnls : Min(pnls) <= y
  BY <1>10, FiniteMax, FiniteMin
<1>12. /\ f[low] \in Int /\ f[high] \in Int /\ f[low - 1] \in Int /\ f[high + 1] \in Int
  BY <1>1, <1>2
<1>13. /\ Max(edges) = IF f[low] <= f[high] THEN f[high] ELSE f[low]
       /\ Min(edges) = IF f[low] <= f[high] THEN f[low] ELSE f[high]
  BY <1>8, <1>12, MinMaxOfTwo
<1>14. \A y \in pnls : Outdone(f[low - 1], f[low], y, f[high], f[high + 1])
  <2>1. \A p \in Int : low <= p /\ p <= high => Outdone(f[low - 1], f[low], f[p], f[high], f[high + 1])
    BY <1>2 DEF EndsLead
  <2>2. \A i \in 1..last : Outdone(f[low - 1], f[low], f[Price(i)], f[high], f[high + 1])
    BY <1>5, <2>1
  <2>. QED  BY <1>9, <2>2
<1>15. ComputeMetrics(legs, spot, points)
         = [maxProfit |-> IF WithinDollar(Max(edges), Max(pnls)) THEN None ELSE Max(pnls),
            maxLoss   |-> IF WithinDollar(Min(edges), Min(pnls)) THEN None ELSE Min(pnls)]
  BY DEF ComputeMetrics, payoff
<1>. HIDE DEF pnls, edges, f
<1>16. f[high + 1] > f[high] \/ f[low - 1] > f[low] => Max(edges) = Max(pnls)
  <2>1. Outdone(f[low - 1], f[low], Max(pnls), f[high], f[high + 1]) /\ Max(pnls) \in Int
    BY <1>10, <1>11, <1>14
  <2>2. f[low] <= Max(pnls) /\ f[high] <= Max(pnls)
    BY <1>10, <1>11, <1>12
  <2>. QED  BY <1>12, <1>13, <2>1, <2>2 DEF Outdone
<1>17. f[high + 1] < f[high] \/ f[low - 1] < f[low] => Min(edges) = Min(pnls)
  <2>1. Outdone(f[low - 1], f[low], Min(pnls), f[high], f[high + 1]) /\ Min(pnls) \in Int
    BY <1>10, <1>11, <1>14
  <2>2. f[low] >= Min(pnls) /\ f[high] >= Min(pnls)
    BY <1>10, <1>11, <1>12
  <2>. QED  BY <1>12, <1>13, <2>1, <2>2 DEF Outdone
<1>18. /\ f[high + 1] = PnlAt(legs, high + 1) /\ f[high] = PnlAt(legs, high)
       /\ f[low - 1] = PnlAt(legs, low - 1) /\ f[low] = PnlAt(legs, low)
  BY <1>1, <1>2
<1>19. /\ PnlAt(legs, high + 1) > PnlAt(legs, high) \/ PnlAt(legs, low - 1) > PnlAt(legs, low)
            => ComputeMetrics(legs, spot, points).maxProfit = None
       /\ PnlAt(legs, high) > PnlAt(legs, high + 1) \/ PnlAt(legs, low) > PnlAt(legs, low - 1)
            => ComputeMetrics(legs, spot, points).maxLoss = None
  <2>1. \A x \in Int : WithinDollar(x, x)
    BY BuilderAssumption DEF WithinDollar, Distance
  <2>2. Max(edges) \in Int /\ Min(edges) \in Int
    BY <1>12, <1>13
  <2>3. Max(edges) = Max(pnls) => WithinDollar(Max(edges), Max(pnls))
    BY <2>1, <2>2
  <2>4. Min(edges) = Min(pnls) => WithinDollar(Min(edges), Min(pnls))
    BY <2>1, <2>2
  <2>5. Max(edges) = Max(pnls) => ComputeMetrics(legs, spot, points).maxProfit = None
    BY <1>15, <2>3
  <2>6. Min(edges) = Min(pnls) => ComputeMetrics(legs, spot, points).maxLoss = None
    BY <1>15, <2>4
  <2>. QED  BY <1>12, <1>16, <1>17, <1>18, <2>5, <2>6
<1>. QED  BY <1>19 DEF low, high, drawn

-------------------------------------------------------------------------------
(***************************************************************************)
(* The legs of a card: a butterfly's, a condor's, or at most two of one     *)
(* contract each.                                                          *)
(***************************************************************************)
Drawable(legs) ==
  /\ IsLegs(legs)
  /\ \/ Plain(legs)
     \/ \E t \in {"Butterfly", "IronCondor"}, d \in {"buy", "sell"} : Like(legs, t, d)

\* The legs that a card was applied for are so, whatever has priced them.
CardDrawn == applied # None => Drawable(strategy.legs)

CardInv == BuilderInv /\ CardDrawn

IsMarket(chain) ==
  /\ IsChain(chain)
  /\ {chain.stats.spotIndexUsd, chain.stats.indexPriceUsd} \subseteq Nat \cup {None}
  /\ \A s \in DOMAIN chain.strikes, right \in Sides :
       LET quotes == chain.strikes[s][right].venues
       IN /\ IsFiniteSet(DOMAIN quotes)
          /\ \A v \in DOMAIN quotes : {quotes[v].bid, quotes[v].ask} \subseteq Number

LEMMA DataIsMarket ==
  ASSUME BuilderInv, Data # None
  PROVE  IsMarket(Data)
<1>1. Shown \in DOMAIN Contents /\ Data = Contents[Shown] /\ IsChain(Data)
  BY DataIsChain DEF Data
<1>. HIDE DEF Shown
<1>. QED  BY <1>1, BuilderAssumption DEF IsMarket

\* Of the venues that have a price one has the best.
LEMMA BestHasPrice ==
  ASSUME NEW side, NEW from, NEW direction, IsFiniteSet(DOMAIN side.venues),
         \A v \in DOMAIN side.venues : {side.venues[v].bid, side.venues[v].ask} \subseteq Number,
         BestVenue(side, from, direction) # None
  PROVE  PriceFor(side.venues[BestVenue(side, from, direction)], direction) \in Int
<1>. DEFINE Price(v) == PriceFor(side.venues[v], direction)
            priced == {v \in DOMAIN side.venues \cap from : Price(v) # None /\ Price(v) > 0}
            Best(v) == \A w \in priced :
                         IF direction = "buy" THEN Price(v) <= Price(w) ELSE Price(v) >= Price(w)
            prices == {Price(v) : v \in priced}
<1>1. priced # {} /\ BestVenue(side, from, direction) = CHOOSE v \in priced : Best(v)
  BY DEF BestVenue
<1>2. \A v \in priced : Price(v) \in Int
  <2>. SUFFICES ASSUME NEW v \in priced PROVE Price(v) \in Int
    OBVIOUS
  <2>1. Price(v) \in Number /\ Price(v) # None
    BY DEF PriceFor
  <2>. QED  BY <2>1 DEF Number
<1>3. prices \subseteq Int /\ prices # {} /\ IsFiniteSet(prices)
  <2>1. IsFiniteSet(priced)
    BY FS_Subset
  <2>2. \A S : IsFiniteSet(S) => IsFiniteSet({[v \in priced |-> Price(v)][x] : x \in S})
    BY ImageFinite
  <2>. HIDE DEF priced, Price
  <2>3. {[v \in priced |-> Price(v)][x] : x \in priced} = prices
    OBVIOUS
  <2>4. IsFiniteSet(prices)
    BY <2>1, <2>2, <2>3
  <2>. QED  BY <1>1, <1>2, <2>4
<1>4. /\ Max(prices) \in prices /\ \A y \in prices : y <= Max(prices)
      /\ Min(prices) \in prices /\ \A y \in prices : Min(prices) <= y
  BY <1>3, FiniteMax, FiniteMin
<1>. HIDE DEF priced, Price
<1>5. \E v \in priced : Best(v)
  <2>1. PICK v \in priced : Price(v) = IF direction = "buy" THEN Min(prices) ELSE Max(prices)
    BY <1>4
  <2>2. \A w \in priced : Price(w) \in prices
    OBVIOUS
  <2>. HIDE DEF prices
  <2>3. \A w \in priced :
          IF direction = "buy" THEN Price(v) <= Price(w) ELSE Price(v) >= Price(w)
    BY <1>2, <1>4, <2>1, <2>2
  <2>. QED  BY <2>3
<1>. HIDE DEF Best
<1>6. (CHOOSE v \in priced : Best(v)) \in priced
  BY <1>5
<1>. QED  BY <1>1, <1>2, <1>6 DEF Price

\* What a leg is before it has a price.
IsUnpriced(leg) ==
  /\ LegFields \subseteq DOMAIN leg
  /\ leg.type \in Sides /\ leg.direction \in {"buy", "sell"}
  /\ {leg.strike, leg.quantity} \subseteq Int

LEMMA PricedIsLeg ==
  ASSUME NEW chain, IsMarket(chain), NEW from, NEW leg, IsUnpriced(leg),
         leg.strike \in DOMAIN chain.strikes, PricedLeg(chain, from, leg) # None
  PROVE  LET priced == PricedLeg(chain, from, leg)
         IN /\ IsLeg(priced)
            /\ priced.type = leg.type /\ priced.direction = leg.direction
            /\ priced.quantity = leg.quantity
<1>. DEFINE side == chain.strikes[leg.strike][leg.type]
            venue == BestVenue(side, from, leg.direction)
            priced == PricedLeg(chain, from, leg)
<1>1. venue # None /\ priced = WithMarket(leg, side, venue)
  BY DEF PricedLeg
<1>2. /\ IsFiniteSet(DOMAIN side.venues)
      /\ \A v \in DOMAIN side.venues : {side.venues[v].bid, side.venues[v].ask} \subseteq Number
  BY DEF IsMarket, IsUnpriced
<1>. HIDE DEF side, priced
<1>3. PriceFor(side.venues[venue], leg.direction) \in Int
  BY <1>1, <1>2, BestHasPrice
<1>. HIDE DEF venue
<1>4. /\ DOMAIN priced = {"type", "direction", "strike", "expiry", "quantity", "entryPrice", "venue",
                           "delta"}
      /\ priced.type = leg.type /\ priced.direction = leg.direction
      /\ priced.strike = leg.strike /\ priced.quantity = leg.quantity
      /\ priced.entryPrice = PriceFor(side.venues[venue], leg.direction)
  BY <1>1 DEF WithMarket
<1>. QED  BY <1>3, <1>4 DEF IsLeg, IsUnpriced, priced

LEMMA RepriceIsLeg ==
  ASSUME NEW chain, IsMarket(chain), NEW from, NEW leg, IsUnpriced(leg), NEW exact \in BOOLEAN,
         RepriceLeg(chain, from, leg, exact) # None
  PROVE  LET next == RepriceLeg(chain, from, leg, exact)
         IN /\ IsLeg(next)
            /\ next.type = leg.type /\ next.direction = leg.direction
            /\ next.quantity = leg.quantity
<1>. DEFINE strikes == DOMAIN chain.strikes
            AtStrike(s) == [leg EXCEPT !.strike = s]
            PricedAt == [s \in strikes |-> PricedLeg(chain, from, AtStrike(s))]
            near == CHOOSE x \in strikes : \A t \in strikes :
                      Distance(x, leg.strike) < Distance(t, leg.strike)
                        \/ (Distance(x, leg.strike) = Distance(t, leg.strike) /\ x <= t)
            next == RepriceLeg(chain, from, leg, exact)
<1>1. strikes # {} /\ next = PricedAt[near]
  BY DEF RepriceLeg, Closest
<1>2. strikes \subseteq Int /\ IsFiniteSet(strikes) /\ leg.strike \in Int
  BY DEF IsMarket, IsChain, IsUnpriced
<1>3. \E x \in strikes : \A t \in strikes :
        Distance(x, leg.strike) < Distance(t, leg.strike)
          \/ (Distance(x, leg.strike) = Distance(t, leg.strike) /\ x <= t)
  <2>. HIDE DEF strikes
  <2>. QED  BY <1>1, <1>2, ClosestExists
<1>4. near \in strikes
  BY <1>3
<1>. HIDE DEF near
<1>. DEFINE own == AtStrike(near)
<1>5. next = PricedLeg(chain, from, own)
  BY <1>1, <1>4
<1>6. /\ own.type = leg.type /\ own.direction = leg.direction /\ own.strike = near
      /\ own.quantity = leg.quantity /\ LegFields \subseteq DOMAIN own
  BY DEF IsUnpriced, LegFields
<1>. HIDE DEF own
<1>7. IsUnpriced(own)
  BY <1>2, <1>4, <1>6 DEF IsUnpriced
<1>8. own.strike \in DOMAIN chain.strikes
  BY <1>4, <1>6
<1>9. PricedLeg(chain, from, own) # None
  BY <1>5
<1>10. /\ IsLeg(PricedLeg(chain, from, own))
       /\ PricedLeg(chain, from, own).type = own.type
       /\ PricedLeg(chain, from, own).direction = own.direction
       /\ PricedLeg(chain, from, own).quantity = own.quantity
  BY <1>7, <1>8, <1>9, PricedIsLeg
<1>. HIDE DEF next
<1>. QED  BY <1>5, <1>6, <1>10 DEF next

LEMMA StrategyLegIsLeg ==
  ASSUME BuilderInv, NEW leg, IsUnpriced(leg), NEW exact \in BOOLEAN,
         RepriceStrategyLeg(leg, exact) # None
  PROVE  LET next == RepriceStrategyLeg(leg, exact)
         IN /\ IsLeg(next)
            /\ next.type = leg.type /\ next.direction = leg.direction
            /\ next.quantity = leg.quantity
<1>. DEFINE dated == [leg EXCEPT !.expiry = builderExpiry]
<1>1. Data # None /\ RepriceStrategyLeg(leg, exact) = RepriceLeg(Data, activeVenues, dated, exact)
  BY DEF RepriceStrategyLeg
<1>2. /\ dated.type = leg.type /\ dated.direction = leg.direction /\ dated.strike = leg.strike
      /\ dated.quantity = leg.quantity /\ LegFields \subseteq DOMAIN dated
  BY DEF IsUnpriced, LegFields
<1>. HIDE DEF dated
<1>3. IsUnpriced(dated)
  BY <1>2 DEF IsUnpriced
<1>. QED  BY <1>1, <1>2, <1>3, DataIsMarket, RepriceIsLeg

LEMMA LegsAre ==
  ASSUME NEW legs, IsLegs(legs)
  PROVE  /\ Len(legs) \in Nat /\ DOMAIN legs = 1..Len(legs)
         /\ \A i \in DOMAIN legs : IsLeg(legs[i])
<1>1. legs \in Seq(ToSet(legs)) /\ \A i \in DOMAIN legs : legs[i] \in ToSet(legs)
  BY DEF IsLegs, ToSet
<1>. QED  BY <1>1 DEF IsLegs

\* A sequence of legs is one of its own.
LEMMA AreLegs ==
  ASSUME NEW T, \A leg \in T : IsLeg(leg), NEW legs \in Seq(T)
  PROVE  IsLegs(legs)
<1>1. \A i \in 1..Len(legs) : legs[i] \in T
  OBVIOUS
<1>2. ToSet(legs) \subseteq T
  BY <1>1 DEF ToSet
<1>3. legs \in Seq(ToSet(legs))
  <2>1. Len(legs) \in Nat /\ DOMAIN legs = 1..Len(legs) /\ legs = [i \in 1..Len(legs) |-> legs[i]]
    OBVIOUS
  <2>2. \A i \in 1..Len(legs) : legs[i] \in ToSet(legs)
    BY <2>1 DEF ToSet
  <2>3. legs \in [1..Len(legs) -> ToSet(legs)]
    BY <2>1, <2>2
  <2>. QED  BY <2>1, <2>3
<1>. QED  BY <1>2, <1>3 DEF IsLegs

LEMMA RepricedIsDrawable ==
  ASSUME BuilderInv, Drawable(strategy.legs)
  PROVE  Drawable(Repriced)
<1>. DEFINE legs == strategy.legs
            n == Len(legs)
            T == {leg \in ToSet(Repriced) : IsLeg(leg)}
<1>1. n \in Nat /\ DOMAIN legs = 1..n /\ \A i \in 1..n : IsLeg(legs[i])
  BY LegsAre DEF Drawable
<1>2. DOMAIN Repriced = 1..n
  BY <1>1 DEF Repriced
<1>3. ASSUME NEW i \in 1..n
      PROVE  /\ IsLeg(Repriced[i])
             /\ Repriced[i].type = legs[i].type /\ Repriced[i].direction = legs[i].direction
             /\ Repriced[i].quantity = legs[i].quantity
  <2>. DEFINE next == RepriceStrategyLeg(legs[i], FALSE)
  <2>1. IsUnpriced(legs[i])
    BY <1>1 DEF IsLeg, IsUnpriced, LegFields
  <2>2. next # None =>
          /\ IsLeg(next)
          /\ next.type = legs[i].type /\ next.direction = legs[i].direction
          /\ next.quantity = legs[i].quantity
    BY <2>1, StrategyLegIsLeg
  <2>3. Repriced[i] = IF next # None THEN next ELSE legs[i]
    BY <1>1 DEF Repriced, OrElse
  <2>. HIDE DEF next
  <2>. QED  BY <1>1, <2>2, <2>3
<1>4. Repriced \in Seq(T)
  <2>1. \A i \in 1..n : Repriced[i] \in T
    BY <1>2, <1>3 DEF ToSet
  <2>2. Repriced = [i \in 1..n |-> Repriced[i]]
    BY <1>1 DEF Repriced
  <2>. HIDE DEF T, n
  <2>3. Repriced \in [1..n -> T]
    BY <2>1, <2>2
  <2>. QED  BY <1>1, <2>3
<1>5. IsLegs(Repriced)
  <2>. \A leg \in T : IsLeg(leg)
    OBVIOUS
  <2>. HIDE DEF T
  <2>. QED  BY <1>4, AreLegs
<1>6. Len(Repriced) = n
  BY <1>1, <1>2, <1>4
<1>7. Plain(legs) => Plain(Repriced)
  BY <1>1, <1>2, <1>3, <1>6 DEF Plain
<1>8. ASSUME NEW t, NEW d, Like(legs, t, d) PROVE Like(Repriced, t, d)
  <2>. DEFINE card == TemplateCards[t]
  <2>1. /\ DOMAIN legs = DOMAIN card
        /\ \A i \in DOMAIN card :
             /\ legs[i].type = card[i].type
             /\ legs[i].direction = IF card[i].with THEN d ELSE Against(d)
             /\ legs[i].quantity = card[i].quantity
    BY <1>8 DEF Like
  <2>. HIDE DEF card, legs
  <2>2. \A i \in DOMAIN card :
          /\ Repriced[i].type = card[i].type
          /\ Repriced[i].direction = IF card[i].with THEN d ELSE Against(d)
          /\ Repriced[i].quantity = card[i].quantity
    BY <1>1, <1>3, <2>1
  <2>. QED  BY <1>1, <1>2, <2>1, <2>2 DEF Like, card
<1>. QED  BY <1>5, <1>7, <1>8 DEF Drawable

\* What is built of a card has the card's legs.
LEMMA VariantIsDrawable ==
  ASSUME NEW chain, IsMarket(chain), NEW expiry, NEW t \in DOMAIN TemplateCards,
         NEW d \in {"buy", "sell"}, BuildTemplateVariant(chain, expiry, t, d) # None
  PROVE  Drawable(BuildTemplateVariant(chain, expiry, t, d))
<1>. DEFINE legs == BuildTemplateVariant(chain, expiry, t, d)
            card == TemplateCards[t]
            atm == FindAtmStrike(chain)
            At(i) == OffsetStrike(chain, atm, card[i].offset)
            Asks(i) == [type |-> card[i].type, strike |-> At(i), quantity |-> card[i].quantity,
                        expiry |-> expiry,
                        direction |-> IF card[i].with THEN d ELSE Against(d)]
            a == [template |-> t, direction |-> d, strikes |-> {legs[i].strike : i \in DOMAIN legs}]
<1>1. /\ legs = [i \in DOMAIN card |->
                   PricedLeg(chain, DOMAIN chain.strikes[At(i)][card[i].type].venues, Asks(i))]
      /\ \A i \in DOMAIN card : legs[i] # None
      /\ DOMAIN chain.strikes # {} /\ StrikesCover(chain, t)
  BY DEF BuildTemplateVariant, BuildLegs
<1>2. IsChain(chain)
  BY DEF IsMarket
<1>3. atm \in DOMAIN chain.strikes
  BY <1>1, <1>2, AtmIsListed
<1>4. PICK n \in 1..4 : DOMAIN card = 1..n
  BY CardIs
<1>5. \A i \in DOMAIN card :
        /\ card[i].offset \in Int /\ card[i].type \in Sides /\ card[i].quantity \in Int
  BY DEF TemplateCards, Part, Sides
<1>6. \A i \in DOMAIN card : Rank(chain, atm) + card[i].offset \in Ranks(chain)
  BY <1>1 DEF StrikesCover, HasStrikeOffset
<1>7. OfCard(legs, a) /\ a.template = t /\ a.direction = d
  BY <1>2, VariantIsOfCard
<1>. HIDE DEF legs, atm, a
<1>8. Like(legs, t, d)
  BY <1>7 DEF OfCard, Like
<1>. HIDE DEF card
<1>9. ASSUME NEW i \in DOMAIN card PROVE IsLeg(legs[i])
  <2>1. At(i) \in DOMAIN chain.strikes
    BY <1>2, <1>3, <1>5, <1>6, OffsetStrikeIs
  <2>2. At(i) \in Int
    BY <1>2, <2>1 DEF IsChain
  <2>3. IsUnpriced(Asks(i)) /\ Asks(i).strike = At(i)
    BY <1>5, <2>2 DEF IsUnpriced, LegFields, Against
  <2>. DEFINE from == DOMAIN chain.strikes[At(i)][card[i].type].venues
  <2>4. legs[i] = PricedLeg(chain, from, Asks(i)) /\ legs[i] # None
    BY <1>1
  <2>. HIDE DEF Asks, At, from
  <2>. QED  BY <2>1, <2>3, <2>4, PricedIsLeg
<1>10. legs \in [1..n -> {legs[i] : i \in 1..n}]
  BY <1>1, <1>4
<1>11. IsLegs(legs)
  <2>1. \A leg \in {legs[i] : i \in 1..n} : IsLeg(leg)
    BY <1>4, <1>9
  <2>2. legs \in Seq({legs[i] : i \in 1..n})
    BY <1>4, <1>10
  <2>. QED  BY <2>1, <2>2, AreLegs
<1>12. t \notin {"Butterfly", "IronCondor"} => Plain(legs)
  <2>1. t \notin {"Butterfly", "IronCondor"} =>
          DOMAIN card \in {1..1, 1..2} /\ \A i \in DOMAIN card : card[i].quantity = 1
    BY CardIs DEF card, TemplateCards, Part
  <2>2. DOMAIN legs = DOMAIN card /\ \A i \in DOMAIN card : legs[i].quantity = card[i].quantity
    BY <1>8 DEF Like, card
  <2>3. Len(legs) \in Nat /\ DOMAIN legs = 1..Len(legs)
    BY <1>11, LegsAre
  <2>4. 1..Len(legs) \in {1..1, 1..2} => Len(legs) <= 2
    BY <2>3
  <2>. QED  BY <2>1, <2>2, <2>3, <2>4 DEF Plain
<1>. QED  BY <1>8, <1>11, <1>12 DEF Drawable, legs

LEMMA RunEffectsDraws ==
  ASSUME CardInv, RunEffects, applied' # None
  PROVE  Drawable(strategy'.legs)
<1>1. applied' = applied /\ applied # None
  BY DEF RunEffects, Effects
<1>2. link = None /\ strategy.underlying = underlying /\ Drawable(strategy.legs)
  BY <1>1 DEF CardInv, CardDrawn, BuilderInv
<1>3. \/ strategy' = [underlying |-> underlying, legs |-> Repriced]
      \/ strategy' = strategy
  BY <1>2 DEF RunEffects, Effects, Cleared
<1>4. CASE strategy' = [underlying |-> underlying, legs |-> Repriced]
  <2>1. strategy'.legs = Repriced
    BY <1>4
  <2>. QED  BY <1>2, <2>1, RepricedIsDrawable DEF CardInv, CardDrawn
<1>. QED  BY <1>2, <1>3, <1>4

LEMMA ApplyTemplateDraws ==
  ASSUME CardInv, NEW template \in UsedTemplates, NEW direction \in {"buy", "sell"},
         ApplyTemplate(template, direction)
  PROVE  Drawable(strategy'.legs)
<1>. DEFINE legs == BuildTemplateVariant(Data, builderExpiry, template, direction)
            cleared == ClearLegs(strategy)
            a == [template |-> template, direction |-> direction,
                  strikes |-> {legs[i].strike : i \in DOMAIN legs}]
<1>1. legs # None /\ strategy' = AddLegs(cleared, legs, underlying)
  BY DEF ApplyTemplate, Stored
<1>2. template \in DOMAIN TemplateCards
  BY BuilderAssumption
<1>3. Data # None
  BY <1>1 DEF BuildTemplateVariant
<1>4. Drawable(legs)
  BY <1>1, <1>2, <1>3, DataIsMarket, VariantIsDrawable DEF CardInv, CardDrawn
<1>5. cleared.legs = <<>>
  BY DEF ClearLegs, CardInv, BuilderInv
<1>6. legs \in Seq(ToSet(legs))
  BY <1>4 DEF Drawable, IsLegs
<1>7. legs # <<>>
  <2>1. DOMAIN legs = DOMAIN TemplateCards[template]
    BY <1>1, <1>3 DEF BuildTemplateVariant, BuildLegs
  <2>2. PICK n \in 1..4 : DOMAIN TemplateCards[template] = 1..n
    BY <1>2, CardIs
  <2>. HIDE DEF legs
  <2>. QED  BY <2>1, <2>2
<1>. HIDE DEF legs, cleared
<1>8. strategy'.legs = <<>> \o legs
  BY <1>1, <1>5, <1>7 DEF AddLegs
<1>9. <<>> \o legs = legs
  BY <1>6, ConcatEmptySeq
<1>. QED  BY <1>4, <1>8, <1>9

\* What else the user does to a strategy is no card's any more.
LEMMA BuildsDraw ==
  ASSUME CardInv, Builds, applied' # None
  PROVE  Drawable(strategy'.legs)
<1>1. ASSUME NEW next, Edit(next) PROVE FALSE
  BY <1>1 DEF Edit, Stored
<1>2. ASSUME NEW type, NEW direction, NEW s, NEW quantity, HandleAdd(type, direction, s, quantity)
      PROVE  FALSE
  BY <1>1, <1>2 DEF HandleAdd
<1>3. ASSUME NEW i, LegUpdates(i) PROVE FALSE
  BY <1>1, <1>3 DEF LegUpdates, HandleLegUpdate
<1>4. \E template \in UsedTemplates, direction \in {"buy", "sell"} :
        ApplyTemplate(template, direction)
  BY <1>1, <1>2, <1>3 DEF Builds
<1>. QED  BY <1>4, ApplyTemplateDraws

\* The legs of a card stay legs of that card, with prices that are numbers,
\* for any chains, quantities entered for other legs, and links.
THEOREM CardInvariance == BuilderSpec => []CardInv
<1>1. BuilderInit => CardDrawn
  BY DEF BuilderInit, CardDrawn
<1>2. CardInv /\ [BuilderNext]_builderVars => CardDrawn'
  <2>. SUFFICES ASSUME CardInv, [BuilderNext]_builderVars, applied' # None
                PROVE  Drawable(strategy'.legs)
    BY DEF CardDrawn, Drawable, IsLegs, Plain, Like
  <2>1. CASE RunEffects
    BY <2>1, RunEffectsDraws
  <2>2. CASE Builds
    BY <2>2, BuildsDraw
  <2>3. CASE strategy' = strategy /\ (applied' = applied \/ applied' = None)
    BY <2>3 DEF CardInv, CardDrawn
  <2>. QED  BY <2>1, <2>2, <2>3
         DEF BuilderNext, ChainArrives, Forgotten, ExpiriesArrive, SetUnderlying, PickExpiry, SetVenues,
             builderVars
<1>. QED  BY <1>1, <1>2, BuilderInvariance, PTL DEF BuilderSpec, CardInv

\* What is drawn rises past its ends no more than within them.
LEMMA DrawnLead ==
  ASSUME NEW legs, Drawable(legs), legs # <<>>
  PROVE  \E n \in 1..4 : /\ Len(legs) = n /\ DOMAIN legs = 1..n
                         /\ \A i \in 1..n : IsLeg(legs[i])
                         /\ EndsLead(ValueOf(legs))
<1>1. PICK n \in Nat : n = Len(legs) /\ DOMAIN legs = 1..n /\ \A i \in 1..n : IsLeg(legs[i])
  BY LegsAre DEF Drawable
<1>2. n # 0
  BY <1>1 DEF Drawable, IsLegs
<1>3. n \in 1..4 /\ EndsLead(ValueOf(legs))
  <2>1. CASE Plain(legs)
    <3>1. n \in 1..2 /\ \A i \in 1..n : legs[i].quantity = 1
      BY <1>1, <1>2, <2>1 DEF Plain
    <3>2. CASE n = 1
      <4>1. DOMAIN legs = 1..1 /\ IsLeg(legs[1]) /\ legs[1].quantity = 1
        BY <1>1, <3>1, <3>2
      <4>. QED  BY <3>2, <4>1, SingleLeads
    <3>3. CASE n = 2
      <4>1. DOMAIN legs = 1..2 /\ \A i \in 1..2 : IsLeg(legs[i]) /\ legs[i].quantity = 1
        BY <1>1, <3>1, <3>3
      <4>. QED  BY <3>3, <4>1, PairLeads
    <3>. QED  BY <3>1, <3>2, <3>3
  <2>2. ASSUME NEW d \in {"buy", "sell"}, Like(legs, "Butterfly", d)
        PROVE  n = 3 /\ EndsLead(ValueOf(legs))
    <3>1. DOMAIN legs = 1..3
      BY <2>2 DEF Like, TemplateCards
    <3>2. n = 3
      <4>1. \A x : x \in 1..n <=> x \in 1..3
        BY <1>1, <3>1
      <4>2. n \in 1..n /\ 3 \in 1..3
        BY <1>2
      <4>3. n \in 1..3 /\ 3 \in 1..n
        BY <4>1, <4>2
      <4>. QED  BY <4>3
    <3>. QED  BY <1>1, <2>2, <3>2, ButterflyOutdone
  <2>3. ASSUME NEW d \in {"buy", "sell"}, Like(legs, "IronCondor", d)
        PROVE  n = 4 /\ EndsLead(ValueOf(legs))
    <3>1. DOMAIN legs = 1..4
      BY <2>3 DEF Like, TemplateCards
    <3>2. n = 4
      <4>1. \A x : x \in 1..n <=> x \in 1..4
        BY <1>1, <3>1
      <4>2. n \in 1..n /\ 4 \in 1..4
        BY <1>2
      <4>3. n \in 1..4 /\ 4 \in 1..n
        BY <4>1, <4>2
      <4>. QED  BY <4>3
    <3>. QED  BY <1>1, <2>3, <3>2, CondorOutdone
  <2>. QED  BY <2>1, <2>2, <2>3 DEF Drawable
<1>. QED  BY <1>1, <1>3

\* A card's strategy whose value goes on beyond an end of the range that is
\* drawn is given no greatest profit or loss (computeMetrics), for any strikes,
\* prices, spot and number of points, and however the chains after it price it.
THEOREM CardsAreToldUnlimited == BuilderSpec => []CardsAreTold
<1>1. CardInv => CardsAreTold
  <2>. SUFFICES ASSUME CardInv, applied # None, Data # None
                PROVE  TellsUnlimited
    BY DEF CardsAreTold
  <2>. DEFINE legs == strategy.legs
  <2>0. Drawable(legs) /\ legs # <<>>
    <3>1. Drawable(legs) /\ OfCard(legs, applied) /\ applied.template \in DOMAIN TemplateCards
      BY DEF CardInv, CardDrawn, BuilderInv
    <3>2. PICK n \in 1..4 : DOMAIN TemplateCards[applied.template] = 1..n
      BY <3>1, CardIs
    <3>3. DOMAIN legs = 1..n
      BY <3>1, <3>2 DEF OfCard
    <3>. HIDE DEF legs
    <3>. QED  BY <3>1, <3>3
  <2>1. PICK n \in 1..4 : /\ DOMAIN legs = 1..n /\ \A i \in 1..n : IsLeg(legs[i])
                          /\ EndsLead(ValueOf(legs))
    BY <2>0, DrawnLead
  <2>2. Spot \in Nat /\ PayoffPoints \in Nat \ {0}
    BY DataIsMarket, BuilderAssumption DEF CardInv, CardDrawn, IsMarket, Spot, OrElse
  <2>. DEFINE metrics == ComputeMetrics(legs, Spot, PayoffPoints)
              drawn == PayoffRange(legs, Spot)
              Rises(a, b) == PnlAt(legs, b) > PnlAt(legs, a)
              Beyond == {<<drawn.high, drawn.high + 1>>}
                          \cup (IF drawn.low > 0 THEN {<<drawn.low, drawn.low - 1>>} ELSE {})
  <2>3. /\ Rises(drawn.high, drawn.high + 1) \/ Rises(drawn.low, drawn.low - 1)
             => metrics.maxProfit = None
        /\ Rises(drawn.high + 1, drawn.high) \/ Rises(drawn.low - 1, drawn.low)
             => metrics.maxLoss = None
    <3>. HIDE DEF legs
    <3>. QED  BY <2>1, <2>2, MetricsSayUnlimited
  <2>. HIDE DEF metrics, drawn, Rises
  <2>4. \A e \in Beyond : \/ e = <<drawn.high, drawn.high + 1>>
                           \/ e = <<drawn.low, drawn.low - 1>>
    OBVIOUS
  <2>5. /\ (\E e \in Beyond : Rises(e[1], e[2])) => metrics.maxProfit = None
        /\ (\E e \in Beyond : Rises(e[2], e[1])) => metrics.maxLoss = None
    BY <2>3, <2>4
  <2>. QED  BY <2>5 DEF TellsUnlimited, metrics, drawn, Rises
<1>. QED  BY <1>1, CardInvariance, PTL

===============================================================================
