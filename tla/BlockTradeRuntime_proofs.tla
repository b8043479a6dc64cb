----------------------- MODULE BlockTradeRuntime_proofs -----------------------
(* Proofs about BlockTradeRuntime: a cursor passes no trade that listeners    *)
(* have not been told of.  What a cursor has passed, and what the ranges of   *)
(* the polls under way leave out, is told: a range starts where a cursor was. *)
EXTENDS BlockTradeRuntime, SequenceTheorems, FiniteSetTheorems, TLAPS

\* Moments are numbers, and what has happened or is asked for is not of the future.
TimesOK ==
  /\ now \in Nat /\ badPages \in Nat
  /\ \A t \in happened : t.at \in Nat /\ t.at <= now
  /\ nextFrom \in [Cursors -> Nat]
  /\ \A v \in Cursors : nextFrom[v] <= now
  /\ polls \in [Windows \cup Cursors -> SUBSET [from : Nat, to : Nat]]
  /\ \A v \in Windows \cup Cursors : \A range \in polls[v] : range.from <= now /\ range.to <= now

\* What is left out as seen was told.
SeenWasTold == seen \subseteq DOMAIN told

\* Nothing is left untold before a cursor, or before a range that is asked for.
PassedIsTold ==
  badPages = 0 =>
    \A v \in Cursors : \A t \in Of(v) :
      (t.at < nextFrom[v] \/ \E range \in polls[v] : t.at < range.from) => t \in DOMAIN told

IInv == TimesOK /\ SeenWasTold /\ PassedIsTold

(***************************************************************************)
(* The greatest of a set of numbers, and what is put into the buffer.      *)
(***************************************************************************)

\* The numbers below another are well-founded, in the form SMT can use.
LEMMA LessIsWellFounded == IsWellFoundedOn({p \in Nat \X Nat : p[1] < p[2]}, Nat)
  BY NatLessThanWellFounded DEF OpToRel

\* The Max of some numbers up to n is one of them, and none is greater.
LEMMA MaxIsGreatest ==
  ASSUME NEW n \in Nat, NEW S \in SUBSET (0 .. n), S # {}
  PROVE  Max(S) \in S /\ \A x \in S : x <= Max(S)
<1> DEFINE T == {y \in Nat : \E x \in S : y = n - x}
           R == {p \in Nat \X Nat : p[1] < p[2]}
<1>1. PICK s \in S : TRUE
  OBVIOUS
<1>2. n - s \in T
  OBVIOUS
<1>3. T \subseteq Nat /\ T # {}
  BY <1>2
<1>4. PICK y \in T : \A z \in T : ~ (<<z, y>> \in R)
  <2> HIDE DEF T
  <2> QED
    BY LessIsWellFounded, <1>3, WFMin
<1>5. PICK m \in S : y = n - m
  OBVIOUS
<1>6. \A x \in S : n - x \in T
  OBVIOUS
<1>7. \A x \in S : ~(n - x < y)
  BY <1>4, <1>3, <1>6
<1>8. \A x \in S : m >= x
  BY <1>5, <1>7
<1>9. QED
  BY <1>8 DEF Max

\* insertBlockTrades tells of every trade it is given that was not told before,
\* and takes nothing back.
LEMMA InsertTells ==
  ASSUME SeenWasTold, NEW trades, Insert(trades)
  PROVE  SeenWasTold' /\ DOMAIN told' = DOMAIN told \cup trades
<1>1. DOMAIN told' = DOMAIN told \cup (trades \ seen)
  BY DEF Insert
<1>2. DOMAIN told' = DOMAIN told \cup trades
  BY <1>1 DEF SeenWasTold
<1>3. seen' \subseteq seen \cup trades
  BY DEF Insert, Remembered
<1>4. QED
  BY <1>2, <1>3 DEF SeenWasTold

\* Reports of trades leave what is before the cursors told.
LEMMA TellingKeeps ==
  ASSUME IInv, SeenWasTold', DOMAIN told \subseteq DOMAIN told',
         UNCHANGED <<now, happened, polls, nextFrom, badPages>>
  PROVE  IInv'
  BY DEF IInv, TimesOK, PassedIsTold, Of

\* The end of a poll that leaves the cursor where it is.
LEMMA DoneKeeps ==
  ASSUME IInv, NEW v \in Windows \cup Cursors, NEW range \in polls[v], Done(v, range),
         SeenWasTold', DOMAIN told \subseteq DOMAIN told',
         UNCHANGED <<now, happened, nextFrom, badPages>>
  PROVE  IInv'
<1>1. TimesOK'
  BY DEF IInv, TimesOK, Done
<1>2. \A w \in Cursors : polls'[w] \subseteq polls[w]
  BY DEF IInv, TimesOK, Done
<1>3. PassedIsTold'
  BY <1>2 DEF IInv, PassedIsTold, Of
<1>4. QED
  BY <1>1, <1>3 DEF IInv

(***************************************************************************)
(* The answer of a range.                                                  *)
(***************************************************************************)

\* A history that is read to its end has every trade of the range that is older
\* than the lateness.
LEMMA HistoryIsWhole ==
  ASSUME NEW v, NEW range, NEW history \in Histories(v, range),
         NEW t \in Of(v), range.from <= t.at, t.at <= range.to, t.at + Lateness < now
  PROVE  t \in history
  BY DEF Histories

\* A history has trades of the range only.
LEMMA HistoryIsOfRange ==
  ASSUME NEW v, NEW range, NEW history \in Histories(v, range)
  PROVE  \A t \in history : t \in Of(v) /\ range.from <= t.at /\ t.at <= range.to
  BY DEF Histories

\* The trades of a range that is read to its end are all that is before the next
\* range and not before this one; the next one does not start after now.
LEMMA NextFromPasses ==
  ASSUME IInv, NEW v \in Cursors, NEW range \in polls[v], NEW history \in Histories(v, range),
         NEW trades \in SUBSET history
  PROVE  /\ NextFrom(range, trades) \in Nat /\ NextFrom(range, trades) <= now
         /\ trades = history =>
              \A t \in Of(v) : t.at < NextFrom(range, trades) => t.at < range.from \/ t \in trades
<1>1. /\ range.from \in Nat /\ range.to \in Nat /\ now \in Nat
      /\ range.from <= now /\ range.to <= now
      /\ Overlap \in Nat /\ Lateness \in Nat /\ Lateness <= Overlap
  BY BlockAssumption DEF IInv, TimesOK
<1>2. \A t \in Of(v) : t.at \in Nat /\ t.at <= now
  BY DEF IInv, TimesOK, Of
<1>3. \A t \in trades : t \in Of(v) /\ range.from <= t.at /\ t.at <= range.to
  BY HistoryIsOfRange
<1>4. CASE trades = {}
  <2> DEFINE S == {Before(range.to, Overlap), range.from}
  <2>1. S \in SUBSET (0 .. now) /\ S # {}
    BY <1>1 DEF Before
  <2>2. Max(S) \in S
    BY <1>1, <2>1, MaxIsGreatest
  <2>3. NextFrom(range, trades) = Max(S)
    BY <1>4 DEF NextFrom
  <2>4. ASSUME trades = history, NEW t \in Of(v), t.at < Max(S), ~(t.at < range.from)
        PROVE  FALSE
    <3>1. t.at < Before(range.to, Overlap)
      BY <1>1, <1>2, <2>2, <2>4
    <3>2. t.at <= range.to /\ t.at + Lateness < now
      BY <1>1, <1>2, <3>1 DEF Before
    <3>3. QED
      BY <1>1, <1>2, <1>4, <2>4, <3>2, HistoryIsWhole
  <2>5. Max(S) \in Nat /\ Max(S) <= now
    BY <1>1, <2>1, <2>2
  <2> HIDE DEF S
  <2>6. QED
    BY <1>4, <2>3, <2>4, <2>5
<1>5. CASE trades # {}
  <2> DEFINE S == {t.at : t \in trades}
  <2>1. S \in SUBSET (0 .. now) /\ S # {}
    BY <1>1, <1>2, <1>3, <1>5
  <2>2. Max(S) \in S
    BY <1>1, <2>1, MaxIsGreatest
  <2>3. Max(S) \in Nat /\ Max(S) <= now /\ Max(S) <= range.to
    BY <1>1, <1>2, <1>3, <2>1, <2>2
  <2>4. NextFrom(range, trades) = Before(Max(S), Overlap)
    BY <1>5 DEF NextFrom
  <2> HIDE DEF S
  <2>5. Before(Max(S), Overlap) \in Nat /\ Before(Max(S), Overlap) <= now
    BY <1>1, <2>3 DEF Before
  <2>6. ASSUME trades = history, NEW t \in Of(v), t.at < Before(Max(S), Overlap), ~(t.at < range.from)
        PROVE  t \in trades
    <3>1. t.at <= range.to /\ t.at + Lateness < now
      BY <1>1, <1>2, <2>3, <2>6 DEF Before
    <3>2. QED
      BY <1>1, <1>2, <2>6, <3>1, HistoryIsWhole
  <2>7. QED
    BY <2>4, <2>5, <2>6
<1>6. QED
  BY <1>4, <1>5

(***************************************************************************)
(* The steps.                                                              *)
(***************************************************************************)

\* Nothing has happened when the runtime starts.
LEMMA InitIInv == Init => IInv
<1> SUFFICES ASSUME Init PROVE IInv
  OBVIOUS
<1>1. TimesOK
  BY DEF Init, TimesOK
<1>2. SeenWasTold
  BY DEF Init, SeenWasTold
<1>3. PassedIsTold
  BY DEF Init, PassedIsTold, Of
<1>4. QED
  BY <1>1, <1>2, <1>3 DEF IInv

\* A new trade is of now, which no cursor has passed.
LEMMA TradeIInv ==
  ASSUME IInv, NEW v \in Venues, Trade(v)
  PROVE  IInv'
<1>1. /\ happened' = happened \cup {[venue |-> v, at |-> now]}
      /\ UNCHANGED <<now, polls, nextFrom, badPages>>
  BY DEF Trade, pollVars
<1>2. SeenWasTold' /\ DOMAIN told \subseteq DOMAIN told'
  <2>1. CASE Insert({[venue |-> v, at |-> now]})
    BY <2>1, InsertTells DEF IInv
  <2>2. CASE UNCHANGED tradeVars
    BY <2>2 DEF IInv, SeenWasTold, tradeVars
  <2>3. QED
    BY <2>1, <2>2 DEF Trade, Push
<1>3. TimesOK'
  BY <1>1 DEF IInv, TimesOK
<1>4. ASSUME badPages' = 0, NEW w \in Cursors, NEW t \in Of(w)',
             t.at < nextFrom'[w] \/ \E range \in polls'[w] : t.at < range.from
      PROVE  t \in DOMAIN told'
  <2>1. t.at # now
    BY <1>1, <1>4 DEF IInv, TimesOK
  <2>2. t \in Of(w)
    BY <1>1, <2>1 DEF Of
  <2>3. QED
    BY <1>1, <1>2, <1>4, <2>2 DEF IInv, PassedIsTold
<1>5. QED
  BY <1>2, <1>3, <1>4 DEF IInv, PassedIsTold

\* Time passes what has happened.
LEMMA TickIInv ==
  ASSUME IInv, Tick
  PROVE  IInv'
<1>1. /\ now' = now + 1
      /\ UNCHANGED <<happened, polls, nextFrom, badPages, seen, told>>
  BY DEF Tick, pollVars, tradeVars
<1>2. TimesOK'
  BY <1>1 DEF IInv, TimesOK
<1>3. QED
  BY <1>1, <1>2 DEF IInv, SeenWasTold, PassedIsTold, Of

\* A range starts where the cursor is, so it leaves out what the cursor has passed.
LEMMA PollIInv ==
  ASSUME IInv, NEW v \in Windows \cup Cursors, Poll(v)
  PROVE  IInv'
<1> DEFINE from == IF v \in Cursors THEN nextFrom[v] ELSE 0
           range == [from |-> from, to |-> now]
<1>1. /\ polls' = [polls EXCEPT ![v] = @ \cup {range}]
      /\ UNCHANGED <<now, happened, nextFrom, badPages, seen, told>>
  BY DEF Poll, tradeVars
<1>2. from \in Nat /\ from <= now
  BY DEF IInv, TimesOK
<1>3. range \in [from : Nat, to : Nat] /\ range.from = from /\ range.to = now
  BY <1>2 DEF IInv, TimesOK
<1> HIDE DEF from, range
<1>4. TimesOK'
  BY <1>1, <1>2, <1>3 DEF IInv, TimesOK
<1>5. ASSUME badPages' = 0, NEW w \in Cursors, NEW t \in Of(w)',
             t.at < nextFrom'[w] \/ \E r \in polls'[w] : t.at < r.from
      PROVE  t \in DOMAIN told'
  <2>1. t.at < nextFrom[w] \/ \E r \in polls[w] : t.at < r.from
    BY <1>1, <1>3, <1>5 DEF IInv, TimesOK, from
  <2>2. QED
    BY <1>1, <1>5, <2>1 DEF IInv, PassedIsTold, Of
<1>6. QED
  BY <1>1, <1>4, <1>5 DEF IInv, SeenWasTold, PassedIsTold

\* Whatever the answer of a range brings is told before the cursor passes it.
LEMMA RangeAnsweredIInv ==
  ASSUME IInv, NEW v \in Cursors, RangeAnswered(v)
  PROVE  IInv'
<1> DEFINE Answer(range, history, trades) ==
             /\ IF trades = history THEN UNCHANGED badPages
                ELSE badPages < MaxBadPages /\ badPages' = badPages + 1
             /\ Done(v, range)
             /\ nextFrom' = [nextFrom EXCEPT ![v] = NextFrom(range, trades)]
             /\ Reported(v, trades)
             /\ UNCHANGED <<now, happened>>
<1>1. PICK range \in polls[v] :
            \E history \in Histories(v, range) : \E trades \in SUBSET history :
              Answer(range, history, trades)
  BY DEF RangeAnswered
<1>2. PICK history \in Histories(v, range) :
              \E trades \in SUBSET history : Answer(range, history, trades)
  BY <1>1
<1>3. PICK trades \in SUBSET history : Answer(range, history, trades)
  BY <1>2
<1>4. SeenWasTold' /\ DOMAIN told' = DOMAIN told \cup trades
  BY <1>3, InsertTells DEF IInv, Reported
<1>5. NextFrom(range, trades) \in Nat /\ NextFrom(range, trades) <= now
  BY NextFromPasses
<1>6. /\ polls' \in [Windows \cup Cursors -> SUBSET [from : Nat, to : Nat]]
      /\ \A w \in Windows \cup Cursors : polls'[w] \subseteq polls[w]
  BY <1>3 DEF IInv, TimesOK, Done
<1>7. TimesOK'
  <2>1. now' \in Nat /\ \A t \in happened' : t.at \in Nat /\ t.at <= now'
    BY <1>3 DEF IInv, TimesOK
  <2>2. badPages' \in Nat
    BY <1>3 DEF IInv, TimesOK
  <2>3. nextFrom' \in [Cursors -> Nat] /\ \A w \in Cursors : nextFrom'[w] <= now'
    BY <1>3, <1>5 DEF IInv, TimesOK
  <2>4. \A w \in Windows \cup Cursors : \A r \in polls'[w] : r.from <= now' /\ r.to <= now'
    BY <1>3, <1>6 DEF IInv, TimesOK
  <2>5. QED
    BY <1>6, <2>1, <2>2, <2>3, <2>4 DEF TimesOK
<1>8. ASSUME badPages' = 0, NEW w \in Cursors, NEW t \in Of(w)',
             t.at < nextFrom'[w] \/ \E r \in polls'[w] : t.at < r.from
      PROVE  t \in DOMAIN told'
  <2>1. badPages = 0 /\ trades = history
    BY <1>3, <1>8 DEF IInv, TimesOK
  <2>2. t \in Of(w)
    BY <1>3, <1>8 DEF Of
  <2>3. CASE t.at < nextFrom[w] \/ \E r \in polls[w] : t.at < r.from
    BY <1>4, <2>1, <2>2, <2>3 DEF IInv, PassedIsTold
  <2>4. CASE w = v /\ t.at < NextFrom(range, trades) /\ ~(t.at < range.from)
    BY <1>4, <2>1, <2>2, <2>4, NextFromPasses
  <2>5. QED
    BY <1>3, <1>6, <1>8, <2>3, <2>4 DEF IInv, TimesOK
<1>9. QED
  BY <1>4, <1>7, <1>8 DEF IInv, PassedIsTold

\* Every step keeps the invariant.
LEMMA StepIInv ==
  ASSUME IInv, [Next]_vars
  PROVE  IInv'
<1>1. CASE Tick
  BY <1>1, TickIInv
<1>2. CASE Dispose
  BY <1>2, TellingKeeps DEF Dispose, pollVars, tradeVars, IInv, SeenWasTold
<1>3. ASSUME NEW v \in Venues, Trade(v) PROVE IInv'
  BY <1>3, TradeIInv
<1>4. ASSUME NEW v \in Streams, Opened(v) \/ Closed(v) \/ Reconnect(v) PROVE IInv'
  BY <1>4, TellingKeeps DEF Opened, Closed, Reconnect, pollVars, tradeVars, IInv, SeenWasTold
<1>5. ASSUME NEW v \in Streams, Seeded(v) PROVE IInv'
  <2>1. UNCHANGED <<now, happened, polls, nextFrom, badPages>>
    BY <1>5 DEF Seeded, pollVars
  <2>2. SeenWasTold' /\ DOMAIN told \subseteq DOMAIN told'
    <3>1. CASE UNCHANGED tradeVars
      BY <3>1 DEF IInv, SeenWasTold, tradeVars
    <3>2. CASE Insert(Of(v))
      BY <3>2, InsertTells DEF IInv
    <3>3. QED
      BY <1>5, <3>1, <3>2 DEF Seeded
  <2>3. QED
    BY <2>1, <2>2, TellingKeeps
<1>6. ASSUME NEW v \in Windows \cup Cursors, Poll(v) PROVE IInv'
  BY <1>6, PollIInv
<1>7. ASSUME NEW v \in Windows \cup Cursors, PollFailed(v) PROVE IInv'
  <2>1. PICK range \in polls[v] : /\ Done(v, range) /\ Reported(v, {})
                                  /\ UNCHANGED <<now, happened, nextFrom, badPages>>
    BY <1>7 DEF PollFailed
  <2>2. SeenWasTold' /\ DOMAIN told \subseteq DOMAIN told'
    BY <2>1, InsertTells DEF IInv, Reported
  <2>3. QED
    BY <2>1, <2>2, DoneKeeps
<1>8. ASSUME NEW v \in Windows, Answered(v) PROVE IInv'
  <2>1. PICK range \in polls[v] : /\ Done(v, range) /\ Reported(v, LastTrades(v))
                                  /\ UNCHANGED <<now, happened, nextFrom, badPages>>
    BY <1>8 DEF Answered
  <2>2. SeenWasTold' /\ DOMAIN told \subseteq DOMAIN told'
    BY <2>1, InsertTells DEF IInv, Reported
  <2>3. QED
    BY <2>1, <2>2, DoneKeeps
<1>9. ASSUME NEW v \in Cursors, RangeAnswered(v) PROVE IInv'
  BY <1>9, RangeAnsweredIInv
<1>10. CASE UNCHANGED vars
  BY <1>10, TellingKeeps DEF vars, pollVars, tradeVars, IInv, SeenWasTold
<1>11. QED
  BY <1>1, <1>2, <1>3, <1>4, <1>5, <1>6, <1>7, <1>8, <1>9, <1>10 DEF Next

\* The inductive invariant of the runtime: what is seen was told, and what a cursor
\* or a range under way has passed was told.
THEOREM Invariance == Spec => []IInv
  BY InitIInv, StepIInv, PTL DEF Spec

\* CursorKeepsUp for every overlap and every lateness within it, any number of
\* venues, and polls that overlap, overtake each other and fail as they like.
THEOREM NothingIsPassedUntold == Spec => []CursorKeepsUp
<1>1. IInv => CursorKeepsUp
  BY DEF IInv, PassedIsTold, CursorKeepsUp
<1>2. QED
  BY <1>1, Invariance, PTL

(***************************************************************************)
(* What is told is told once.  The buffer starts with the newest trade, so *)
(* that what is old stays old, and what is told and forgotten is old.      *)
(***************************************************************************)
BufferInv == IsFiniteSet(happened) /\ buffer \in Seq(happened)

ForgottenIsOld ==
  /\ seen \subseteq happened /\ DOMAIN told \subseteq happened
  /\ \A t \in DOMAIN told : t \in seen \/ Old(t)

OnceInv == IInv /\ BufferInv /\ ForgottenIsOld /\ ToldOnce

\* A finite set is put in some order.
LEMMA SeqOfSet ==
  ASSUME NEW S, IsFiniteSet(S)
  PROVE  SetToSeq(S) \in Seq(S)
<1>1. Cardinality(S) \in Nat /\ ExistsBijection(1 .. Cardinality(S), S)
  BY FS_CardinalityType
<1>2. \E f \in [1 .. Cardinality(S) -> S] : IsInjective(f)
  BY <1>1 DEF ExistsBijection, Bijection, Injection
<1>3. SetToSeq(S) \in [1 .. Cardinality(S) -> S]
  BY <1>2 DEF SetToSeq
<1>4. QED
  BY <1>1, <1>3, SeqDef

\* Every record has a place of its own, and a smaller key has a smaller one.
LEMMA PlacesAreOrdered ==
  ASSUME NEW N \in Nat, NEW key \in [1 .. N -> Int]
  PROVE  /\ \A i \in 1 .. N : Place(key, i) \in 1 .. N
         /\ \A i, j \in 1 .. N :
              key[i] < key[j] \/ (key[i] = key[j] /\ i < j) => Place(key, i) < Place(key, j)
<1> DEFINE Down(i) == {j \in 1 .. N : key[j] < key[i] \/ (key[j] = key[i] /\ j <= i)}
<1>1. \A i \in 1 .. N : Place(key, i) = Cardinality(Down(i))
  BY DEF Place
<1>2. IsFiniteSet(1 .. N) /\ Cardinality(1 .. N) = N
  BY FS_Interval
<1>3. \A i \in 1 .. N : Down(i) \in SUBSET (1 .. N) /\ i \in Down(i)
  OBVIOUS
<1>4. ASSUME NEW i \in 1 .. N
      PROVE  IsFiniteSet(Down(i)) /\ Cardinality(Down(i)) \in 1 .. N
  <2>1. /\ IsFiniteSet(Down(i)) /\ Cardinality(Down(i)) <= N
    BY <1>2, <1>3, FS_Subset
  <2>2. Cardinality(Down(i)) \in Nat /\ Cardinality(Down(i)) # 0
    BY <1>3, <2>1, FS_CardinalityType, FS_EmptySet
  <2>3. QED
    BY <2>1, <2>2
<1>5. ASSUME NEW i \in 1 .. N, NEW j \in 1 .. N, key[i] < key[j] \/ (key[i] = key[j] /\ i < j)
      PROVE  Cardinality(Down(i)) < Cardinality(Down(j))
  <2>1. Down(i) \in SUBSET Down(j)
    BY <1>5
  <2>2. j \in Down(j) /\ j \notin Down(i)
    BY <1>5
  <2>3. /\ Cardinality(Down(i)) <= Cardinality(Down(j))
        /\ Cardinality(Down(j)) = Cardinality(Down(i)) => Down(j) = Down(i)
    BY <1>4, <2>1, FS_Subset
  <2> HIDE DEF Down
  <2>4. Cardinality(Down(i)) \in Int /\ Cardinality(Down(j)) \in Int
    BY <1>4
  <2>5. Cardinality(Down(j)) # Cardinality(Down(i))
    BY <2>2, <2>3
  <2>6. QED
    BY <2>3, <2>4, <2>5
<1> HIDE DEF Down
<1>6. QED
  BY <1>1, <1>4, <1>5

\* No two records have one place.
LEMMA PlacesAreDistinct ==
  ASSUME NEW N \in Nat, NEW key \in [1 .. N -> Int],
         NEW i \in 1 .. N, NEW j \in 1 .. N, Place(key, i) = Place(key, j)
  PROVE  i = j
<1>1. /\ key[i] \in Int /\ key[j] \in Int /\ i \in Int /\ j \in Int
      /\ Place(key, i) \in Int /\ Place(key, j) \in Int
  BY PlacesAreOrdered
<1>2. \A m, n \in 1 .. N :
        key[m] < key[n] \/ (key[m] = key[n] /\ m < n) => Place(key, m) < Place(key, n)
  BY PlacesAreOrdered
<1>3. ~ (key[i] < key[j] \/ (key[i] = key[j] /\ i < j))
  BY <1>1, <1>2
<1>4. ~ (key[j] < key[i] \/ (key[j] = key[i] /\ j < i))
  BY <1>1, <1>2
<1>5. QED
  BY <1>1, <1>3, <1>4

\* A place has a record.
LEMMA PlacesAreTaken ==
  ASSUME NEW N \in Nat, NEW key \in [1 .. N -> Int]
  PROVE  \A n \in 1 .. N : \E i \in 1 .. N : Place(key, i) = n
<1> DEFINE place == [i \in 1 .. N |-> Place(key, i)]
<1>1. place \in [1 .. N -> 1 .. N]
  BY PlacesAreOrdered
<1>2. \A i, j \in 1 .. N : place[i] = place[j] => i = j
  BY PlacesAreDistinct
<1>3. place \in Injection(1 .. N, 1 .. N)
  BY <1>1, <1>2 DEF Injection, IsInjective
<1>4. IsFiniteSet(1 .. N)
  BY FS_Interval
<1>5. place \in Surjection(1 .. N, 1 .. N)
  <2> HIDE DEF place
  <2> QED
    BY <1>3, <1>4, FS_Injection
<1>6. QED
  BY <1>5 DEF Surjection

\* Sorting is a permutation that puts the keys in order.
LEMMA SortIsPermutation ==
  ASSUME NEW N \in Nat, NEW key \in [1 .. N -> Int]
  PROVE  \E p \in [1 .. N -> 1 .. N] :
           /\ \A i \in 1 .. N : \E n \in 1 .. N : p[n] = i
           /\ \A m, n \in 1 .. N : p[m] = p[n] => m = n
           /\ \A m, n \in 1 .. N : m <= n => key[p[m]] <= key[p[n]]
           /\ \A s : DOMAIN s = 1 .. N => SortByKey(s, key) = [n \in 1 .. N |-> s[p[n]]]
<1> DEFINE p == [n \in 1 .. N |-> CHOOSE i \in 1 .. N : Place(key, i) = n]
<1>1. \A n \in 1 .. N : p[n] \in 1 .. N /\ Place(key, p[n]) = n
  BY PlacesAreTaken
<1>2. p \in [1 .. N -> 1 .. N]
  BY <1>1
<1>3. \A s : DOMAIN s = 1 .. N => SortByKey(s, key) = [n \in 1 .. N |-> s[p[n]]]
  <2>1. DOMAIN key = 1 .. N
    OBVIOUS
  <2>2. QED
    BY <2>1 DEF SortByKey
<1> HIDE DEF p
<1>4. \A m, n \in 1 .. N : p[m] = p[n] => m = n
  BY <1>1
<1>5. ASSUME NEW m \in 1 .. N, NEW n \in 1 .. N, m <= n
      PROVE  key[p[m]] <= key[p[n]]
  <2>1. ~ (Place(key, p[n]) < Place(key, p[m]))
    BY <1>1, <1>5
  <2>2. ~ (key[p[n]] < key[p[m]])
    BY <1>1, <2>1, PlacesAreOrdered
  <2>3. key[p[n]] \in Int /\ key[p[m]] \in Int
    BY <1>1
  <2>4. QED
    BY <2>2, <2>3
<1>6. ASSUME NEW i \in 1 .. N
      PROVE  \E n \in 1 .. N : p[n] = i
  <2>1. Place(key, i) \in 1 .. N
    BY PlacesAreOrdered
  <2>2. p[Place(key, i)] \in 1 .. N /\ Place(key, p[Place(key, i)]) = Place(key, i)
    BY <1>1, <2>1
  <2>3. p[Place(key, i)] = i
    BY <2>2, PlacesAreDistinct
  <2>4. QED
    BY <2>1, <2>3
<1>7. QED
  BY <1>2, <1>3, <1>4, <1>5, <1>6

\* The buffer starts with the newest of what it is made from.
LEMMA KeptStartsWithNewest ==
  ASSUME NEW S, \A t \in S : t.at \in Nat, NEW q \in Seq(S), q # <<>>
  PROVE  /\ Kept(q) \in Seq(S) /\ Kept(q) # <<>>
         /\ \A i \in 1 .. Len(q) : q[i].at <= Kept(q)[1].at
<1> DEFINE key == [i \in DOMAIN q |-> 0 - q[i].at]
           N == Len(q)
           kept == IF N < BufferSize THEN N ELSE BufferSize
<1>1. N \in Nat /\ DOMAIN q = 1 .. N /\ (\A i \in 1 .. N : q[i] \in S) /\ N # 0
  BY ElementOfSeq, LenProperties, EmptySeq
<1>2. key \in [1 .. N -> Int]
  BY <1>1
<1>3. PICK p \in [1 .. N -> 1 .. N] :
           /\ \A i \in 1 .. N : \E n \in 1 .. N : p[n] = i
           /\ \A m, n \in 1 .. N : p[m] = p[n] => m = n
           /\ \A m, n \in 1 .. N : m <= n => key[p[m]] <= key[p[n]]
           /\ \A s : DOMAIN s = 1 .. N => SortByKey(s, key) = [n \in 1 .. N |-> s[p[n]]]
  <2> HIDE DEF key, N
  <2> QED
    BY <1>1, <1>2, SortIsPermutation
<1>4. Sorted(q) = [n \in 1 .. N |-> q[p[n]]]
  BY <1>1, <1>3 DEF Sorted
<1>5. Sorted(q) \in [1 .. N -> S]
  BY <1>1, <1>4
<1>6. Sorted(q) \in Seq(S) /\ Len(Sorted(q)) = N
  BY <1>1, <1>5, IsASeq, LenProperties
<1>7. kept \in 1 .. N
  BY <1>1, BlockAssumption
<1>8. Kept(q) = SubSeq(Sorted(q), 1, kept)
  BY DEF Kept
<1>9. \A i \in 1 .. N : q[i].at <= Sorted(q)[1].at
  <2> SUFFICES ASSUME NEW i \in 1 .. N
               PROVE  q[i].at <= Sorted(q)[1].at
    OBVIOUS
  <2>1. PICK n \in 1 .. N : p[n] = i
    BY <1>3
  <2>2. 1 \in 1 .. N /\ 1 <= n
    BY <1>1
  <2>3. key[p[1]] <= key[p[n]]
    BY <1>3, <2>2
  <2>4. q[p[1]].at \in Nat /\ q[i].at \in Nat
    BY <1>1, <2>2
  <2>5. QED
    BY <1>1, <1>4, <2>1, <2>2, <2>3, <2>4
<1> HIDE DEF key, N, kept
<1>10. /\ Kept(q) \in Seq(S) /\ Len(Kept(q)) = kept
       /\ Kept(q)[1] = Sorted(q)[1]
  <2>1. \A i \in 1 .. kept : Sorted(q)[i] \in S
    BY <1>1, <1>5, <1>7
  <2>2. QED
    BY <1>1, <1>6, <1>7, <1>8, <2>1, SubSeqProperties
<1>11. Kept(q) # <<>>
  BY <1>7, <1>10, EmptySeq
<1>12. QED
  BY <1>9, <1>10, <1>11 DEF N

\* insertBlockTrades tells again only what is old, and forgets only what is old.
LEMMA InsertTellsOnce ==
  ASSUME OnceInv, IsFiniteSet(happened'), happened \subseteq happened',
         \A t \in happened' : t.at \in Nat,
         NEW trades \in SUBSET happened', Insert(trades)
  PROVE  BufferInv' /\ ForgottenIsOld' /\ ToldOnce'
<1> DEFINE new == trades \ seen
           q == buffer \o SetToSeq(new)
<1>1. /\ buffer' = Kept(q)
      /\ seen' = Remembered(seen \cup trades, buffer')
      /\ DOMAIN told' = DOMAIN told \cup new
      /\ \A t \in DOMAIN told \cup new :
           told'[t] = IF t \notin DOMAIN told THEN 1 ELSE IF t \in new THEN 2 ELSE told[t]
  BY DEF Insert
<1>2. SetToSeq(new) \in Seq(happened')
  <2>1. IsFiniteSet(new)
    BY FS_Subset
  <2>2. SetToSeq(new) \in Seq(new)
    BY <2>1, SeqOfSet
  <2>3. QED
    BY <2>2, SeqMonotonic
<1>3. buffer \in Seq(happened')
  BY SeqMonotonic DEF OnceInv, BufferInv
<1>4. /\ q \in Seq(happened') /\ Len(q) = Len(buffer) + Len(SetToSeq(new))
      /\ buffer # <<>> => q # <<>> /\ Len(q) \in Nat \ {0} /\ q[1] = buffer[1]
  <2>1. /\ q \in Seq(happened') /\ Len(q) = Len(buffer) + Len(SetToSeq(new))
        /\ \A i \in 1 .. Len(buffer) : q[i] = buffer[i]
    BY <1>2, <1>3, ConcatProperties
  <2>2. Len(buffer) \in Nat /\ Len(SetToSeq(new)) \in Nat /\ (buffer # <<>> => Len(buffer) # 0)
    BY <1>2, <1>3, LenProperties, EmptySeq
  <2>3. buffer # <<>> => Len(q) \in Nat \ {0} /\ 1 \in 1 .. Len(buffer)
    BY <2>1, <2>2
  <2>4. q = <<>> => Len(q) = 0
    BY <2>1, EmptySeq
  <2> HIDE DEF q
  <2>5. QED
    BY <2>1, <2>3, <2>4
<1> HIDE DEF q
<1>5. BufferInv'
  <2>1. CASE q = <<>>
    <3>1. Kept(q) = <<>>
      BY <2>1, BlockAssumption DEF Kept
    <3>2. QED
      BY <1>1, <3>1, EmptySeq DEF BufferInv
  <2>2. CASE q # <<>>
    BY <1>1, <1>4, <2>2, KeptStartsWithNewest DEF BufferInv
  <2>3. QED
    BY <2>1, <2>2
<1>6. buffer # <<>> => buffer' # <<>> /\ buffer[1].at <= buffer'[1].at
  <2> SUFFICES ASSUME buffer # <<>>
               PROVE  buffer' # <<>> /\ buffer[1].at <= buffer'[1].at
    OBVIOUS
  <2>1. q # <<>> /\ q[1] = buffer[1] /\ 1 \in 1 .. Len(q)
    BY <1>4
  <2>2. /\ Kept(q) # <<>>
        /\ \A i \in 1 .. Len(q) : q[i].at <= Kept(q)[1].at
    BY <1>4, <2>1, KeptStartsWithNewest
  <2>3. QED
    BY <1>1, <2>1, <2>2
<1>7. buffer' # <<>> => buffer'[1].at \in Nat
  BY <1>5, ElementOfSeq, EmptySeq, LenProperties DEF BufferInv
<1>8. buffer # <<>> => buffer[1].at \in Nat
  BY <1>3, ElementOfSeq, EmptySeq, LenProperties
<1>9. \A t \in happened' : Old(t) => Old(t)'
  BY <1>6, <1>7, <1>8, BlockAssumption DEF Old
<1>10. DOMAIN told' \subseteq happened' /\ seen' \subseteq happened'
  BY <1>1 DEF OnceInv, ForgottenIsOld, Remembered
<1>11. ASSUME NEW t \in DOMAIN told'
       PROVE  t \in seen' \/ Old(t)'
  <2>1. CASE t \in seen \cup trades
    <3>1. t.at \in Nat
      BY <1>10, <1>11
    <3>2. t \in seen' \/ (buffer' # <<>> /\ ~ (t.at + Retention >= buffer'[1].at))
      BY <1>1, <2>1 DEF Remembered
    <3>3. QED
      BY <1>7, <3>1, <3>2, BlockAssumption DEF Old
  <2>2. CASE t \notin seen \cup trades
    BY <1>1, <1>9, <1>10, <1>11, <2>2 DEF OnceInv, ForgottenIsOld
  <2>3. QED
    BY <2>1, <2>2
<1>12. ASSUME NEW t \in DOMAIN told', told'[t] > 1
       PROVE  Old(t)'
  <2>1. CASE t \in DOMAIN told /\ t \in new
    BY <1>9, <1>10, <1>12, <2>1 DEF OnceInv, ForgottenIsOld
  <2>2. CASE t \in DOMAIN told /\ t \notin new
    BY <1>1, <1>9, <1>10, <1>12, <2>2 DEF OnceInv, ToldOnce
  <2>3. CASE t \notin DOMAIN told
    BY <1>1, <1>12, <2>3
  <2>4. QED
    BY <2>1, <2>2, <2>3
<1>13. QED
  BY <1>5, <1>10, <1>11, <1>12 DEF ForgottenIsOld, ToldOnce

\* What tells nobody keeps it.
LEMMA RestTellsOnce ==
  ASSUME OnceInv, UNCHANGED tradeVars, happened' = happened
  PROVE  BufferInv' /\ ForgottenIsOld' /\ ToldOnce'
  BY DEF OnceInv, BufferInv, ForgottenIsOld, ToldOnce, Old, tradeVars

\* Every step keeps it.
LEMMA StepTellsOnce ==
  ASSUME OnceInv, IInv', [Next]_vars
  PROVE  BufferInv' /\ ForgottenIsOld' /\ ToldOnce'
<1>1. /\ IsFiniteSet(happened) /\ \A t \in happened' : t.at \in Nat
  BY DEF OnceInv, BufferInv, IInv, TimesOK
<1>2. ASSUME NEW v \in Venues, Trade(v)
      PROVE  BufferInv' /\ ForgottenIsOld' /\ ToldOnce'
  <2>1. happened' = happened \cup {[venue |-> v, at |-> now]}
    BY <1>2 DEF Trade
  <2>2. IsFiniteSet(happened') /\ happened \subseteq happened'
    BY <1>1, <2>1, FS_AddElement
  <2>3. CASE Insert({[venue |-> v, at |-> now]})
    <3>1. {[venue |-> v, at |-> now]} \in SUBSET happened'
      BY <2>1
    <3>2. QED
      BY <1>1, <2>2, <2>3, <3>1, InsertTellsOnce
  <2>4. CASE UNCHANGED tradeVars
    <3>1. buffer \in Seq(happened')
      BY <2>2, SeqMonotonic DEF OnceInv, BufferInv
    <3>2. QED
      BY <2>2, <2>4, <3>1 DEF OnceInv, BufferInv, ForgottenIsOld, ToldOnce, Old, tradeVars
  <2>5. QED
    BY <1>2, <2>3, <2>4 DEF Trade, Push
<1>3. ASSUME happened' = happened, NEW trades \in SUBSET happened, Insert(trades)
      PROVE  BufferInv' /\ ForgottenIsOld' /\ ToldOnce'
  <2>1. IsFiniteSet(happened') /\ trades \in SUBSET happened'
    BY <1>1, <1>3
  <2>2. QED
    BY <1>1, <1>3, <2>1, InsertTellsOnce
<1>4. ASSUME NEW v \in Streams, Seeded(v)
      PROVE  BufferInv' /\ ForgottenIsOld' /\ ToldOnce'
  BY <1>3, <1>4, RestTellsOnce DEF Seeded, Of
<1>5. ASSUME NEW v \in Windows \cup Cursors, PollFailed(v)
      PROVE  BufferInv' /\ ForgottenIsOld' /\ ToldOnce'
  BY <1>3, <1>5 DEF PollFailed, Reported
<1>6. ASSUME NEW v \in Windows, Answered(v)
      PROVE  BufferInv' /\ ForgottenIsOld' /\ ToldOnce'
  BY <1>3, <1>6 DEF Answered, Reported, LastTrades, Of
<1>7. ASSUME NEW v \in Cursors, RangeAnswered(v)
      PROVE  BufferInv' /\ ForgottenIsOld' /\ ToldOnce'
  <2>1. PICK range \in polls[v] :
          \E history \in Histories(v, range) : \E trades \in SUBSET history :
            Reported(v, trades) /\ happened' = happened
    BY <1>7 DEF RangeAnswered
  <2>2. PICK history \in Histories(v, range) : \E trades \in SUBSET history :
          Reported(v, trades) /\ happened' = happened
    BY <2>1
  <2>3. history \subseteq happened
    BY HistoryIsOfRange DEF Of
  <2>4. QED
    BY <1>3, <2>2, <2>3 DEF Reported
<1>8. CASE \/ Tick \/ Dispose \/ UNCHANGED vars
           \/ \E v \in Streams : Opened(v) \/ Closed(v) \/ Reconnect(v)
           \/ \E v \in Windows \cup Cursors : Poll(v)
  BY <1>8, RestTellsOnce DEF Tick, Dispose, Opened, Closed, Reconnect, Poll, vars
<1>9. QED
  BY <1>2, <1>4, <1>5, <1>6, <1>7, <1>8 DEF Next

\* Listeners are told of a block trade once until it is old, for every retention and
\* buffer size, whichever seeds, streams and polls report it and in whatever order
\* (insertBlockTrades).
THEOREM TradesAreToldOnce == Spec => []ToldOnce
<1>1. Init => OnceInv
  <2> SUFFICES ASSUME Init PROVE OnceInv
    OBVIOUS
  <2>1. BufferInv
    BY FS_EmptySet, EmptySeq DEF Init, BufferInv
  <2>2. DOMAIN told = {}
    BY DEF Init
  <2>3. ForgottenIsOld /\ ToldOnce
    BY <2>2 DEF Init, ForgottenIsOld, ToldOnce
  <2>4. QED
    BY <2>1, <2>3, InitIInv DEF OnceInv
<1>2. OnceInv /\ [Next]_vars => OnceInv'
  <2> SUFFICES ASSUME OnceInv, [Next]_vars PROVE OnceInv'
    OBVIOUS
  <2>1. IInv'
    BY StepIInv DEF OnceInv
  <2>2. QED
    BY <2>1, StepTellsOnce DEF OnceInv
<1>3. OnceInv => ToldOnce
  BY DEF OnceInv
<1>4. QED
  BY <1>1, <1>2, <1>3, PTL DEF Spec
=============================================================================
