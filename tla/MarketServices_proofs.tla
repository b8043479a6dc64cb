------------------------- MODULE MarketServices_proofs -------------------------
(***************************************************************************)
(* Proofs about MarketServices: what a viewer is told of a venue's health,  *)
(* the volatility index, and the instruments and quotes of an adapter.      *)
(* A behaviour is of one part, so the invariant of each part is kept by its *)
(* own steps and by the others, which leave its variables alone.            *)
(***************************************************************************)
EXTENDS MarketServices, TLAPS

(***************************************************************************)
(* Health.  A viewer who was told of an outage has it from the transport:   *)
(* the source that EffectiveState looks at first.                           *)
(***************************************************************************)
States == {"connected", "reconnecting", "down"}

Aged(state, age) == [Status(state, None) EXCEPT !.age = age]

Heard(r) ==
  r \in listening \ masked /\ link # "connected" =>
    /\ \E age \in 0..Stale : sources[r].transport = Aged(link, age)
    /\ shown[r] = link

IsSources(s) ==
  s = [transport |-> s.transport, health |-> s.health, lastActivity |-> s.lastActivity]

HealthInv ==
  /\ venue \in Venues /\ link \in States
  /\ sources = [r \in Runtimes |-> sources[r]]
  /\ \A r \in Runtimes : IsSources(sources[r])
  /\ shown = [r \in Runtimes |-> shown[r]]
  /\ listening \subseteq Runtimes
  /\ \A r \in Runtimes : Heard(r)

\* What a venue says of itself is told apart from what its transport says.
LEMMA AnswerIsHealth ==
  ASSUME venue \in Venues
  PROVE  ClassifySource(Answer) = "health"
<1>1. \A text \in Texts : /\ ClassifySource(Status("degraded", text)) = "health"
                           /\ ClassifySource(Status("connected", text)) = "health"
  <2> SUFFICES ASSUME NEW text \in Texts, NEW s,
                      s \in {Status("degraded", text), Status("connected", text)}
               PROVE  ClassifySource(s) = "health"
    OBVIOUS
  <2>1. s.message # None /\ s.state \in {"degraded", "connected"}
    BY NoneAssumption DEF Status
  <2>2. s.state \notin {"reconnecting", "down", "polling"}
    BY <2>1
  <2>3. s.state # "degraded" => s.state = "connected"
    BY <2>1
  <2>4. QED
    BY <2>1, <2>2, <2>3, Zenon DEF ClassifySource
<1> DEFINE Said(s) == ClassifySource(s) = "health"
<1> HIDE DEF Said
<1>2. \A text \in Texts : Said(Status("degraded", text)) /\ Said(Status("connected", text))
  BY <1>1 DEF Said
<1>3. \A r : Said(BinanceHealth(r))
  <2>1. /\ Said(Status("degraded", "rest probe failed"))
        /\ Said(Status("connected", "rest health ok"))
        /\ Said(Status("degraded", "rest health incomplete"))
    BY <1>2 DEF Texts
  <2>2. QED
    BY <2>1, Zenon DEF BinanceHealth
<1>4. \A r : Said(OkxStatusHealth(r))
  <2>1. /\ Said(Status("degraded", "system status"))
        /\ Said(Status("connected", "system status healthy"))
    BY <1>2 DEF Texts
  <2>2. QED
    BY <2>1, Zenon DEF OkxStatusHealth
<1>5. \A r : Said(BybitHealth(r))
  <2>1. /\ Said(Status("degraded", "system status probe failed"))
        /\ Said(Status("degraded", "system status"))
        /\ Said(Status("connected", "system status healthy"))
    BY <1>2 DEF Texts
  <2>2. QED
    BY <2>1, Zenon DEF BybitHealth
<1>6. \A r : Said(DeribitPlatformHealth(r))
  <2>1. /\ Said(Status("degraded", "platform maintenance"))
        /\ Said(Status("degraded", "locked indices"))
        /\ Said(Status("connected", "platform healthy"))
    BY <1>2 DEF Texts
  <2>2. QED
    BY <2>1, Zenon DEF DeribitPlatformHealth
<1>7. \A r : Said(DeribitPublicStatusHealth(r))
  <2>1. /\ Said(Status("degraded", "public status probe failed"))
        /\ Said(Status("degraded", "public status locked"))
    BY <1>2 DEF Texts
  <2>2. QED
    BY <2>1, <1>6, Zenon DEF DeribitPublicStatusHealth
<1>8. \A r : Said(DeriveHealth(r))
  <2>1. /\ Said(Status("degraded", "health probe failed"))
        /\ Said(Status("degraded", "time probe failed"))
        /\ Said(Status("degraded", "live incidents"))
        /\ Said(Status("connected", "incident probe healthy"))
    BY <1>2 DEF Texts
  <2>2. QED
    BY <2>1, Zenon DEF DeriveHealth
<1>9. \A r : Said(HealthOf(venue, r))
  <2>1. venue \in {"binance", "okx", "bybit", "deribit", "derive"}
    BY VenuesAssumption
  <2>2. \A r : HealthOf("binance", r) = BinanceHealth(r)
    BY Zenon DEF HealthOf
  <2>3. \A r : HealthOf("okx", r) = OkxStatusHealth(r)
    BY Zenon DEF HealthOf
  <2>4. \A r : HealthOf("bybit", r) = BybitHealth(r)
    BY Zenon DEF HealthOf
  <2>5. \A r : HealthOf("deribit", r) = DeribitPublicStatusHealth(r)
    BY Zenon DEF HealthOf
  <2>6. \A r : HealthOf("derive", r) = DeriveHealth(r)
    BY Zenon DEF HealthOf
  <2>7. QED
    BY <1>3, <1>4, <1>5, <1>7, <1>8, <2>1, <2>2, <2>3, <2>4, <2>5, <2>6
<1>10. Said(Answer)
  BY <1>9 DEF Answer
<1>11. QED
  BY <1>10 DEF Said

\* Telling a status keeps the sources what they are, and a status of the venue's
\* health leaves the transport alone.
LEMMA TellDoes ==
  ASSUME HealthInv, NEW status, Tell(status)
  PROVE  /\ sources' = [r \in Runtimes |-> sources'[r]]
         /\ shown' = [r \in Runtimes |-> shown'[r]]
         /\ \A r \in Runtimes : IsSources(sources'[r])
         /\ \A r \in listening : shown'[r] = EffectiveState(sources'[r])
         /\ \A r \in listening :
              IF ClassifySource(status) = "health"
                THEN sources'[r].transport = sources[r].transport
                ELSE sources'[r].transport = status
<1>1. ClassifySource(status) \in {"transport", "health"}
  BY Zenon DEF ClassifySource
<1>2. ASSUME NEW r \in Runtimes
      PROVE  /\ IsSources(Ingested(sources[r], status))
             /\ IF ClassifySource(status) = "health"
                  THEN Ingested(sources[r], status).transport = sources[r].transport
                  ELSE Ingested(sources[r], status).transport = status
  BY <1>1 DEF HealthInv, IsSources, Ingested
<1>3. /\ sources' = [r \in Runtimes |-> IF r \in listening
                                      THEN Ingested(sources[r], status) ELSE sources[r]]
      /\ shown' = [r \in Runtimes |-> IF r \in listening
                                    THEN EffectiveState(sources'[r]) ELSE shown[r]]
  BY DEF Tell
<1>4. \A r \in Runtimes : sources'[r] = IF r \in listening
                                      THEN Ingested(sources[r], status) ELSE sources[r]
  BY <1>3
<1>5. \A r \in Runtimes : IsSources(sources'[r])
  BY <1>2, <1>4 DEF HealthInv
<1>6. \A r \in listening : r \in Runtimes
  BY DEF HealthInv
<1>7. QED
  BY <1>2, <1>3, <1>4, <1>5, <1>6

\* An outage the transport has told is what is shown.
LEMMA OutageShown ==
  ASSUME NEW s, NEW state \in States \ {"connected"}, NEW age \in 0..Stale,
         s.transport = Aged(state, age)
  PROVE  EffectiveState(s) = state
  BY NoneAssumption DEF EffectiveState, States, Aged, Status

LEMMA InitHealth == Init => HealthInv
  BY DEF Init, HealthInv, States, Heard, NoSources, IsSources

LEMMA StepHealth ==
  ASSUME HealthInv, Next
  PROVE  HealthInv'
<1> USE DEF HealthInv
<1>1. ASSUME NEW state \in States, TransportTells(state) PROVE HealthInv'
  <2>1. /\ link' = state /\ Tell(Status(state, None)) /\ UNCHANGED <<venue, listening>>
        /\ masked' = IF state = "connected" THEN {} ELSE masked \ listening
    BY <1>1 DEF TransportTells
  <2>2. CASE state = "connected"
    BY <2>1, <2>2, TellDoes DEF Heard, States
  <2>3. CASE state # "connected"
    <3>1. ClassifySource(Status(state, None)) # "health"
      <4>1. Status(state, None).state \in {"reconnecting", "down", "polling"}
        BY <2>3 DEF Status, States
      <4>2. Status(state, None).state # "degraded"
        BY <4>1
      <4>3. "transport" # "health"
        OBVIOUS
      <4>4. QED
        BY <4>1, <4>2, <4>3, Zenon DEF ClassifySource
    <3>2. ASSUME NEW r \in Runtimes, r \in listening
          PROVE  /\ sources'[r].transport = Status(state, None)
                 /\ shown'[r] = EffectiveState(sources'[r])
      BY <2>1, <3>1, <3>2, TellDoes
    <3>3. 0 \in 0..Stale /\ Status(state, None) = Aged(state, 0)
      BY StaleAssumption DEF Aged, Status
    <3>4. ASSUME NEW r \in Runtimes, r \in listening
          PROVE  shown'[r] = state
      BY <2>3, <3>2, <3>3, <3>4, OutageShown
    <3>5. \A r \in Runtimes : Heard(r)'
      BY <2>1, <3>2, <3>3, <3>4 DEF Heard
    <3>6. QED
      BY <2>1, <3>5, TellDoes
  <2>4. QED
    BY <2>2, <2>3
<1>2. ASSUME NEW r \in Reports[venue], Change(r) PROVE HealthInv'
  <2>1. CASE link # "connected"
    BY <1>2, <2>1 DEF Change, Heard
  <2>2. CASE link = "connected"
    <3>1. \/ \E status : Tell(status)
          \/ UNCHANGED <<sources, shown>>
      <4>1. CASE venue = "okx"
        BY <1>2, <2>2, <4>1, Zenon DEF Change
      <4>2. CASE venue = "deribit"
        BY <1>2, <2>2, <4>2, Zenon DEF Change
      <4>3. CASE venue \notin {"okx", "deribit"}
        <5>1. venue # "okx" /\ venue # "deribit"
          BY <4>3
        <5>2. QED
          BY <1>2, <2>2, <5>1, Zenon DEF Change
      <4>4. QED
        BY <4>1, <4>2, <4>3
    <3>2. UNCHANGED <<venue, link, listening, masked>>
      BY <1>2 DEF Change
    <3>3. CASE UNCHANGED <<sources, shown>>
      BY <3>2, <3>3 DEF Heard
    <3>4. CASE \E status : Tell(status)
      BY <2>2, <3>2, <3>4, TellDoes DEF Heard
    <3>5. QED
      BY <3>1, <3>3, <3>4
  <2>3. QED
    BY <2>1, <2>2
<1>3. ASSUME Notice PROVE HealthInv'
  BY <1>3, TellDoes DEF Notice, Heard
<1>4. ASSUME Probe PROVE HealthInv'
  <2>1. Tell(Answer) /\ UNCHANGED <<venue, link, listening, masked>>
    BY <1>4 DEF Probe
  <2>2. \A r \in listening : /\ sources'[r].transport = sources[r].transport
                             /\ shown'[r] = EffectiveState(sources'[r])
    BY <2>1, TellDoes, AnswerIsHealth
  <2>3. ASSUME NEW r \in Runtimes, r \in listening \ masked, link # "connected"
        PROVE  /\ \E age \in 0..Stale : sources'[r].transport = Aged(link, age)
               /\ shown'[r] = link
    <3>1. PICK age \in 0..Stale : sources[r].transport = Aged(link, age)
      BY <2>3 DEF Heard
    <3>2. sources'[r].transport = Aged(link, age) /\ shown'[r] = EffectiveState(sources'[r])
      BY <2>2, <2>3, <3>1
    <3>3. QED
      BY <2>3, <3>2, OutageShown
  <2>4. \A r \in Runtimes : Heard(r)'
    BY <2>1, <2>3 DEF Heard
  <2>5. QED
    BY <2>1, <2>4, TellDoes
<1>5. ASSUME Tick PROVE HealthInv'
  <2>1. UNCHANGED <<venue, link, listening, shown, masked>>
    BY <1>5 DEF Tick
  <2>2. \A r \in Runtimes :
          sources'[r] = [sources[r] EXCEPT
             !.transport = OlderStatus(@), !.lastActivity = Older(@)]
    BY <1>5 DEF Tick
  <2>3. sources' = [r \in Runtimes |-> sources'[r]]
    BY <1>5 DEF Tick
  <2>4. ASSUME NEW r \in Runtimes
        PROVE  IsSources(sources'[r])
    BY <2>2 DEF IsSources
  <2>5. ASSUME NEW r \in Runtimes, Heard(r)
        PROVE  Heard(r)'
    <3>1. SUFFICES ASSUME (r \in listening \ masked /\ link # "connected")'
                   PROVE  \E age \in 0..Stale : sources'[r].transport = Aged(link, age)
      BY <2>1, <2>5 DEF Heard
    <3>2. PICK age \in 0..Stale : sources[r].transport = Aged(link, age)
      BY <2>1, <2>5, <3>1 DEF Heard
    <3>3. Aged(link, age) # None
      BY NoneAssumption DEF Aged, States
    <3>4. sources'[r].transport = [Aged(link, age) EXCEPT !.age = Older(@)]
      <4>1. \A s, x, y : IsSources(s) => [s EXCEPT !.transport = x, !.lastActivity = y].transport = x
        BY DEF IsSources
      <4>2. sources'[r].transport = OlderStatus(sources[r].transport)
        <5>1. sources'[r] = [sources[r] EXCEPT !.transport = OlderStatus(sources[r].transport),
                                               !.lastActivity = Older(sources[r].lastActivity)]
          BY <2>2
        <5>2. IsSources(sources[r])
          OBVIOUS
        <5>3. QED
          BY <4>1, <5>1, <5>2
      <4>3. QED
        BY <3>2, <3>3, <4>2 DEF OlderStatus
    <3>5. Older(age) \in 0..Stale
      BY StaleAssumption DEF Older
    <3>6. [Aged(link, age) EXCEPT !.age = Older(@)] = Aged(link, Older(age))
      BY DEF Aged, Status
    <3>7. QED
      BY <3>4, <3>5, <3>6
  <2>6. QED
    BY <2>1, <2>3, <2>4, <2>5
<1>6. ASSUME NEW r \in Runtimes, NEW age, Subscribe(r, age) PROVE HealthInv'
  <2>1. /\ listening' = listening \cup {r} /\ UNCHANGED <<venue, link>>
        /\ link # "connected" => masked' = masked \cup listening \cup {r}
    BY <1>6 DEF Subscribe
  <2>2. \A q \in Runtimes : Heard(q)'
    BY <2>1 DEF Heard
  <2> DEFINE told == Status("connected", None)
             Sources(q) == CASE q \in listening -> Ingested(sources[q], told)
                          [] q = r -> [NoSources EXCEPT !.lastActivity = age]
                          [] OTHER -> sources[q]
             Shown(q) == IF q \in listening THEN EffectiveState(sources'[q]) ELSE shown[q]
  <2>3. /\ sources' = [q \in Runtimes |-> Sources(q)]
        /\ shown' = [q \in Runtimes |-> Shown(q)]
    BY <1>6, Zenon DEF Subscribe
  <2>4. ASSUME NEW q \in Runtimes
        PROVE  IsSources(Sources(q))
    <3>1. IsSources(Ingested(sources[q], told))
      <4>1. ClassifySource(told) \in {"transport", "health"}
        BY Zenon DEF ClassifySource
      <4>2. QED
        BY <4>1 DEF Ingested, IsSources
    <3>2. IsSources([NoSources EXCEPT !.lastActivity = age])
      BY DEF NoSources, IsSources
    <3>3. Sources(q) \in {Ingested(sources[q], told), [NoSources EXCEPT !.lastActivity = age],
                      sources[q]}
      <4>1. r \notin listening
        BY <1>6 DEF Subscribe
      <4>2. CASE q \in listening
        <5>1. q # r
          BY <4>1, <4>2
        <5>2. Sources(q) = Ingested(sources[q], told)
          BY <4>2, <5>1, Zenon
        <5>3. QED
          BY <5>2
      <4>3. CASE q \notin listening /\ q = r
        <5>1. Sources(q) = [NoSources EXCEPT !.lastActivity = age]
          BY <4>3, Zenon
        <5>2. QED
          BY <5>1
      <4>4. CASE q \notin listening /\ q # r
        <5>1. Sources(q) = sources[q]
          BY <4>4, Zenon
        <5>2. QED
          BY <5>1
      <4>5. QED
        BY <4>2, <4>3, <4>4
    <3>4. IsSources(sources[q])
      OBVIOUS
    <3> HIDE DEF Sources
    <3>5. QED
      BY <3>1, <3>2, <3>3, <3>4
  <2> HIDE DEF Sources, Shown
  <2>5. QED
    BY <2>1, <2>2, <2>3, <2>4
<1>7. ASSUME NEW r \in Runtimes, Release(r) PROVE HealthInv'
  BY <1>7 DEF Release, Heard, IsSources, NoSources
<1>8. ASSUME NEW r \in Runtimes, NEW age \in 0..Stale, OnDelta(r, age) PROVE HealthInv'
  BY <1>8 DEF OnDelta, Heard, IsSources, Touched
<1>9. QED
  BY <1>1, <1>2, <1>3, <1>4, <1>5, <1>6, <1>7, <1>8 DEF Next, States

(***************************************************************************)
(* The volatility index.  A push takes range and close from the snapshot,   *)
(* which has them from the history, and there is no snapshot without one.   *)
(***************************************************************************)
Stated(c) ==
  LET s == dvolSnapshots[c]
      h == candleHistory[c] IN
  IF h = None THEN s = None
  ELSE s = Dvol!BuildSnapshot(s.current, Dvol!Close(h, 1), Dvol!Highest(h), Dvol!Lowest(h))

DvolInv ==
  /\ year \in [Currencies -> Years]
  /\ candleHistory = [c \in Currencies |-> candleHistory[c]]
  /\ dvolSnapshots = [c \in Currencies |-> dvolSnapshots[c]]
  /\ \A c \in Currencies : Stated(c)

LEMMA DvolInvRange == DvolInv => RangeIsHistory
<1> SUFFICES ASSUME DvolInv, NEW c \in Currencies, candleHistory[c] # None
             PROVE  LET s == dvolSnapshots[c]
                        h == candleHistory[c] IN
                    /\ s.high52w = Dvol!Highest(h) /\ s.low52w = Dvol!Lowest(h)
                    /\ s.previousClose = Dvol!Close(h, 1)
                    /\ s.ivr = Dvol!Rank(s.current, Dvol!Highest(h), Dvol!Lowest(h))
                    /\ s.ivChange1d = s.current - Dvol!Close(h, 1)
  BY DEF DvolInv, Stated, RangeIsHistory, Dvol!RangeIsHistory
<1>1. dvolSnapshots[c] = Dvol!BuildSnapshot(dvolSnapshots[c].current,
                                           Dvol!Close(candleHistory[c], 1),
                                           Dvol!Highest(candleHistory[c]),
                                           Dvol!Lowest(candleHistory[c]))
  BY DEF DvolInv, Stated
<1>2. QED
  BY <1>1 DEF Dvol!BuildSnapshot

LEMMA InitDvol == Dvol!DvolInit => DvolInv
  BY DEF Dvol!DvolInit, DvolInv, Stated

LEMMA StepDvol ==
  ASSUME DvolInv, Dvol!DvolNext
  PROVE  DvolInv'
<1> USE DEF DvolInv
<1>1. ASSUME NEW c \in Currencies, Dvol!FetchHistory(c) PROVE DvolInv'
  <2>1. UNCHANGED year
    BY <1>1 DEF Dvol!FetchHistory
  <2>2. CASE UNCHANGED <<candleHistory, dvolSnapshots>>
    BY <2>1, <2>2 DEF Stated
  <2>3. CASE Dvol!Keep(c, year[c])
    <3>1. candleHistory' = [candleHistory EXCEPT ![c] = year[c]]
      BY <2>3 DEF Dvol!Keep
    <3>2. dvolSnapshots' = [dvolSnapshots EXCEPT ![c] =
             Dvol!BuildSnapshot(Dvol!Close(year[c], 0), Dvol!Close(year[c], 1),
                                Dvol!Highest(year[c]), Dvol!Lowest(year[c]))]
      BY <2>3 DEF Dvol!Keep
    <3>3. Stated(c)'
      <4>1. candleHistory'[c] = year[c] /\ year[c] # None
        BY <3>1, YearsAssumption
      <4>2. dvolSnapshots'[c] =
              Dvol!BuildSnapshot(Dvol!Close(year[c], 0), Dvol!Close(year[c], 1),
                                 Dvol!Highest(year[c]), Dvol!Lowest(year[c]))
        BY <3>2
      <4>3. dvolSnapshots'[c].current = Dvol!Close(year[c], 0)
        BY <4>2 DEF Dvol!BuildSnapshot
      <4>4. QED
        BY <4>1, <4>2, <4>3 DEF Stated
    <3>4. ASSUME NEW d \in Currencies, d # c
          PROVE  Stated(d)'
      <4>1. candleHistory'[d] = candleHistory[d] /\ dvolSnapshots'[d] = dvolSnapshots[d]
        BY <3>1, <3>2, <3>4
      <4>2. QED
        BY <4>1 DEF Stated
    <3>5. QED
      BY <2>1, <3>1, <3>2, <3>3, <3>4
  <2>4. QED
    BY <1>1, <2>2, <2>3 DEF Dvol!FetchHistory
<1>2. ASSUME NEW c \in Currencies, NEW v \in Levels, Dvol!HandlePush(c, v) PROVE DvolInv'
  <2>1. /\ dvolSnapshots[c] # None /\ UNCHANGED <<year, candleHistory>>
        /\ dvolSnapshots' = [dvolSnapshots EXCEPT ![c] =
             Dvol!BuildSnapshot(v, @.previousClose, @.high52w, @.low52w)]
    BY <1>2 DEF Dvol!HandlePush
  <2>2. Stated(c)'
    <3> DEFINE h == candleHistory[c]
    <3>1. dvolSnapshots[c] = Dvol!BuildSnapshot(dvolSnapshots[c].current, Dvol!Close(h, 1),
                                               Dvol!Highest(h), Dvol!Lowest(h))
      BY <2>1 DEF Stated
    <3>2. dvolSnapshots'[c] = Dvol!BuildSnapshot(v, Dvol!Close(h, 1), Dvol!Highest(h),
                                                Dvol!Lowest(h))
      <4>1. /\ dvolSnapshots[c].previousClose = Dvol!Close(h, 1)
            /\ dvolSnapshots[c].high52w = Dvol!Highest(h)
            /\ dvolSnapshots[c].low52w = Dvol!Lowest(h)
        BY <3>1 DEF Dvol!BuildSnapshot
      <4>2. QED
        BY <2>1, <4>1
    <3>3. dvolSnapshots'[c].current = v
      BY <3>2 DEF Dvol!BuildSnapshot
    <3>4. candleHistory'[c] = h /\ h # None
      BY <2>1 DEF Stated
    <3>5. QED
      BY <3>2, <3>3, <3>4 DEF Stated
  <2>3. ASSUME NEW d \in Currencies, d # c
        PROVE  Stated(d)'
    <3>1. candleHistory'[d] = candleHistory[d] /\ dvolSnapshots'[d] = dvolSnapshots[d]
      BY <2>1, <2>3
    <3>2. QED
      BY <3>1 DEF Stated
  <2>4. QED
    BY <2>1, <2>2, <2>3
<1>3. ASSUME NEW c \in Currencies, Dvol!DayPasses(c) PROVE DvolInv'
  BY <1>3 DEF Dvol!DayPasses, Stated
<1>4. ASSUME UNCHANGED <<year, candleHistory, dvolSnapshots>> PROVE DvolInv'
  BY <1>4 DEF Stated
<1>5. QED
  BY <1>1, <1>2, <1>3, <1>4
     DEF Dvol!DvolNext, Dvol!DvolStart, Dvol!Connects, Dvol!DvolFails, Dvol!ConnectionLost,
         Dvol!Subscribed, Dvol!Midnight, Dvol!RefreshFails, Dvol!FetchHv

(***************************************************************************)
(* Instruments and quotes.  A symbol has one instrument at a time.  What is *)
(* removed is unsaid from then on, so that when it is listed again neither  *)
(* its quote nor what a viewer holds of it is taken for the other.          *)
(***************************************************************************)
Known(id) == Data!Known(id)

\* Where an instrument comes from.
Catalogued(i) ==
  LET id == i.exchangeSymbol IN
  id \in Ids /\ i # None /\ i \in {Data!Parsed(id), Data!ParsedNew(id)}

OneEach == \A i, j \in instruments : i.exchangeSymbol = j.exchangeSymbol => i = j

\* The fields of a contract that are told; a fetched one has the last price too.
Told == {"bid", "mark", "bidSize", "underlyingPriceUsd", "indexPriceUsd", "volume24h",
         "openInterest", "openInterestUsd", "volume24hUsd", "estimatedFee", "greeks"}

Held(id) == watched /\ view[id] # None

Shows(i) ==
  LET id == i.exchangeSymbol IN
  Held(id) /\ id \notin unsaid => \A f \in Told : view[id][f] = Data!Contract(i)[f]

DataInv ==
  /\ venue \in Venues
  /\ quoteStore = [id \in Ids |-> quoteStore[id]]
  /\ view = [id \in Ids |-> view[id]]
  /\ ~marketsLoaded => instruments = {} /\ ~watched
  /\ \A i \in instruments : Catalogued(i)
  /\ OneEach
  /\ \A id \in Ids : Held(id) => DOMAIN view[id] = Told \cup {"last"}
  /\ \A id \in Ids : Held(id) => Known(id) \/ id \in unsaid
  /\ \A i \in instruments : Shows(i)

LEMMA FieldsOfContracts ==
  ASSUME NEW i, NEW q
  PROVE  /\ DOMAIN Data!Delta(i, q) = Told
         /\ DOMAIN Data!Contract(i) = Told \cup {"last"}
  BY DEF Data!Delta, Data!Contract, Told

LEMMA DataInvView == DataInv => ViewIsStore
<1>1. \A i : DOMAIN Data!Contract(i) \ {"last"} = Told
  BY FieldsOfContracts DEF Told
<1>2. QED
  BY <1>1 DEF DataInv, Shows, Held, ViewIsStore, Data!ViewIsStore

\* A listing that is read becomes an instrument of its symbol.
LEMMA ListingSymbol ==
  ASSUME NEW v \in Venues, NEW l
  PROVE  /\ Data!ParsedListing(v, l) # None => Data!ParsedListing(v, l).exchangeSymbol = l.id
         /\ Data!ParsedNewListing(v, l) # None =>
              Data!ParsedNewListing(v, l).exchangeSymbol = l.id
<1> DEFINE Named(i) == i # None => i.exchangeSymbol = l.id
<1>1. /\ Named(None)
      /\ \A base, settle, expiry, strike, right, inverse, size, currency, fee :
           Named(Data!With(Data!Instrument(l, base, settle, expiry, strike, right),
                           Data!Terms(inverse, size, currency, fee)))
  BY DEF Data!With, Data!Instrument, Data!Terms
<1> HIDE DEF Named
<1>2. Named(Data!BinanceInstrument(l))
  BY <1>1, Zenon DEF Data!BinanceInstrument
<1>3. Named(Data!BinanceNewInstrument(l))
  BY <1>1, Zenon DEF Data!BinanceNewInstrument
<1>4. Named(Data!OkxInstrument(l))
  BY <1>1, Zenon DEF Data!OkxInstrument
<1>5. Named(Data!OkxNewInstrument(l))
  BY <1>1, <1>4, Zenon DEF Data!OkxNewInstrument
<1>6. Named(Data!BybitInstrument(l))
  BY <1>1, Zenon DEF Data!BybitInstrument
<1>7. Named(Data!DeribitInstrument(l))
  BY <1>1, Zenon DEF Data!DeribitInstrument
<1>8. Named(Data!DeriveInstrument(l))
  BY <1>1, Zenon DEF Data!DeriveInstrument
<1>9. v \in {"binance", "okx", "bybit", "deribit", "derive"}
  BY VenuesAssumption
<1>10. Named(Data!ParsedListing(v, l))
  <2>1. Data!ParsedListing("binance", l) = Data!BinanceInstrument(l)
    BY Zenon DEF Data!ParsedListing
  <2>2. Data!ParsedListing("okx", l) = Data!OkxInstrument(l)
    BY Zenon DEF Data!ParsedListing
  <2>3. Data!ParsedListing("bybit", l) = Data!BybitInstrument(l)
    BY Zenon DEF Data!ParsedListing
  <2>4. Data!ParsedListing("deribit", l) = Data!DeribitInstrument(l)
    BY Zenon DEF Data!ParsedListing
  <2>5. Data!ParsedListing("derive", l) = Data!DeriveInstrument(l)
    BY Zenon DEF Data!ParsedListing
  <2>6. QED
    BY <1>2, <1>4, <1>6, <1>7, <1>8, <1>9, <2>1, <2>2, <2>3, <2>4, <2>5
<1>11. Named(Data!ParsedNewListing(v, l))
  <2>1. Data!ParsedNewListing("binance", l) = Data!BinanceNewInstrument(l)
    BY Zenon DEF Data!ParsedNewListing
  <2>2. Data!ParsedNewListing("okx", l) = Data!OkxNewInstrument(l)
    BY Zenon DEF Data!ParsedNewListing
  <2>3. v # "binance" /\ v # "okx" =>
          Data!ParsedNewListing(v, l) = Data!ParsedListing(v, l)
    BY Zenon DEF Data!ParsedNewListing
  <2>4. QED
    BY <1>3, <1>5, <1>10, <2>1, <2>2, <2>3
<1>12. QED
  BY <1>10, <1>11 DEF Named

\* The contract of an instrument changes with its quote only.
LEMMA ContractStays ==
  ASSUME NEW i, venue' = venue,
         quoteStore'[i.exchangeSymbol] = quoteStore[i.exchangeSymbol]
  PROVE  Data!Contract(i)' = Data!Contract(i)
  BY DEF Data!Contract, Data!Delta, Data!Price

LEMMA ContractIsDelta ==
  ASSUME NEW i, NEW q, q # None, venue' = venue, quoteStore'[i.exchangeSymbol] = q
  PROVE  \A f \in Told : Data!Contract(i)'[f] = Data!Delta(i, q)[f]
<1>1. Data!OrElse(quoteStore[i.exchangeSymbol], Data!EmptyQuote)' = q
  BY DEF Data!OrElse
<1>2. QED
  BY <1>1 DEF Data!Contract, Data!Delta, Data!Price, Told

LEMMA InstrumentIs ==
  ASSUME OneEach, NEW i \in instruments
  PROVE  Known(i.exchangeSymbol) /\ Data!InstrumentOf(instruments, i.exchangeSymbol) = i
  BY DEF OneEach, Known, Data!Known, Data!Listed, Data!InstrumentOf

\* What leaves the catalogue alone keeps all but what is said of the quotes.
LEMMA CatalogueKept ==
  ASSUME DataInv, UNCHANGED <<venue, instruments>>
  PROVE  /\ \A id : Known(id)' <=> Known(id)
         /\ \A i \in instruments' : Catalogued(i)' /\ i \in instruments
         /\ OneEach'
  BY DEF DataInv, Known, Data!Known, Catalogued, Data!Parsed, Data!ParsedNew, OneEach

\* Quotes that are told reach every viewer's copy of what is in the catalogue.
LEMMA EmitKeeps ==
  ASSUME DataInv, marketsLoaded, NEW quotes, Data!Emit(quotes),
         UNCHANGED <<venue, marketsLoaded, instruments, watched>>
  PROVE  DataInv'
<1> DEFINE told == {id \in Ids : watched /\ quotes[id] # None /\ Known(id)}
           merged(id) == Data!Changed(view[id], Data!Delta(
                            Data!InstrumentOf(instruments, id), quotes[id]))
<1>1. /\ quoteStore' = [id \in Ids |-> Data!OrElse(quotes[id], quoteStore[id])]
      /\ view' = [id \in Ids |->
                    IF id \in told /\ view[id] # None THEN merged(id) ELSE view[id]]
      /\ unsaid' = unsaid \ told
  BY DEF Data!Emit, Known
<1>2. \A id \in Ids : DOMAIN merged(id) = DOMAIN view[id]
  BY DEF Data!Changed
<1>3. \A id \in Ids : Held(id)' => Held(id)
  BY <1>1 DEF Held
<1>4. ASSUME NEW id \in Ids, Held(id)'
      PROVE  /\ DOMAIN view'[id] = Told \cup {"last"}
             /\ Known(id) \/ id \in unsaid'
  <2>1. Held(id) /\ DOMAIN view[id] = Told \cup {"last"} /\ (Known(id) \/ id \in unsaid)
    BY <1>3, <1>4 DEF DataInv
  <2>2. view'[id] \in {merged(id), view[id]}
    BY <1>1
  <2>3. QED
    BY <1>1, <1>2, <2>1, <2>2
<1>5. ASSUME NEW i \in instruments
      PROVE  Shows(i)'
  <2> DEFINE id == i.exchangeSymbol
  <2> SUFFICES ASSUME Held(id)', id \notin unsaid', NEW f \in Told
               PROVE  view'[id][f] = Data!Contract(i)'[f]
    BY DEF Shows
  <2>1. id \in Ids /\ Known(id) /\ Data!InstrumentOf(instruments, id) = i
    BY InstrumentIs DEF DataInv, Catalogued
  <2>2. Held(id) /\ watched /\ view[id] # None
    BY <1>3, <2>1 DEF Held
  <2>3. CASE quotes[id] # None
    <3>1. quoteStore'[id] = quotes[id]
      BY <1>1, <2>1, <2>3 DEF Data!OrElse
    <3>2. Data!Contract(i)'[f] = Data!Delta(i, quotes[id])[f]
      BY <2>3, <3>1, ContractIsDelta
    <3>3. view'[id] = Data!Changed(view[id], Data!Delta(i, quotes[id]))
      BY <1>1, <2>1, <2>2, <2>3
    <3>4. f \in DOMAIN view[id] /\ f \in DOMAIN Data!Delta(i, quotes[id])
      BY <2>1, <2>2, FieldsOfContracts DEF DataInv
    <3>5. view'[id][f] = Data!Delta(i, quotes[id])[f]
      BY <3>3, <3>4 DEF Data!Changed
    <3>6. QED
      BY <3>2, <3>5
  <2>4. CASE quotes[id] = None
    <3>1. quoteStore'[id] = quoteStore[id] /\ view'[id] = view[id] /\ id \notin unsaid
      BY <1>1, <2>1, <2>4 DEF Data!OrElse
    <3>2. view[id][f] = Data!Contract(i)[f]
      BY <2>2, <3>1 DEF DataInv, Shows
    <3>3. Data!Contract(i)' = Data!Contract(i)
      BY <3>1, ContractStays
    <3>4. QED
      BY <3>1, <3>2, <3>3
  <2>5. QED
    BY <2>3, <2>4
<1> HIDE DEF merged
<1>6. /\ quoteStore' = [id \in Ids |-> quoteStore'[id]]
      /\ view' = [id \in Ids |-> view'[id]]
  BY <1>1
<1>7. QED
  BY <1>4, <1>5, <1>6, CatalogueKept DEF DataInv

LEMMA InitData == Data!Init => DataInv
  BY DEF Data!Init, DataInv, OneEach, Held

\* What changes quotes only, of symbols without an instrument or that are unsaid then.
LEMMA QuotesKept ==
  ASSUME DataInv, UNCHANGED <<venue, marketsLoaded, instruments, watched, view>>,
         quoteStore' = [id \in Ids |-> quoteStore'[id]], unsaid \subseteq unsaid',
         \A i \in instruments : \/ i.exchangeSymbol \in unsaid'
                                \/ quoteStore'[i.exchangeSymbol] = quoteStore[i.exchangeSymbol]
  PROVE  DataInv'
<1>1. ASSUME NEW i \in instruments
      PROVE  Shows(i)'
  BY <1>1, ContractStays DEF Shows, Held, DataInv
<1>2. \A id \in Ids : Held(id)' <=> Held(id)
  BY DEF Held
<1>3. QED
  BY <1>1, <1>2, CatalogueKept DEF DataInv

LEMMA FetchSnapshotKeeps ==
  ASSUME DataInv, Data!FetchSnapshot
  PROVE  DataInv'
<1>1. ~marketsLoaded /\ UNCHANGED <<venue, marketsLoaded, instruments, watched, view, unsaid>>
  BY DEF Data!FetchSnapshot, Data!viewVars
<1>2. quoteStore' = [id \in Ids |-> quoteStore'[id]]
  BY DEF Data!FetchSnapshot
<1>3. instruments = {}
  BY <1>1 DEF DataInv
<1>4. QED
  BY <1>1, <1>2, <1>3, QuotesKept

LEMMA BinanceEarlyKeeps ==
  ASSUME DataInv, NEW id \in Ids, NEW m, Data!BinanceEarly(id, m)
  PROVE  DataInv'
<1>1. /\ ~Known(id)
      /\ UNCHANGED <<venue, marketsLoaded, instruments, watched, view, unsaid>>
      /\ quoteStore' = [quoteStore EXCEPT ![id] = Data!BinanceMarkPrice(@, m)]
  BY DEF Data!BinanceEarly, Data!viewVars, Known
<1>2. \A i \in instruments : quoteStore'[i.exchangeSymbol] = quoteStore[i.exchangeSymbol]
  BY <1>1 DEF DataInv, Known, Data!Known, Data!Listed, Catalogued
<1>3. quoteStore' = [x \in Ids |-> quoteStore'[x]]
  BY <1>1 DEF DataInv
<1>4. QED
  BY <1>1, <1>2, <1>3, QuotesKept

LEMMA LoadMarketsKeeps ==
  ASSUME DataInv, Data!LoadMarkets
  PROVE  DataInv'
<1>1. /\ ~marketsLoaded /\ marketsLoaded'
      /\ UNCHANGED <<venue, quoteStore, watched, view, unsaid>>
  BY DEF Data!LoadMarkets, Data!viewVars
<1>2. \A i \in instruments' : \E id \in Ids : i = Data!Parsed(id) /\ i # None
  BY DEF Data!LoadMarkets
<1>3. \A id \in Ids : Data!Parsed(id) # None => Data!Parsed(id).exchangeSymbol = id
  BY ListingSymbol, ListingAssumption DEF Data!Parsed, DataInv
<1>4. \A id : /\ Data!Parsed(id)' = Data!Parsed(id)
              /\ Data!ParsedNew(id)' = Data!ParsedNew(id)
  BY <1>1 DEF Data!Parsed, Data!ParsedNew
<1>5. \A i \in instruments' : Catalogued(i)'
  BY <1>2, <1>3, <1>4 DEF Catalogued
<1>6. OneEach'
  BY <1>2, <1>3 DEF OneEach
<1>7. ~watched'
  BY <1>1 DEF DataInv
<1>8. \A i \in instruments' : Shows(i)'
  BY <1>7 DEF Shows, Held
<1>9. QED
  BY <1>1, <1>5, <1>6, <1>7, <1>8 DEF DataInv, Held

LEMMA ToldKeeps ==
  ASSUME DataInv, NEW id \in Ids, NEW kind, NEW m,
         Data!Receive(id, kind, m) \/ Data!Poll(id, kind, m)
  PROVE  DataInv'
<1> DEFINE quotes == Data!Only(id, Data!Quoted(kind, id, m))
<1>1. /\ marketsLoaded /\ Data!Emit(quotes)
      /\ UNCHANGED <<venue, marketsLoaded, instruments, watched>>
  BY DEF Data!Receive, Data!Poll
<1> HIDE DEF quotes
<1>2. QED
  BY <1>1, EmitKeeps

LEMMA PriceIndexKeeps ==
  ASSUME DataInv, NEW price, Data!PriceIndex(price)
  PROVE  DataInv'
<1> DEFINE quotes == [id \in Ids |->
             IF Data!Known(id) /\ quoteStore[id] # None
               THEN Data!DeribitPriceIndex(quoteStore[id], price) ELSE None]
<1>1. /\ marketsLoaded /\ Data!Emit(quotes)
      /\ UNCHANGED <<venue, marketsLoaded, instruments, watched>>
  BY DEF Data!PriceIndex
<1> HIDE DEF quotes
<1>2. QED
  BY <1>1, EmitKeeps

LEMMA RefetchKeeps ==
  ASSUME DataInv, NEW id \in Ids, NEW m, Data!Refetch(id, m)
  PROVE  DataInv'
<1>1. /\ unsaid' = unsaid \cup {id}
      /\ UNCHANGED <<venue, marketsLoaded, instruments, watched, view>>
      /\ quoteStore' = [quoteStore EXCEPT ![id] = Data!DeriveQuote(m)]
  BY DEF Data!Refetch
<1>2. \A i \in instruments : \/ i.exchangeSymbol \in unsaid'
                             \/ quoteStore'[i.exchangeSymbol] = quoteStore[i.exchangeSymbol]
  BY <1>1 DEF DataInv, Catalogued
<1>3. quoteStore' = [x \in Ids |-> quoteStore'[x]]
  BY <1>1 DEF DataInv
<1>4. QED
  BY <1>1, <1>2, <1>3, QuotesKept

\* Whoever holds a contract of what is listed has it from before a removal.
LEMMA ListKeeps ==
  ASSUME DataInv, NEW id \in Ids, Data!List(id)
  PROVE  DataInv'
<1> DEFINE new == Data!ParsedNew(id)
<1>1. /\ marketsLoaded /\ ~Known(id) /\ new # None
      /\ instruments' = instruments \cup {new}
      /\ UNCHANGED <<venue, marketsLoaded, quoteStore, watched, view, unsaid>>
  BY DEF Data!List, Data!viewVars, Known
<1>2. new.exchangeSymbol = id
  BY <1>1, ListingSymbol, ListingAssumption DEF Data!ParsedNew, DataInv
<1>3. \A x : Known(x)' <=> Known(x) \/ x = id
  BY <1>1, <1>2 DEF Known, Data!Known, Data!Listed
<1>4. \A x : /\ Data!Parsed(x)' = Data!Parsed(x)
             /\ Data!ParsedNew(x)' = Data!ParsedNew(x)
  BY <1>1 DEF Data!Parsed, Data!ParsedNew
<1>5. \A i \in instruments' : Catalogued(i)'
  BY <1>1, <1>2, <1>4 DEF Catalogued, DataInv
<1>6. OneEach'
  BY <1>1, <1>2 DEF OneEach, DataInv, Known, Data!Known, Data!Listed
<1>7. \A x \in Ids : Held(x)' <=> Held(x)
  BY <1>1 DEF Held
<1>8. ASSUME NEW i \in instruments'
      PROVE  Shows(i)'
  <2>1. CASE i \in instruments
    BY <1>1, <2>1, ContractStays DEF Shows, Held, DataInv
  <2>2. CASE i = new
    <3>1. Held(id) => id \in unsaid
      BY <1>1 DEF DataInv
    <3>2. i.exchangeSymbol = id
      BY <1>2, <2>2
    <3>3. QED
      BY <1>1, <1>7, <3>1, <3>2 DEF Shows
  <2>3. QED
    BY <1>1, <2>1, <2>2
<1>9. QED
  BY <1>1, <1>3, <1>5, <1>6, <1>7, <1>8 DEF DataInv

\* What is removed is unsaid: a viewer goes on holding it.
LEMMA RemoveKeeps ==
  ASSUME DataInv, NEW ids, Data!Remove(ids)
  PROVE  DataInv'
<1>1. /\ instruments' = {i \in instruments : i.exchangeSymbol \notin ids}
      /\ quoteStore' = [id \in Ids |-> IF id \in ids THEN None ELSE quoteStore[id]]
      /\ unsaid' = unsaid \cup ids
      /\ marketsLoaded
      /\ UNCHANGED <<venue, marketsLoaded, watched, view>>
  BY DEF Data!Remove
<1>2. \A x : /\ Data!Parsed(x)' = Data!Parsed(x)
             /\ Data!ParsedNew(x)' = Data!ParsedNew(x)
             /\ Known(x)' <=> Known(x) /\ x \notin ids
  BY <1>1 DEF Data!Parsed, Data!ParsedNew, Known, Data!Known, Data!Listed
<1>3. \A i \in instruments' : i \in instruments /\ Catalogued(i)'
  BY <1>1, <1>2 DEF Catalogued, DataInv
<1>4. ASSUME NEW i \in instruments'
      PROVE  Shows(i)'
  <2>1. i \in instruments /\ quoteStore'[i.exchangeSymbol] = quoteStore[i.exchangeSymbol]
    BY <1>1 DEF DataInv, Catalogued
  <2>2. QED
    BY <1>1, <2>1, ContractStays DEF Shows, Held, DataInv
<1>5. OneEach'
  BY <1>1 DEF OneEach, DataInv
<1>6. \A x \in Ids : Held(x)' <=> Held(x)
  BY <1>1 DEF Held
<1>7. QED
  BY <1>1, <1>2, <1>3, <1>4, <1>5, <1>6 DEF DataInv

LEMMA NextDayKeeps ==
  ASSUME DataInv, Data!NextDay
  PROVE  DataInv'
<1>1. UNCHANGED <<venue, marketsLoaded, instruments, quoteStore, watched, view, unsaid>>
  BY DEF Data!NextDay, Data!adapterVars, Data!viewVars
<1>2. QED
  BY <1>1, QuotesKept DEF DataInv

LEMMA WatchKeeps ==
  ASSUME DataInv, Data!Watch
  PROVE  DataInv'
<1>1. /\ view' = [id \in Ids |->
                    IF Known(id) THEN Data!Contract(Data!InstrumentOf(instruments, id)) ELSE None]
      /\ marketsLoaded
      /\ UNCHANGED <<venue, marketsLoaded, instruments, quoteStore>>
  BY DEF Data!Watch, Data!adapterVars, Known
<1>2. ASSUME NEW id \in Ids, Held(id)'
      PROVE  Known(id) /\ DOMAIN view'[id] = Told \cup {"last"}
  BY <1>1, <1>2, FieldsOfContracts DEF Held
<1>3. ASSUME NEW i \in instruments
      PROVE  Shows(i)'
  <2>1. i.exchangeSymbol \in Ids /\ Known(i.exchangeSymbol)
        /\ Data!InstrumentOf(instruments, i.exchangeSymbol) = i
    BY InstrumentIs DEF DataInv, Catalogued
  <2>2. view'[i.exchangeSymbol] = Data!Contract(i)
    BY <1>1, <2>1
  <2>3. Data!Contract(i)' = Data!Contract(i)
    BY <1>1, ContractStays
  <2>4. QED
    BY <2>2, <2>3 DEF Shows
<1>4. QED
  BY <1>1, <1>2, <1>3, CatalogueKept DEF DataInv

LEMMA LeaveKeeps ==
  ASSUME DataInv, Data!Leave
  PROVE  DataInv'
<1>1. /\ ~watched' /\ view' = [id \in Ids |-> None]
      /\ UNCHANGED <<venue, marketsLoaded, instruments, quoteStore>>
  BY DEF Data!Leave, Data!adapterVars
<1>2. \A i \in instruments' : Shows(i)'
  BY <1>1 DEF Shows, Held
<1>3. QED
  BY <1>1, <1>2, CatalogueKept DEF DataInv, Held

LEMMA StepData ==
  ASSUME DataInv, Data!Next
  PROVE  DataInv'
<1>1. ASSUME NEW id \in Ids, Data!SubscribeTicker(id) PROVE DataInv'
  <2>1. UNCHANGED <<venue, marketsLoaded, instruments, quoteStore, watched, view, unsaid>>
    BY <1>1 DEF Data!SubscribeTicker, Data!viewVars
  <2>2. QED
    BY <2>1, QuotesKept DEF DataInv
<1>2. QED
  BY <1>1, FetchSnapshotKeeps, BinanceEarlyKeeps, LoadMarketsKeeps, ToldKeeps, PriceIndexKeeps,
     RefetchKeeps, ListKeeps, NextDayKeeps, RemoveKeeps, WatchKeeps, LeaveKeeps
     DEF Data!Next

(***************************************************************************)
(* The parts together.                                                     *)
(***************************************************************************)
ServicesInv == HealthInv /\ DvolInv /\ DataInv

LEMMA HealthRests ==
  ASSUME HealthInv, UNCHANGED vars
  PROVE  HealthInv'
  BY DEF HealthInv, Heard, vars

LEMMA DvolRests ==
  ASSUME DvolInv, UNCHANGED dvolVars
  PROVE  DvolInv'
  BY DEF DvolInv, Stated, dvolVars

LEMMA DataRests ==
  ASSUME DataInv, UNCHANGED <<venue, dataVars>>
  PROVE  DataInv'
<1>1. UNCHANGED <<venue, marketsLoaded, instruments, quoteStore, watched, view, unsaid>>
  BY DEF dataVars
<1>2. QED
  BY <1>1, QuotesKept DEF DataInv

LEMMA VenueStays ==
  /\ Next => UNCHANGED venue
  /\ Data!Next => UNCHANGED venue
<1>1. Next => UNCHANGED venue
  BY DEF Next, TransportTells, Change, Notice, Probe, Tick, Subscribe, Release, OnDelta
<1>2. Data!Next => UNCHANGED venue
  BY DEF Data!Next, Data!FetchSnapshot, Data!LoadMarkets, Data!BinanceEarly, Data!Receive,
         Data!Poll, Data!Refetch, Data!SubscribeTicker, Data!List, Data!PriceIndex,
         Data!NextDay, Data!Remove, Data!Watch, Data!Leave
<1>3. QED
  BY <1>1, <1>2

\* The inductive invariant of the services around the chains: what viewers have of
\* health, volatility and quotes goes together with what it was made from.
THEOREM ServicesInvariance == ServicesSpec => []ServicesInv
<1>1. ServicesInit => ServicesInv
  BY InitHealth, InitDvol, InitData DEF ServicesInit, ServicesInv
<1>2. ServicesInv /\ [ServicesNext]_allVars => ServicesInv'
  <2> SUFFICES ASSUME ServicesInv, [ServicesNext]_allVars
               PROVE  ServicesInv'
    OBVIOUS
  <2> USE DEF ServicesInv
  <2>1. CASE Health(Next)
    <3>1. Next /\ UNCHANGED <<venue, dataVars, dvolVars>>
      BY <2>1, VenueStays DEF Health
    <3>2. QED
      BY <3>1, StepHealth, DvolRests, DataRests
  <2>2. CASE OfData(Data!Next)
    <3>1. Data!Next /\ UNCHANGED <<vars, dvolVars>>
      BY <2>2, VenueStays DEF OfData, healthVars, vars
    <3>2. QED
      BY <3>1, StepData, HealthRests, DvolRests
  <2>3. CASE OfDvol(Dvol!DvolNext)
    <3>1. Dvol!DvolNext /\ UNCHANGED <<vars, venue, dataVars>>
      BY <2>3 DEF OfDvol, vars
    <3>2. QED
      BY <3>1, StepDvol, HealthRests, DataRests
  <2>4. CASE OfSpot(Spot!SpotNext) \/ OfServer(Server!ServerNext) \/ UNCHANGED allVars
    <3>1. UNCHANGED <<vars, venue, dataVars, dvolVars>>
      BY <2>4 DEF OfSpot, OfServer, allVars, vars
    <3>2. QED
      BY <3>1, HealthRests, DvolRests, DataRests
  <2>5. QED
    BY <2>1, <2>2, <2>3, <2>4 DEF ServicesNext
<1>3. QED
  BY <1>1, <1>2, PTL DEF ServicesSpec

\* A viewer who was told of an outage goes on being told of it: no probe, message or
\* quote hides it, of any venue, whatever its endpoints say (effectiveStatus of
\* runtime/chain/health.ts).
THEOREM OutagesAreShown == ServicesSpec => []OutageIsShown
<1>1. ServicesInv => OutageIsShown
  BY DEF ServicesInv, HealthInv, Heard, OutageIsShown
<1>2. QED
  BY <1>1, ServicesInvariance, PTL

\* Range, rank and change of the volatility index are of the history that is served
\* beside them, for every year of candles, push and refresh (services/dvol.ts).
THEOREM RangesAreOfHistory == ServicesSpec => []RangeIsHistory
<1>1. ServicesInv => RangeIsHistory
  BY DvolInvRange DEF ServicesInv
<1>2. QED
  BY <1>1, ServicesInvariance, PTL

\* A viewer's copy of a contract is what a chain fetched now says of it, but for the
\* last price and for what was removed or fetched again and not told since, for every
\* listing and every message of the five venues, whatever they remove and list again
\* (SdkBaseAdapter.emitQuoteUpdates against buildContract).
THEOREM ViewsAreCurrent == ServicesSpec => []ViewIsStore
<1>1. ServicesInv => ViewIsStore
  BY DataInvView DEF ServicesInv
<1>2. QED
  BY <1>1, ServicesInvariance, PTL
===============================================================================
