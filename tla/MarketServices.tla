---------------------------- MODULE MarketServices ----------------------------
(***************************************************************************)
(* What the server keeps around its chains, each on its own: a behaviour is *)
(* of one of its parts, the instruments and quotes of a venue adapter, the  *)
(* health a venue is shown with, the prices of the underlyings, the         *)
(* volatility index, or the server's own start and end.                    *)
(***************************************************************************)
EXTENDS VenueHealth, Sequences

CONSTANTS
  Parts, Symbols, Prices, Polls, Currencies, Years, Levels, Adapters,
  Absent, DefaultFee, DefaultContractSize, Ids, Listing, NewListing, Messages, LastDay

VARIABLES
  part,
  stage, marketsLoaded, instruments, quoteStore, liveIndex, tickers, today,
  watched, view, unsaid,
  market, refused, started, timer, polls, first, snapshots, health,
  year, phase, awaited, candleHistory, hvHistory, dvolSnapshots, connected, refreshing,
  loading, registered, ready, shuttingDown, exited, services, serviceHealth

Data   == INSTANCE MarketData
Spot   == INSTANCE SpotRuntime
Dvol   == INSTANCE DvolService
Server == INSTANCE ServerBootstrap

ASSUME VenuesAssumption == Venues \subseteq {"binance", "okx", "bybit", "deribit", "derive"}

\* A listing is of the symbol it is told of.
ASSUME ListingAssumption ==
  \A v \in Venues, id \in Ids : Listing[v][id].id = id /\ NewListing[v][id].id = id

ASSUME YearsAssumption == None \notin Years

dataVars   == <<stage, marketsLoaded, instruments, quoteStore, liveIndex, tickers, today,
                watched, view, unsaid>>
healthVars == <<report, link, listening, sources, shown, masked>>
spotVars   == <<market, refused, started, timer, polls, first, snapshots, health>>
dvolVars   == <<year, phase, awaited, candleHistory, hvHistory, dvolSnapshots,
                connected, refreshing>>
serverVars == <<loading, registered, ready, shuttingDown, exited, services,
                serviceHealth>>
allVars == <<part, vars, dataVars, spotVars, dvolVars, serverVars>>

AnyOf(S) == CHOOSE x \in S : TRUE

ServicesInit ==
  /\ part \in Parts
  /\ Init /\ Data!Init /\ Spot!SpotInit /\ Dvol!DvolInit /\ Server!ServerInit
  /\ part \notin {"health", "data"} => venue = AnyOf(Venues)
  /\ part # "health" => report = AnyOf(Reports[venue])
  /\ part # "spot"   => market = AnyOf({[s \in Spot!SymbolSet |-> p] : p \in Prices})
  /\ part # "dvol"   => year = AnyOf({[c \in Currencies |-> y] : y \in Years})

Health(A)  == part = "health" /\ A
                /\ UNCHANGED <<part, dataVars, spotVars, dvolVars, serverVars>>
OfData(A)  == part = "data" /\ A
                /\ UNCHANGED <<part, healthVars, spotVars, dvolVars, serverVars>>
OfSpot(A)  == part = "spot" /\ A
                /\ UNCHANGED <<part, vars, dataVars, dvolVars, serverVars>>
OfDvol(A)  == part = "dvol" /\ A
                /\ UNCHANGED <<part, vars, dataVars, spotVars, serverVars>>
OfServer(A) == part = "server" /\ A
                 /\ UNCHANGED <<part, vars, dataVars, spotVars, dvolVars>>

ServicesNext ==
  \/ Health(Next) \/ OfData(Data!Next) \/ OfSpot(Spot!SpotNext) \/ OfDvol(Dvol!DvolNext)
  \/ OfServer(Server!ServerNext)

\* Interval timers fire, and every HTTP request settles, by its client's timeout if
\* nothing else.  Of the server only its own steps are fair: a socket that never
\* opens keeps a load or a start waiting.
ServicesSpec ==
  /\ ServicesInit /\ [][ServicesNext]_allVars
  /\ WF_allVars(Health(Probe))
  /\ WF_allVars(OfSpot(Spot!SpotStart)) /\ WF_allVars(OfSpot(Spot!TimerFires))
  /\ \A p \in Polls :
       WF_allVars(OfSpot(Spot!Answers(p) \/ Spot!Arrives(p) \/ Spot!Fails(p)))
  /\ WF_allVars(OfServer(Server!BootstrapServices))
  /\ WF_allVars(OfServer(Server!ServicesBootstrapped))

RangeIsHistory == Dvol!RangeIsHistory
ViewIsStore == Data!ViewIsStore

\* What Spot!PricesSettle and Server!ServesInTheEnd say, of their part.
PricesSettle ==
  \A s \in Spot!SymbolSet, price \in Prices :
    <>[](part = "spot" /\ s \notin refused /\ market[s] = price)
      => <>[](snapshots[s] = price)

ServesInTheEnd ==
  <>(part = "server" /\ loading = {}) /\ []<>(~ Server!Starting) => <>Server!Served
===============================================================================
