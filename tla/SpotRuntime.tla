----------------------------- MODULE SpotRuntime -----------------------------
(***************************************************************************)
(* The prices of the underlyings (runtime/spot/spot-runtime.ts): start      *)
(* waits for a first poll, then an interval timer starts one after another, *)
(* whether or not the one before has ended.  A poll asks for one symbol     *)
(* after the other; a fetch has no timeout of its own but settles.          *)
(***************************************************************************)
EXTENDS Integers, Sequences

CONSTANTS
  None,
  Symbols,   \* the symbols, in the order they are asked for
  Prices,
  Polls      \* polls that may be under way at a time: a bound

VARIABLES
  market,    \* [symbol -> its price]
  refused,   \* symbols the exchange does not answer for
  started, timer,
  polls,     \* [poll -> None, or [at, answer]: the symbol asked for]
  first,     \* the poll that start waits for, None when none does
  snapshots, \* [symbol -> the price kept, None before the first]
  health     \* [connected, errors]: errors only whether there were any

spotVars == <<market, refused, started, timer, polls, first, snapshots, health>>

SymbolSet == {Symbols[i] : i \in DOMAIN Symbols}

Asking(i) == [at |-> i, answer |-> None, saw |-> FALSE]

SpotInit ==
  /\ market \in {[s \in SymbolSet |-> price] : price \in Prices}
  /\ refused = {}
  /\ started = FALSE /\ timer = FALSE
  /\ polls = [p \in Polls |-> None] /\ first = None
  /\ snapshots = [s \in SymbolSet |-> None]
  /\ health = [connected |-> FALSE, errors |-> FALSE]

SpotStart ==
  /\ ~started /\ first = None
  /\ \E p \in Polls : /\ polls[p] = None
                      /\ polls' = [polls EXCEPT ![p] = Asking(1)]
                      /\ first' = p
  /\ UNCHANGED <<market, refused, started, timer, snapshots, health>>

TimerFires ==
  /\ timer
  /\ \E p \in Polls : /\ polls[p] = None
                      /\ polls' = [polls EXCEPT ![p] = Asking(1)]
  /\ UNCHANGED <<market, refused, started, timer, first, snapshots, health>>

\* The exchange makes its answer, which then travels.
Answers(p) ==
  /\ polls[p] # None /\ polls[p].answer = None
  /\ Symbols[polls[p].at] \notin refused
  /\ polls' = [polls EXCEPT ![p].answer = market[Symbols[polls[p].at]]]
  /\ UNCHANGED <<market, refused, started, timer, first, snapshots, health>>

\* The poll goes on to its next symbol, or ends; the first one lets start go on.
GoOn(p, saw) ==
  IF polls[p].at < Len(Symbols)
    THEN /\ polls' = [polls EXCEPT ![p] = [Asking(@.at + 1) EXCEPT !.saw = saw]]
         /\ UNCHANGED <<started, timer, first>>
    ELSE /\ polls' = [polls EXCEPT ![p] = None]
         /\ first' = IF first = p THEN None ELSE first
         /\ started' = (started \/ first = p)
         /\ timer' = (timer \/ (first = p /\ ~started))

\* A defect: a symbol that fails ends the poll.
GiveUp(p) ==
  /\ polls' = [polls EXCEPT ![p] = None]
  /\ first' = IF first = p THEN None ELSE first
  /\ started' = (started \/ first = p) /\ timer' = (timer \/ first = p)
  /\ health' = [health EXCEPT !.errors = TRUE]

\* A fetch that throws is counted, one that is answered with an error is not.
GoOnAfterError(p) ==
  /\ GoOn(p, polls[p].saw)
  /\ \E threw \in BOOLEAN :
       health' = [health EXCEPT !.errors = @ \/ threw,
                                !.connected = @ \/ (polls[p].saw /\ polls'[p] = None)]

Arrives(p) ==
  /\ polls[p] # None /\ polls[p].answer # None
  /\ snapshots' = [snapshots EXCEPT ![Symbols[polls[p].at]] = polls[p].answer]
  /\ GoOn(p, TRUE)
  /\ health' = [health EXCEPT !.connected = @ \/ polls'[p] = None]
  /\ UNCHANGED <<market, refused>>

Fails(p) ==
  /\ polls[p] # None /\ polls[p].answer = None
  /\ Symbols[polls[p].at] \in refused
  /\ GoOnAfterError(p)
  /\ UNCHANGED <<market, refused, snapshots>>

MarketMoves(s) ==
  /\ \/ /\ \E price \in Prices \ {market[s]} : market' = [market EXCEPT ![s] = price]
        /\ UNCHANGED refused
     \/ /\ refused' = IF s \in refused THEN refused \ {s} ELSE refused \cup {s}
        /\ UNCHANGED market
  /\ UNCHANGED <<started, timer, polls, first, snapshots, health>>

SpotNext ==
  \/ SpotStart \/ TimerFires
  \/ \E s \in SymbolSet : MarketMoves(s)
  \/ \E p \in Polls : Answers(p) \/ Arrives(p) \/ Fails(p)

\* The server starts it, the interval timer fires, and every fetch settles.
SpotFairness ==
  /\ WF_spotVars(SpotStart) /\ WF_spotVars(TimerFires)
  /\ \A p \in Polls : WF_spotVars(Answers(p) \/ Arrives(p) \/ Fails(p))

\* The price that is kept of a symbol is the exchange's in the end, once that
\* settles: another symbol that is refused takes nothing from it, nor does a poll
\* that overlaps with the next, though its late answers may put an older price
\* back for a while.
PricesSettle ==
  \A s \in SymbolSet, price \in Prices :
    <>[](s \notin refused /\ market[s] = price) => <>[](snapshots[s] = price)
===============================================================================
