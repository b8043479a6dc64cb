------------------------------ MODULE VenueFeeds ------------------------------
(***************************************************************************)
(* The five venue clients, each on its own: a behaviour is one venue's.    *)
(* The question is the same for all: does somebody who holds a chain get   *)
(* what the exchange has to say about it, and does a reconnect keep that?  *)
(***************************************************************************)
EXTENDS RpcFeed

CONSTANTS
  Venues, MaxAwaited, MaxBadAnswers,
  MaxAnsweredFaults   \* bound: MaxFaults where the exchange answers each request

VARIABLES venue, pending, answers, refreshing, badAnswers

Binance == INSTANCE BinanceFeed
Okx     == INSTANCE OkxFeed
Bybit   == INSTANCE BybitFeed
Deribit == INSTANCE DeribitFeed
Derive  == INSTANCE DeriveFeed

callVars  == <<channels, jobs, calling, added>>
topicVars == <<pending, answers, refreshing, badAnswers>>
feedVars  == <<venue, vars, topicVars>>

NoCalls ==
  /\ channels = {}
  /\ jobs = [t \in Tasks |-> <<>>]
  /\ calling = [t \in Tasks |-> "no"]
  /\ added = [t \in Tasks |-> {}]

NoTopics ==
  /\ pending = {}
  /\ answers = [s \in Sockets |-> <<>>]
  /\ refreshing = FALSE

FeedInit ==
  /\ venue \in Venues
  /\ badAnswers = 0
  /\ \/ venue = "binance" /\ Binance!Init /\ NoCalls
     \/ venue = "okx"     /\ Okx!Init     /\ NoCalls /\ NoTopics /\ astray = {}
     \/ venue = "bybit"   /\ Bybit!Init   /\ NoCalls /\ NoTopics /\ astray = {}
     \/ venue = "deribit" /\ Deribit!Init /\ NoTopics
     \/ venue = "derive"  /\ Derive!Init  /\ NoTopics

FewFaults == venue \in {"binance", "deribit", "derive"} => faults' <= MaxAnsweredFaults

FeedNext ==
  /\ UNCHANGED venue
  /\ \/ venue = "binance" /\ Binance!Next /\ UNCHANGED <<callVars, badAnswers>>
     \/ venue = "okx"     /\ Okx!Next     /\ UNCHANGED <<rpcVars, topicVars>>
     \/ venue = "bybit"   /\ Bybit!Next   /\ UNCHANGED <<rpcVars, pending, answers, refreshing>>
     \/ venue = "deribit" /\ Deribit!Next /\ UNCHANGED topicVars
     \/ venue = "derive"  /\ Derive!Next  /\ UNCHANGED topicVars
  /\ FewFaults

\* The event loop sees to it that a reconnect timer fires.
TimerFires ==
  /\ UNCHANGED venue
  /\ \/ venue = "binance" /\ Binance!Reconnect /\ UNCHANGED <<callVars, badAnswers>>
     \/ venue = "okx"     /\ Okx!Reconnect     /\ UNCHANGED <<rpcVars, topicVars>>
     \/ venue = "bybit"   /\ Bybit!Reconnect   /\ UNCHANGED <<rpcVars, pending, answers, refreshing>>

FeedSpec ==
  /\ FeedInit /\ [][FeedNext]_feedVars
  /\ WF_feedVars(TimerFires)

-------------------------------------------------------------------------------

\* No RPC client's job is under way, and none will be taken up again.
Still == (\A t \in Tasks : Idle(t)) /\ ~ timer /\ strays = 0

\* What the client asks for when it connects again.
Replayed ==
  CASE venue = "binance" -> planned \cup pending
    [] venue \in {"okx", "bybit"} -> planned
    [] OTHER -> channels

\* What the holder of chain c needs, as sets of which one element will do.
Needs(c) ==
  LET insts == Wanted(c)
  IN  CASE venue = "binance" -> {{Binance!mark(baseOf[c])}} \cup {{Binance!oi(chainOf[i])} : i \in insts}
        [] venue = "okx"     -> {{topic} : topic \in Okx!ChainArgs(c, insts)}
        [] venue = "bybit"   -> {{topic} : topic \in Bybit!topics(insts)}
        [] venue = "deribit" -> {{Deribit!index(baseOf[c])}} \cup {Deribit!Tickers({i}) : i \in insts}
        [] venue = "derive"  -> {{topic} : topic \in Derive!topics(insts)}

\* Binance alone: a sweep has untracked the mark prices of an underlying whose
\* other chains live on.
MarkSwept(c) ==
  /\ venue = "binance"
  /\ \E d \in ended : baseOf[d] = baseOf[c] /\ Of(d, listed) = {}

\* Whoever holds a chain has everything it needs among what a reconnect would
\* ask for, through listings, expiries, sweeps, other users' releases, closed
\* connections and late answers.  Left out: topics the exchange refused or that
\* an answer overtook, what a failed job left undone, the mark prices Binance's
\* sweep has untracked, and Bybit once it has refused a page of its instruments.
HeldIsReplayed ==
  badAnswers = 0 /\ (\A t \in Tasks : Idle(t)) =>
    \A c \in Chains : requests[c] = "held" =>
      \A need \in Needs(c) :
        \/ need \cap (Replayed \cup astray) # {}
        \/ MarkSwept(c) /\ need = {Binance!mark(baseOf[c])}

\* While the current socket is open the exchange streams on it all that would
\* be asked for after a reconnect: nothing was sent to a closed socket, or to
\* an older one, and taken for done.
ReplayedIsStreamed ==
  Connected /\ (venue \in {"deribit", "derive"} => Still) => Replayed \subseteq asked[ws] \cup astray

\* An attempt to connect is under way.  Nothing but the exchange or the
\* operating system ends it: ws is given no handshake timeout.
Dialling == \E s \in Sockets : sock[s] = "connecting"

\* Once connections stop failing and closing, a topic client is connected for
\* good, as long as no attempt goes on for ever.
ConnectedAgain ==
  venue \in {"binance", "okx", "bybit"} /\ []<>(~ Dialling) => <>[]Connected
===============================================================================
