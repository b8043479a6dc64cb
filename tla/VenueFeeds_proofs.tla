--------------------------- MODULE VenueFeeds_proofs ---------------------------
(***************************************************************************)
(* What the five venue clients keep true for whoever holds a chain.        *)
(***************************************************************************)
EXTENDS VenueFeeds, FiniteSetTheorems, WellFoundedInduction, TLAPS

(***************************************************************************)
(* The inductive invariant.                                                *)
(***************************************************************************)

\* The instruments a request of chain c stands for, as long as the chain lives.
Due(c) == {i \in matching[c] \cup Of(c, listed) : c \notin ended}

\* Under way, or come to a good end.
Asked(c) == requests[c] \in {"subscribing", "held"}

\* An instrument that is known trades, or has expired.
AdapterInv ==
  /\ requests \in [Chains -> {"idle", "subscribing", "held", "releasing", "stuck"}]
  /\ matching \in [Chains -> SUBSET Instruments]
  /\ trading \subseteq Instruments
  /\ listed \subseteq Instruments
  /\ \A c \in Chains : \A i \in matching[c] : chainOf[i] = c
  /\ \A i \in trading : chainOf[i] \notin ended
  /\ \A i \in listed : i \in trading \/ chainOf[i] \in ended
  /\ \A c \in Chains : \A i \in matching[c] : i \in trading \/ chainOf[i] \in ended

SocketInv ==
  /\ sock \in [Sockets -> {"none", "connecting", "open"}]
  /\ ws \in Sockets
  /\ DOMAIN asked = Sockets

PlannedIsStreamed == Connected => planned \subseteq asked[ws]

\* OKX: the plan is made when the socket is there.
OkxPlans(i) == <<"tickers", i>> \in planned /\ <<"mark-price", i>> \in planned

OkxInv ==
  /\ PlannedIsStreamed
  /\ \A c \in Chains : requests[c] = "held" => Okx!family(baseOf[c]) \in planned
  /\ \A c \in Chains : \A i \in Due(c) :
       requests[c] = "held" \/ (requests[c] = "subscribing" /\ i \notin matching[c]) => OkxPlans(i)

\* Bybit: the topics are marked before the socket is there.
BybitInv ==
  /\ badAnswers \in Nat
  /\ PlannedIsStreamed
  /\ badAnswers = 0 =>
       \A c \in Chains : Asked(c) => \A i \in Due(c) : <<"tickers", i>> \in planned

\* Binance: only the current socket has answers on their way, and what they will
\* confirm is streamed.
Streams == {Binance!mark(baseOf[c]) : c \in Chains} \cup {Binance!oi(c) : c \in Chains} \cup {Binance!symbols}

Tracked == planned \cup pending

Answer == [streams : SUBSET Streams, accepted : BOOLEAN]

AnswersInv ==
  /\ answers \in [Sockets -> Seq(Answer)]
  /\ \A s \in Sockets : answers[s] # <<>> => s = ws /\ Open(s)
  /\ \A s \in Sockets : \A n \in DOMAIN answers[s] :
       answers[s][n].accepted => answers[s][n].streams \subseteq asked[s] \cup astray

TrackedInv ==
  /\ planned \subseteq Streams /\ pending \subseteq Streams
  /\ Connected => Tracked \subseteq asked[ws] \cup astray

HolderInv ==
  /\ \A c \in Chains : requests[c] \in {"idle", "held"}
  /\ \A c \in Chains : requests[c] = "held" =>
       /\ Binance!mark(baseOf[c]) \in Tracked \cup astray \/ MarkSwept(c)
       /\ Due(c) # {} => Binance!oi(c) \in Tracked \cup astray

BinanceInv == AnswersInv /\ TrackedInv /\ HolderInv

-------------------------------------------------------------------------------
(***************************************************************************)
(* The clients of JsonRpcWsClient.                                         *)
(***************************************************************************)

Ops == {"subscribe", "unsubscribe", "replay", "tickers", "instruments", "activate", "details"}

Things ==
  Instruments
    \cup {Deribit!index(baseOf[c]) : c \in Chains}
    \cup {Deribit!ticker(i, ivl) : i \in Instruments, ivl \in {"agg2", "100ms"}}
    \cup {Deribit!lifecycle}
    \cup Derive!topics(Instruments)

Pending(t) == calling[t] # "no"

\* The step of a job is ahead: it is not the one that has been sent.
Ahead(t, n) == n \in DOMAIN jobs[t] /\ (n = 1 => ~ Pending(t))

JobStep == [op : Ops, about : SUBSET Things]

JobTypes ==
  /\ planned \subseteq Things /\ channels \subseteq Things
  /\ jobs \in [Tasks -> Seq(JobStep)]
  /\ calling \in [Tasks -> {"no", "answered", "refused", "late", "closed"}]
  /\ added \in [Tasks -> SUBSET Things]

\* A subscription that is under way has added channels that it was asked for.
AddedInv ==
  \A t \in Tasks : added[t] # {} =>
    ~ Idle(t) /\ First(t).op = "subscribe" /\ Pending(t) /\ added[t] \subseteq First(t).about

\* The resubscription of a socket ends with it.
ReplayInv ==
  \A s \in Sockets :
    /\ ~ Idle(replay(s)) /\ calling[replay(s)] # "closed" => Open(s)
    /\ \A n \in DOMAIN jobs[replay(s)] : jobs[replay(s)][n].op = "replay"

StepInv ==
  \A t \in {user, market} : \A n \in DOMAIN jobs[t] :
    /\ jobs[t][n].op # "replay"
    /\ jobs[t][n].op \in {"instruments", "details"} => Len(jobs[t]) = 1

JobInv ==
  /\ JobTypes /\ AddedInv /\ ReplayInv /\ StepInv
  /\ \A t \in Tasks : Idle(t) => ~ Pending(t)
  /\ ~ Idle(user) => ~ Free

\* Job t has a step ahead that subscribes to x.
SubscribesBy(t, x) ==
  \E n \in DOMAIN jobs[t] : Ahead(t, n) /\ jobs[t][n].op = "subscribe" /\ x \in jobs[t][n].about

ToSubscribe(x) == \E t \in Tasks : SubscribesBy(t, x)

\* What the planner believes in is a channel of the transport, will be one, or
\* went astray.
PlannedIsKept == \A x \in planned : x \in channels \/ x \in astray \/ ToSubscribe(x)

\* Job t asks for x again, by a step that is not answered yet.
ReplaysBy(t, x) ==
  \E n \in DOMAIN jobs[t] :
    /\ n = 1 => calling[t] \notin {"answered", "late"}
    /\ jobs[t][n].op = "replay" /\ x \in jobs[t][n].about

\* Job t takes x out of the channels when its call is settled.
LeavesBy(t, x) ==
  \/ ~ Idle(t) /\ Pending(t) /\ First(t).op = "unsubscribe" /\ x \in First(t).about
  \/ x \in added[t] /\ calling[t] = "refused"

\* The exchange has been asked for x, or job t sees to it.
SeenTo(t, x) == x \in asked[ws] \/ ReplaysBy(t, x) \/ LeavesBy(t, x)

\* Connected, and no timer will change that.
Steady == Connected /\ ~ timer /\ strays = 0

ChannelIsStreamed == Steady => \A x \in channels : \E t \in Tasks : SeenTo(t, x)

RpcInv == JobInv /\ PlannedIsKept /\ ChannelIsStreamed

\* The details of an instrument are asked for when it trades.
Details(t) ==
  \A n \in DOMAIN jobs[t] : jobs[t][n].op = "details" =>
    \E i \in Instruments : jobs[t][n].about = {i} /\ (i \in trading \/ chainOf[i] \in ended)

DeribitMarks(c) ==
  /\ Deribit!index(baseOf[c]) \in planned
  /\ \A i \in Due(c) : Deribit!ticker(i, "agg2") \in planned \/ Deribit!ticker(i, "100ms") \in planned

DeribitInv ==
  /\ RpcInv
  /\ \A t \in {user, market} : Details(t)
  /\ \A c \in Chains : Asked(c) => DeribitMarks(c)

slim(i) == <<"ticker_slim", i>>

\* Job t will look whether instrument i is to be subscribed to.
Looks(t, i) ==
  \E n \in DOMAIN jobs[t] :
    \/ jobs[t][n].op = "tickers" /\ i \in jobs[t][n].about
    \/ jobs[t][n].op = "activate" /\ slim(i) \in jobs[t][n].about

\* A refresh goes on with the chains it has found; before that, one step at a time.
DeriveSteps(t) ==
  \A n \in DOMAIN jobs[t] :
    /\ n > 1 => jobs[t][n].op = "activate"
    /\ jobs[t][n].op = "tickers" => jobs[t][n].about \subseteq Instruments
    /\ jobs[t][n].op = "activate" =>
         \E insts \in SUBSET Instruments : jobs[t][n].about = Derive!topics(insts)

DeriveInv ==
  /\ RpcInv
  /\ \A t \in {user, market} : DeriveSteps(t)
  /\ \A c \in Chains : Asked(c) =>
       \A i \in Due(c) :
         /\ slim(i) \in planned \cup astray \/ \E t \in {user, market} : Looks(t, i)
         /\ ToSubscribe(slim(i)) => slim(i) \in planned

Inv ==
  /\ venue \in {"binance", "okx", "bybit", "deribit", "derive"}
  /\ AdapterInv /\ SocketInv
  /\ venue \in {"okx", "bybit", "binance"} => (\A t \in Tasks : Idle(t))
  /\ venue = "okx" => OkxInv
  /\ venue = "bybit" => BybitInv
  /\ venue = "binance" => BinanceInv
  /\ venue = "deribit" => DeribitInv
  /\ venue = "derive" => DeriveInv

-------------------------------------------------------------------------------
(***************************************************************************)
(* What all clients share.                                                 *)
(***************************************************************************)

\* A set of sockets that is not empty has a smallest one.
LEMMA SmallestSocket ==
  ASSUME FeedAssumption, NEW S \in SUBSET Sockets, S # {}
  PROVE  \E n \in S : \A m \in S : n <= m
<1>1. S \subseteq Nat
  BY DEF FeedAssumption
<1>2. IsWellFoundedOn(OpToRel(<, Nat), Nat)
  BY NatLessThanWellFounded
<1>3. PICK n \in S : \A m \in S : ~ (<<m, n>> \in OpToRel(<, Nat))
  BY <1>1, <1>2, WFMin
<1>4. \A m \in S : ~ (m < n)
  BY <1>1, <1>3 DEF OpToRel
<1>5. \A m \in S : n <= m
  BY <1>1, <1>4
<1>. QED  BY <1>5

\* Dial takes a free socket for the current one.
Dialled ==
  /\ ws' \in Sockets
  /\ sock[ws'] = "none"
  /\ sock' = [sock EXCEPT ![ws'] = "connecting"]

\* What connect dials is a socket that did not exist.
LEMMA DialTakesFree ==
  ASSUME FeedAssumption, NEW who, Dial(who)
  PROVE  Dialled
<1>. DEFINE S == {n \in Sockets : sock[n] = "none"}
<1>1. S # {}
  BY DEF Dial, CanDial
<1>2. \E n \in S : \A m \in S : n <= m
  BY <1>1, SmallestSocket
<1>3. \E n \in Sockets : sock[n] = "none" /\ \A m \in Sockets : sock[m] = "none" => n <= m
  BY <1>2
<1>. QED  BY <1>3 DEF Dial, Dialled

\* A new instrument at the exchange is nobody's yet.
LEMMA ListsKeeps ==
  ASSUME FeedAssumption, AdapterInv, NEW i \in Instruments, Lists(i)
  PROVE  AdapterInv' /\ \A c \in Chains : Due(c)' = Due(c)
BY DEF AdapterInv, Lists, Due, Of

\* When a chain expires, its holders have fewer instruments to get.
LEMMA ExpiresKeeps ==
  ASSUME FeedAssumption, AdapterInv, NEW c \in Chains, Expires(c)
  PROVE  AdapterInv' /\ \A d \in Chains : Due(d)' \subseteq Due(d)
BY DEF AdapterInv, Expires, Due, Of

\* sweepExpiredInstruments takes away only what no chain that lives is due.
LEMMA SweptKeeps ==
  ASSUME FeedAssumption, AdapterInv, Swept, Unlisted
  PROVE  /\ AdapterInv'
         /\ \A c \in Chains : Due(c)' = Due(c)
         /\ \A c \in Chains : \A i \in Due(c) : i \notin Expired
BY DEF AdapterInv, Swept, Unlisted, Expired, Due, Of

\* Instruments that are registered are due to the holders of their chains.
LEMMA ListingKeeps ==
  ASSUME FeedAssumption, AdapterInv, NEW new \in SUBSET Instruments,
         \A i \in new : i \in trading \/ chainOf[i] \in ended,
         listed' = listed \cup new, Unlisted
  PROVE  AdapterInv' /\ \A c \in Chains : Due(c)' \subseteq Due(c) \cup new
BY DEF AdapterInv, Unlisted, Due, Of

\* A subscription that begins, or is held at once.
LEMMA RequestKeeps ==
  ASSUME FeedAssumption, AdapterInv, NEW c \in Chains, NEW state,
         state \in {"subscribing", "held"},
         SetRequest(c, state),
         matching' = [matching EXCEPT ![c] = Of(c, listed)],
         UNCHANGED <<trading, ended, listed>>
  PROVE  /\ AdapterInv'
         /\ \A d \in Chains \ {c} : Due(d)' = Due(d) /\ requests'[d] = requests[d] /\ matching'[d] = matching[d]
         /\ requests'[c] = state /\ matching'[c] = Of(c, listed) /\ Due(c)' \subseteq Of(c, listed)
BY DEF AdapterInv, SetRequest, Due, Of

\* A release that has come to its end.
LEMMA ReturnKeeps ==
  ASSUME FeedAssumption, AdapterInv, NEW c \in Chains,
         SetRequest(c, "idle"),
         matching' = [matching EXCEPT ![c] = {}],
         UNCHANGED <<trading, ended, listed>>
  PROVE  /\ AdapterInv'
         /\ \A d \in Chains \ {c} : Due(d)' = Due(d) /\ requests'[d] = requests[d] /\ matching'[d] = matching[d]
         /\ requests'[c] = "idle" /\ matching'[c] = {}
BY DEF AdapterInv, SetRequest, Due, Of

\* A step of the sockets, or of the requests' states alone.
LEMMA SameKeeps ==
  ASSUME FeedAssumption, AdapterInv, UNCHANGED <<matching, trading, ended, listed>>,
         requests' \in [Chains -> {"idle", "subscribing", "held", "releasing", "stuck"}]
  PROVE  AdapterInv' /\ \A c \in Chains : Due(c)' = Due(c)
BY DEF AdapterInv, Due, Of

-------------------------------------------------------------------------------
(***************************************************************************)
(* OKX.                                                                    *)
(***************************************************************************)

\* OKX's client dials as VenueFeed has it.
LEMMA OkxDial ==
  ASSUME NEW who, Okx!Dial(who)
  PROVE  Dial(who)
BY DEF Okx!Dial, Dial, Okx!CanDial, CanDial

\* Market of OKX's client keeps its invariant.
LEMMA OkxMarket ==
  ASSUME FeedAssumption, AdapterInv, SocketInv, OkxInv, Okx!Market
  PROVE  (AdapterInv /\ SocketInv /\ OkxInv)'
<1>1. AdapterInv' /\ (\A c \in Chains : Due(c)' \subseteq Due(c)) /\ UNCHANGED <<requests, matching>>
  <2>1. CASE \E i \in Instruments : Lists(i)
    BY <2>1, ListsKeeps DEF Lists
  <2>2. CASE \E c \in Chains : Expires(c)
    BY <2>2, ExpiresKeeps DEF Expires
  <2>. QED
    BY <2>1, <2>2 DEF Okx!Market, Okx!Lists, Lists, Okx!Expires, Expires, Okx!Fault, Fault, Okx!Of, Of
<1>2. UNCHANGED <<socketVars, asked, planned>>
  BY DEF Okx!Market, Okx!socketVars, socketVars
<1>. QED
  BY <1>1, <1>2 DEF SocketInv, OkxInv, PlannedIsStreamed, Connected, Open, OkxPlans, socketVars

\* Sweep of OKX's client keeps its invariant.
LEMMA OkxSweep ==
  ASSUME FeedAssumption, AdapterInv, SocketInv, OkxInv, Okx!Sweep
  PROVE  (AdapterInv /\ SocketInv /\ OkxInv)'
<1>1. Swept /\ Unlisted
  BY DEF Okx!Sweep, Okx!Swept, Swept, Okx!Expired, Expired, Okx!Unlisted, Unlisted
<1>2. /\ AdapterInv'
      /\ \A c \in Chains : Due(c)' = Due(c)
      /\ \A c \in Chains : \A i \in Due(c) : i \notin Expired
  BY <1>1, SweptKeeps
<1>3. planned' = planned \ Okx!PerInstrument(Expired)
  BY DEF Okx!Sweep, Okx!Expired, Expired
<1>4. UNCHANGED <<socketVars, asked, requests, matching>>
  BY <1>1 DEF Okx!Sweep, Okx!socketVars, socketVars, Unlisted
<1>5. \A i : i \notin Expired /\ OkxPlans(i) => OkxPlans(i)'
  BY <1>3 DEF OkxPlans, Okx!PerInstrument
<1>6. \A b : Okx!family(b) \in planned => Okx!family(b) \in planned'
  BY <1>3 DEF Okx!family, Okx!PerInstrument
<1>. QED
  BY <1>2, <1>3, <1>4, <1>5, <1>6 DEF SocketInv, OkxInv, PlannedIsStreamed, Connected, Open, socketVars

\* Reconnect of OKX's client keeps its invariant.
LEMMA OkxReconnect ==
  ASSUME FeedAssumption, AdapterInv, SocketInv, OkxInv, Okx!Reconnect
  PROVE  (AdapterInv /\ SocketInv /\ OkxInv)'
<1>1. UNCHANGED <<adapterVars, asked, planned>>
  BY DEF Okx!Reconnect, Okx!adapterVars, adapterVars
<1>2. UNCHANGED socketVars \/ Dialled
  BY OkxDial, DialTakesFree DEF Okx!Reconnect, Okx!socketVars, socketVars
<1>3. AdapterInv' /\ \A c \in Chains : Due(c)' = Due(c)
  BY <1>1, SameKeeps DEF AdapterInv, adapterVars
<1>4. SocketInv' /\ PlannedIsStreamed'
  BY <1>1, <1>2 DEF SocketInv, OkxInv, PlannedIsStreamed, Connected, Open, Dialled, socketVars
<1>. QED
  BY <1>1, <1>3, <1>4 DEF OkxInv, OkxPlans, adapterVars

\* Subscribe of OKX's client keeps its invariant.
LEMMA OkxSubscribe ==
  ASSUME FeedAssumption, AdapterInv, SocketInv, OkxInv, NEW c \in Chains, Okx!Subscribe(c)
  PROVE  (AdapterInv /\ SocketInv /\ OkxInv)'
<1>. DEFINE insts == Of(c, listed)
            args == Okx!ChainArgs(c, insts)
<1>1. /\ matching' = [matching EXCEPT ![c] = insts]
      /\ UNCHANGED <<trading, ended, listed>>
  BY DEF Okx!Subscribe, Okx!Of, Of
<1>2. CASE Connected
  <2>1. /\ UNCHANGED socketVars
        /\ SetRequest(c, "held")
        /\ planned' = planned \cup args
        /\ asked' = [asked EXCEPT ![ws] = @ \cup (args \ planned)]
    BY <1>2 DEF Okx!Subscribe, Okx!Of, Of, Okx!Connected, Connected, Okx!Open, Open, Okx!socketVars, socketVars,
                Okx!SetRequest, SetRequest, Okx!Asking, Okx!Sending
  <2>2. /\ AdapterInv'
        /\ \A d \in Chains \ {c} : Due(d)' = Due(d) /\ requests'[d] = requests[d] /\ matching'[d] = matching[d]
        /\ requests'[c] = "held" /\ Due(c)' \subseteq insts
    BY <1>1, <2>1, RequestKeeps
  <2>3. SocketInv' /\ PlannedIsStreamed'
    BY <2>1 DEF SocketInv, OkxInv, PlannedIsStreamed, Connected, Open, socketVars
  <2>4. \A i \in insts : OkxPlans(i)'
    BY <2>1 DEF OkxPlans, Okx!ChainArgs, Okx!PerInstrument
  <2>5. \A i : OkxPlans(i) => OkxPlans(i)'
    BY <2>1 DEF OkxPlans
  <2>6. Okx!family(baseOf[c]) \in planned'
    BY <2>1 DEF Okx!ChainArgs
  <2>7. \A d \in Chains : requests'[d] = "held" => Okx!family(baseOf[d]) \in planned'
    BY <2>1, <2>2, <2>6 DEF OkxInv
  <2>8. \A d \in Chains : \A i \in Due(d)' :
          requests'[d] = "held" \/ (requests'[d] = "subscribing" /\ i \notin matching'[d]) => OkxPlans(i)'
    <3>. HIDE DEF insts
    <3>. QED  BY <2>2, <2>4, <2>5 DEF OkxInv
  <2>. QED  BY <2>2, <2>3, <2>7, <2>8 DEF OkxInv
<1>3. CASE ~ Connected
  <2>1. /\ Dialled
        /\ SetRequest(c, "subscribing")
        /\ UNCHANGED <<planned, asked>>
    BY <1>3, OkxDial, DialTakesFree
       DEF Okx!Subscribe, Okx!Connected, Connected, Okx!Open, Open, Okx!SetRequest, SetRequest
  <2>2. /\ AdapterInv'
        /\ \A d \in Chains \ {c} : Due(d)' = Due(d) /\ requests'[d] = requests[d] /\ matching'[d] = matching[d]
        /\ requests'[c] = "subscribing" /\ matching'[c] = insts /\ Due(c)' \subseteq insts
    BY <1>1, <2>1, RequestKeeps
  <2>3. SocketInv' /\ PlannedIsStreamed'
    BY <2>1 DEF SocketInv, OkxInv, PlannedIsStreamed, Connected, Open, Dialled
  <2>4. \A d \in Chains : \A i \in Due(d)' :
          requests'[d] = "held" \/ (requests'[d] = "subscribing" /\ i \notin matching'[d]) => OkxPlans(i)'
    <3>. HIDE DEF insts
    <3>. QED  BY <2>1, <2>2 DEF OkxInv, OkxPlans
  <2>. QED  BY <2>1, <2>2, <2>3, <2>4 DEF OkxInv
<1>. QED  BY <1>2, <1>3

\* Release of OKX's client keeps its invariant.
LEMMA OkxRelease ==
  ASSUME FeedAssumption, AdapterInv, SocketInv, OkxInv, NEW c \in Chains, Okx!Release(c)
  PROVE  (AdapterInv /\ SocketInv /\ OkxInv)'
<1>. DEFINE args == Okx!PerInstrument(matching[c]) \cup IF LastOf(c) THEN {Okx!family(baseOf[c])} ELSE {}
<1>1. /\ SetRequest(c, "idle")
      /\ matching' = [matching EXCEPT ![c] = {}]
      /\ UNCHANGED <<trading, ended, listed, socketVars>>
  BY DEF Okx!Release, Okx!SetRequest, SetRequest, Okx!socketVars, socketVars
<1>2. /\ AdapterInv'
      /\ \A d \in Chains \ {c} : Due(d)' = Due(d) /\ requests'[d] = requests[d] /\ matching'[d] = matching[d]
      /\ requests'[c] = "idle" /\ matching'[c] = {}
  BY <1>1, ReturnKeeps
<1>3. \/ UNCHANGED <<planned, asked>>
      \/ Connected /\ planned' = planned \ args /\ asked' = [asked EXCEPT ![ws] = @ \ (args \cap planned)]
  BY <1>1 DEF Okx!Release, Okx!Connected, Connected, Okx!Open, Open, Okx!Dropping, Okx!Sending, Okx!LastOf, LastOf,
         Okx!Counted, Counted, Okx!socketVars, socketVars
<1>4. SocketInv' /\ PlannedIsStreamed'
  BY <1>1, <1>3 DEF SocketInv, OkxInv, PlannedIsStreamed, Connected, Open, socketVars
<1>5. ASSUME NEW d \in Chains \ {c}, requests[d] = "held", Okx!family(baseOf[d]) \in planned
      PROVE  Okx!family(baseOf[d]) \in planned'
  <2>1. baseOf[d] = baseOf[c] => ~ LastOf(c)
    BY <1>5 DEF LastOf, Counted
  <2>. QED  BY <1>3, <1>5, <2>1 DEF Okx!PerInstrument, Okx!family
<1>6. ASSUME NEW d \in Chains \ {c}, NEW i \in Due(d), OkxPlans(i)
      PROVE  OkxPlans(i)'
  <2>1. i \notin matching[c]
    BY <1>6 DEF AdapterInv, Due, Of
  <2>. QED  BY <1>3, <1>6, <2>1 DEF OkxPlans, Okx!PerInstrument, Okx!family
<1>7. \A d \in Chains : requests'[d] = "held" => Okx!family(baseOf[d]) \in planned'
  BY <1>2, <1>5 DEF OkxInv
<1>8. \A d \in Chains : \A i \in Due(d)' :
        requests'[d] = "held" \/ (requests'[d] = "subscribing" /\ i \notin matching'[d]) => OkxPlans(i)'
  BY <1>2, <1>6 DEF OkxInv
<1>. QED  BY <1>2, <1>4, <1>7, <1>8 DEF OkxInv

\* NewInstrument of OKX's client keeps its invariant.
LEMMA OkxNewInstrument ==
  ASSUME FeedAssumption, AdapterInv, SocketInv, OkxInv, NEW i \in Instruments, Okx!NewInstrument(i)
  PROVE  (AdapterInv /\ SocketInv /\ OkxInv)'
<1>. DEFINE args == Okx!PerInstrument({i})
<1>1. /\ i \in trading
      /\ listed' = listed \cup {i}
      /\ Unlisted
      /\ UNCHANGED socketVars
      /\ planned' = planned \cup args
      /\ asked' = IF Connected THEN [asked EXCEPT ![ws] = @ \cup (args \ planned)] ELSE asked
  BY DEF Okx!NewInstrument, Okx!socketVars, socketVars, Unlisted, Okx!Asking, Okx!Sending, Connected, Open
<1>2. AdapterInv' /\ \A c \in Chains : Due(c)' \subseteq Due(c) \cup {i}
  BY <1>1, ListingKeeps
<1>3. SocketInv' /\ PlannedIsStreamed'
  BY <1>1 DEF SocketInv, OkxInv, PlannedIsStreamed, Connected, Open, socketVars
<1>4. OkxPlans(i)' /\ \A j : OkxPlans(j) => OkxPlans(j)'
  BY <1>1 DEF OkxPlans, Okx!PerInstrument
<1>5. \A c \in Chains : requests'[c] = "held" => Okx!family(baseOf[c]) \in planned'
  BY <1>1 DEF OkxInv, Unlisted
<1>6. \A c \in Chains : \A j \in Due(c)' :
        requests'[c] = "held" \/ (requests'[c] = "subscribing" /\ j \notin matching'[c]) => OkxPlans(j)'
  BY <1>1, <1>2, <1>4 DEF OkxInv, Unlisted
<1>. QED  BY <1>2, <1>3, <1>5, <1>6 DEF OkxInv

\* Opened of OKX's client keeps its invariant.
LEMMA OkxOpened ==
  ASSUME FeedAssumption, AdapterInv, SocketInv, OkxInv, NEW s \in Sockets, Okx!Opened(s)
  PROVE  (AdapterInv /\ SocketInv /\ OkxInv)'
<1>. DEFINE waiting == {c \in Chains : opener[s] = "call" /\ requests[c] = "subscribing"}
            args == UNION {Okx!ChainArgs(c, matching[c]) : c \in waiting}
<1>1. /\ planned' = planned \cup args
      /\ requests' = [c \in Chains |-> IF c \in waiting THEN "held" ELSE requests[c]]
      /\ UNCHANGED <<matching, trading, ended, listed, ws>>
      /\ sock[s] = "connecting" /\ sock' = [sock EXCEPT ![s] = "open"]
      /\ asked' = IF Connected' THEN [asked EXCEPT ![ws] = @ \cup (planned \cup {Okx!news} \cup args)] ELSE asked
  BY DEF Okx!Opened, Okx!Opens, Okx!Asking, Okx!Sending, Connected, Open
<1>2. AdapterInv' /\ \A c \in Chains : Due(c)' = Due(c)
  BY <1>1, SameKeeps DEF AdapterInv
<1>3. SocketInv' /\ PlannedIsStreamed'
  <2>. HIDE DEF args, waiting
  <2>. QED  BY <1>1 DEF SocketInv, PlannedIsStreamed, Connected, Open
<1>4. \A c \in waiting : Okx!family(baseOf[c]) \in planned' /\ \A i \in matching[c] : OkxPlans(i)'
  BY <1>1 DEF OkxPlans, Okx!ChainArgs, Okx!PerInstrument
<1>5. \A i : OkxPlans(i) => OkxPlans(i)'
  BY <1>1 DEF OkxPlans
<1>6. \A c \in Chains : requests'[c] = "held" => Okx!family(baseOf[c]) \in planned'
  BY <1>1, <1>4 DEF OkxInv
<1>7. \A c \in Chains : \A i \in Due(c)' :
        requests'[c] = "held" \/ (requests'[c] = "subscribing" /\ i \notin matching'[c]) => OkxPlans(i)'
  <2>. HIDE DEF args
  <2>. QED  BY <1>1, <1>2, <1>4, <1>5 DEF OkxInv
<1>. QED  BY <1>2, <1>3, <1>6, <1>7 DEF OkxInv

\* Failed and Closed of OKX's client keep its invariant.
LEMMA OkxFailed ==
  ASSUME FeedAssumption, AdapterInv, SocketInv, OkxInv, NEW s \in Sockets, Okx!Failed(s) \/ Okx!Closed(s)
  PROVE  (AdapterInv /\ SocketInv /\ OkxInv)'
<1>1. /\ UNCHANGED <<matching, trading, ended, listed, planned, ws>>
      /\ sock' = [sock EXCEPT ![s] = "none"]
      /\ asked' = [asked EXCEPT ![s] = {}]
  BY DEF Okx!Failed, Okx!Fails, Okx!Closed, Okx!Drops, Okx!adapterVars
<1>2. /\ requests' \in [Chains -> {"idle", "subscribing", "held", "releasing", "stuck"}]
      /\ \A c \in Chains : requests'[c] \in {requests[c], "stuck"}
  BY DEF AdapterInv, Okx!Failed, Okx!Closed, Okx!adapterVars
<1>3. AdapterInv' /\ \A c \in Chains : Due(c)' = Due(c)
  BY <1>1, <1>2, SameKeeps
<1>4. SocketInv' /\ PlannedIsStreamed'
  BY <1>1 DEF SocketInv, OkxInv, PlannedIsStreamed, Connected, Open
<1>. QED
  BY <1>1, <1>2, <1>3, <1>4 DEF OkxInv, OkxPlans

\* Every step of OKX's client keeps its invariant.
LEMMA OkxStep ==
  ASSUME FeedAssumption, AdapterInv, SocketInv, OkxInv, Okx!Next
  PROVE  (AdapterInv /\ SocketInv /\ OkxInv)'
BY OkxMarket, OkxSweep, OkxReconnect, OkxSubscribe, OkxRelease, OkxNewInstrument, OkxOpened, OkxFailed
   DEF Okx!Next

\* OKX begins in a state of its invariant.
LEMMA OkxFirst ==
  ASSUME FeedAssumption, Okx!Init
  PROVE  AdapterInv /\ SocketInv /\ OkxInv
<1>1. AdapterInv /\ SocketInv
  BY DEF FeedAssumption, Okx!Init, Okx!AdapterInit, Okx!SocketInit, AdapterInv, SocketInv
<1>2. PlannedIsStreamed
  BY DEF FeedAssumption, Okx!Init, Okx!SocketInit, PlannedIsStreamed
<1>. QED
  BY <1>1, <1>2 DEF OkxInv, Okx!Init, Okx!AdapterInit

-------------------------------------------------------------------------------
(***************************************************************************)
(* Bybit.                                                                  *)
(***************************************************************************)

\* Bybit's client dials as VenueFeed has it.
LEMMA BybitDial ==
  ASSUME NEW who, Bybit!Dial(who)
  PROVE  Dial(who)
BY DEF Bybit!Dial, Dial, Bybit!CanDial, CanDial

\* The count of an instance is the count.
LEMMA BybitCardinality ==
  ASSUME NEW S
  PROVE  Bybit!Cardinality(S) = Cardinality(S)
BY DEF Bybit!Cardinality, Cardinality

\* Market of Bybit's client keeps its invariant.
LEMMA BybitMarket ==
  ASSUME FeedAssumption, AdapterInv, SocketInv, BybitInv, Bybit!Market
  PROVE  (AdapterInv /\ SocketInv /\ BybitInv)'
<1>1. AdapterInv' /\ (\A c \in Chains : Due(c)' \subseteq Due(c)) /\ UNCHANGED <<requests, matching>>
  <2>1. CASE \E i \in Instruments : Lists(i)
    BY <2>1, ListsKeeps DEF Lists
  <2>2. CASE \E c \in Chains : Expires(c)
    BY <2>2, ExpiresKeeps DEF Expires
  <2>. QED
    BY <2>1, <2>2 DEF Bybit!Market, Bybit!Lists, Lists, Bybit!Expires, Expires, Bybit!Fault, Fault, Bybit!Of, Of
<1>2. UNCHANGED <<socketVars, asked, planned, badAnswers>>
  BY DEF Bybit!Market, Bybit!socketVars, socketVars
<1>. QED
  BY <1>1, <1>2 DEF SocketInv, BybitInv, PlannedIsStreamed, Connected, Open, Asked, socketVars

\* Reconnect of Bybit's client keeps its invariant.
LEMMA BybitReconnect ==
  ASSUME FeedAssumption, AdapterInv, SocketInv, BybitInv, Bybit!Reconnect
  PROVE  (AdapterInv /\ SocketInv /\ BybitInv)'
<1>1. UNCHANGED <<adapterVars, asked, planned, badAnswers>>
  BY DEF Bybit!Reconnect, Bybit!adapterVars, adapterVars
<1>2. UNCHANGED socketVars \/ Dialled
  BY BybitDial, DialTakesFree DEF Bybit!Reconnect, Bybit!socketVars, socketVars
<1>3. AdapterInv' /\ \A c \in Chains : Due(c)' = Due(c)
  BY <1>1, SameKeeps DEF AdapterInv, adapterVars
<1>4. SocketInv' /\ PlannedIsStreamed'
  BY <1>1, <1>2 DEF SocketInv, BybitInv, PlannedIsStreamed, Connected, Open, Dialled, socketVars
<1>. QED
  BY <1>1, <1>3, <1>4 DEF BybitInv, Asked, adapterVars

\* Subscribe of Bybit's client keeps its invariant.
LEMMA BybitSubscribe ==
  ASSUME FeedAssumption, AdapterInv, SocketInv, BybitInv, NEW c \in Chains, Bybit!Subscribe(c)
  PROVE  (AdapterInv /\ SocketInv /\ BybitInv)'
<1>. DEFINE insts == Of(c, listed)
            new == Bybit!topics(insts) \ planned
<1>1. /\ matching' = [matching EXCEPT ![c] = insts]
      /\ planned' = planned \cup new
      /\ UNCHANGED <<trading, ended, listed, badAnswers>>
  BY DEF Bybit!Subscribe, Bybit!Of, Of
<1>2. \/ /\ new = {} \/ Connected
         /\ UNCHANGED socketVars
         /\ SetRequest(c, "held")
         /\ asked' = IF Connected THEN [asked EXCEPT ![ws] = @ \cup new] ELSE asked
      \/ /\ ~ Connected
         /\ Dialled
         /\ SetRequest(c, "subscribing")
         /\ UNCHANGED asked
  BY BybitDial, DialTakesFree DEF Bybit!Subscribe, Bybit!Of, Of, Bybit!Connected, Connected, Bybit!Open, Open,
     Bybit!socketVars, socketVars, Bybit!SetRequest, SetRequest, Bybit!Asking, Bybit!Sending
<1>3. /\ AdapterInv'
      /\ \A d \in Chains \ {c} : Due(d)' = Due(d) /\ requests'[d] = requests[d]
      /\ Due(c)' \subseteq insts
  <2>1. PICK state \in {"held", "subscribing"} : SetRequest(c, state)
    BY <1>2
  <2>. QED  BY <1>1, <2>1, RequestKeeps
<1>4. SocketInv' /\ PlannedIsStreamed'
  <2>. HIDE DEF new
  <2>. QED  BY <1>1, <1>2 DEF SocketInv, BybitInv, PlannedIsStreamed, Connected, Open, Dialled, socketVars
<1>5. \A i \in insts : <<"tickers", i>> \in planned'
  BY <1>1 DEF Bybit!topics
<1>6. badAnswers' = 0 => \A d \in Chains : Asked(d)' => \A i \in Due(d)' : <<"tickers", i>> \in planned'
  <2>. HIDE DEF insts
  <2>. QED  BY <1>1, <1>3, <1>5 DEF BybitInv, Asked
<1>. QED  BY <1>1, <1>3, <1>4, <1>6 DEF BybitInv

\* Release of Bybit's client keeps its invariant.
LEMMA BybitRelease ==
  ASSUME FeedAssumption, AdapterInv, SocketInv, BybitInv, NEW c \in Chains, Bybit!Release(c)
  PROVE  (AdapterInv /\ SocketInv /\ BybitInv)'
<1>. DEFINE args == Bybit!topics(matching[c])
<1>1. /\ SetRequest(c, "idle")
      /\ matching' = [matching EXCEPT ![c] = {}]
      /\ UNCHANGED <<trading, ended, listed, socketVars, badAnswers>>
  BY DEF Bybit!Release, Bybit!SetRequest, SetRequest, Bybit!socketVars, socketVars
<1>2. /\ AdapterInv'
      /\ \A d \in Chains \ {c} : Due(d)' = Due(d) /\ requests'[d] = requests[d]
      /\ requests'[c] = "idle"
  BY <1>1, ReturnKeeps
<1>3. \/ UNCHANGED <<planned, asked>>
      \/ Connected /\ planned' = planned \ args /\ asked' = [asked EXCEPT ![ws] = @ \ (args \cap planned)]
  BY <1>1 DEF Bybit!Release, Bybit!Connected, Connected, Bybit!Open, Open, Bybit!Dropping, Bybit!Sending,
         Bybit!socketVars, socketVars
<1>4. SocketInv' /\ PlannedIsStreamed'
  BY <1>1, <1>3 DEF SocketInv, BybitInv, PlannedIsStreamed, Connected, Open, socketVars
<1>5. ASSUME NEW d \in Chains \ {c}, NEW i \in Due(d), <<"tickers", i>> \in planned
      PROVE  <<"tickers", i>> \in planned'
  <2>1. i \notin matching[c]
    BY <1>5 DEF AdapterInv, Due, Of
  <2>. QED  BY <1>3, <1>5, <2>1 DEF Bybit!topics
<1>6. badAnswers' = 0 => \A d \in Chains : Asked(d)' => \A i \in Due(d)' : <<"tickers", i>> \in planned'
  BY <1>1, <1>2, <1>5 DEF BybitInv, Asked
<1>. QED  BY <1>1, <1>2, <1>4, <1>6 DEF BybitInv

\* Opened of Bybit's client keeps its invariant.
LEMMA BybitOpened ==
  ASSUME FeedAssumption, AdapterInv, SocketInv, BybitInv, NEW s \in Sockets, Bybit!Opened(s)
  PROVE  (AdapterInv /\ SocketInv /\ BybitInv)'
<1>1. /\ UNCHANGED <<planned, matching, trading, ended, listed, ws, badAnswers>>
      /\ sock[s] = "connecting" /\ sock' = [sock EXCEPT ![s] = "open"]
      /\ \E more : asked' = IF Connected' THEN [asked EXCEPT ![ws] = @ \cup (planned \cup more)] ELSE asked
  BY DEF Bybit!Opened, Bybit!Opens, Bybit!Asking, Bybit!Sending, Connected, Open
<1>2. /\ requests' \in [Chains -> {"idle", "subscribing", "held", "releasing", "stuck"}]
      /\ \A c \in Chains : Asked(c)' => Asked(c)
  BY DEF AdapterInv, Bybit!Opened, Asked
<1>3. AdapterInv' /\ \A c \in Chains : Due(c)' = Due(c)
  BY <1>1, <1>2, SameKeeps
<1>4. SocketInv' /\ PlannedIsStreamed'
  BY <1>1 DEF SocketInv, PlannedIsStreamed, Connected, Open
<1>. QED
  BY <1>1, <1>2, <1>3, <1>4 DEF BybitInv

\* Failed and Closed of Bybit's client keep its invariant.
LEMMA BybitFailed ==
  ASSUME FeedAssumption, AdapterInv, SocketInv, BybitInv, NEW s \in Sockets, Bybit!Failed(s) \/ Bybit!Closed(s)
  PROVE  (AdapterInv /\ SocketInv /\ BybitInv)'
<1>1. /\ UNCHANGED <<matching, trading, ended, listed, planned, ws, badAnswers>>
      /\ sock' = [sock EXCEPT ![s] = "none"]
      /\ asked' = [asked EXCEPT ![s] = {}]
  BY DEF Bybit!Failed, Bybit!Fails, Bybit!Closed, Bybit!Drops, Bybit!adapterVars
<1>2. /\ requests' \in [Chains -> {"idle", "subscribing", "held", "releasing", "stuck"}]
      /\ \A c \in Chains : Asked(c)' => Asked(c)
  BY DEF AdapterInv, Bybit!Failed, Bybit!Closed, Bybit!adapterVars, Asked
<1>3. AdapterInv' /\ \A c \in Chains : Due(c)' = Due(c)
  BY <1>1, <1>2, SameKeeps
<1>4. SocketInv' /\ PlannedIsStreamed'
  BY <1>1 DEF SocketInv, BybitInv, PlannedIsStreamed, Connected, Open
<1>. QED
  BY <1>1, <1>2, <1>3, <1>4 DEF BybitInv

\* A refresh takes away what has expired, unless Bybit has refused a page.
LEMMA BybitRefresh ==
  ASSUME FeedAssumption, AdapterInv, SocketInv, BybitInv, Bybit!Refresh
  PROVE  (AdapterInv /\ SocketInv /\ BybitInv)'
<1>. DEFINE Bases == {baseOf[c] : c \in Chains}
<1>1. PICK answer \in [Bases -> {"listed", "failed", "error"}] :
        LET bad == {b \in DOMAIN answer : answer[b] = "error"}
            active == UNION {Bybit!Active(answer[b], b) : b \in DOMAIN answer}
            gone == listed \ active
            new == active \ listed
        IN  /\ badAnswers + Bybit!Cardinality(bad) <= MaxBadAnswers
            /\ badAnswers' = badAnswers + Bybit!Cardinality(bad)
            /\ gone \cup new # {}
            /\ listed' = (listed \ gone) \cup new
            /\ planned' = (planned \ Bybit!topics(gone)) \cup Bybit!topics(new)
            /\ asked' = IF Bybit!Connected
                        THEN [asked EXCEPT ![ws] = (@ \ (Bybit!topics(gone) \cap planned)) \cup Bybit!topics(new)]
                        ELSE asked
            /\ UNCHANGED <<requests, matching, trading, ended, Bybit!timerVars, Bybit!socketVars, faults>>
  BY DEF Bybit!Refresh
<1>. DEFINE bad == {b \in DOMAIN answer : answer[b] = "error"}
            active == UNION {Bybit!Active(answer[b], b) : b \in DOMAIN answer}
            gone == listed \ active
            new == active \ listed
<1>2. /\ badAnswers' = badAnswers + Cardinality(bad)
      /\ listed' = (listed \ gone) \cup new
      /\ planned' = (planned \ Bybit!topics(gone)) \cup Bybit!topics(new)
      /\ asked' = IF Connected
                  THEN [asked EXCEPT ![ws] = (@ \ (Bybit!topics(gone) \cap planned)) \cup Bybit!topics(new)]
                  ELSE asked
      /\ UNCHANGED <<requests, matching, trading, ended, socketVars>>
  BY <1>1, BybitCardinality DEF Bybit!Connected, Connected, Bybit!Open, Open, Bybit!socketVars, socketVars
<1>3. active \subseteq trading \cup listed
  BY DEF Bybit!Active
<1>4. AdapterInv'
  <2>. HIDE DEF active
  <2>. QED  BY <1>2, <1>3 DEF AdapterInv
<1>5. SocketInv' /\ PlannedIsStreamed'
  <2>. HIDE DEF active, bad
  <2>. QED  BY <1>2 DEF SocketInv, BybitInv, PlannedIsStreamed, Connected, Open, socketVars
<1>6. badAnswers' \in Nat /\ (badAnswers' = 0 => badAnswers = 0 /\ bad = {})
  <2>1. IsFiniteSet(Bases)
    <3>. DEFINE f == [c \in Chains |-> baseOf[c]]
    <3>1. IsFiniteSet(Chains) /\ f \in Surjection(Chains, Bases)
      BY DEF FeedAssumption, Surjection
    <3>. HIDE DEF f, Bases
    <3>. QED  BY <3>1, FS_Surjection
  <2>2. IsFiniteSet(bad)
    BY <2>1, FS_Subset
  <2>3. Cardinality(bad) \in Nat /\ (Cardinality(bad) = 0 => bad = {})
    BY <2>2, FS_CardinalityType, FS_EmptySet
  <2>. QED
    BY <1>2, <2>3 DEF BybitInv
<1>7. ASSUME bad = {}
      PROVE  \A i \in gone : chainOf[i] \in ended
  <2>1. SUFFICES ASSUME NEW i \in listed, i \in trading
                 PROVE  i \in active
    BY DEF AdapterInv
  <2>. DEFINE b == baseOf[chainOf[i]]
  <2>2. b \in Bases
    BY DEF FeedAssumption, AdapterInv
  <2>3. answer[b] \in {"listed", "failed"}
    BY <1>7, <2>2
  <2>4. i \in Bybit!Active(answer[b], b)
    BY <2>1, <2>3 DEF Bybit!Active, AdapterInv
  <2>. QED  BY <2>2, <2>4
<1>8. ASSUME badAnswers' = 0, NEW c \in Chains, Asked(c)', NEW i \in Due(c)'
      PROVE  <<"tickers", i>> \in planned'
  <2>. HIDE DEF active, bad
  <2>1. i \in new \/ i \in Due(c)
    BY <1>2, <1>8 DEF Due, Of
  <2>2. CASE i \in new
    BY <1>2, <2>2 DEF Bybit!topics
  <2>3. CASE i \in Due(c)
    <3>1. chainOf[i] = c /\ c \notin ended
      BY <2>3 DEF Due, Of, AdapterInv
    <3>2. i \notin gone
      BY <1>6, <1>7, <1>8, <3>1
    <3>3. <<"tickers", i>> \in planned
      BY <1>2, <1>6, <1>8, <2>3 DEF BybitInv, Asked
    <3>. QED  BY <1>2, <3>2, <3>3 DEF Bybit!topics
  <2>. QED  BY <2>1, <2>2, <2>3
<1>9. badAnswers' = 0 => \A c \in Chains : Asked(c)' => \A i \in Due(c)' : <<"tickers", i>> \in planned'
  BY <1>8
<1>. QED  BY <1>4, <1>5, <1>6, <1>9 DEF BybitInv

\* Every step of Bybit's client keeps its invariant.
LEMMA BybitStep ==
  ASSUME FeedAssumption, AdapterInv, SocketInv, BybitInv, Bybit!Next
  PROVE  (AdapterInv /\ SocketInv /\ BybitInv)'
BY BybitMarket, BybitRefresh, BybitReconnect, BybitSubscribe, BybitRelease, BybitOpened, BybitFailed
   DEF Bybit!Next

\* Bybit begins in a state of its invariant.
LEMMA BybitFirst ==
  ASSUME FeedAssumption, Bybit!Init
  PROVE  AdapterInv /\ SocketInv /\ BybitInv
<1>1. AdapterInv /\ SocketInv
  BY DEF FeedAssumption, Bybit!Init, Bybit!AdapterInit, Bybit!SocketInit, AdapterInv, SocketInv
<1>2. PlannedIsStreamed
  BY DEF FeedAssumption, Bybit!Init, Bybit!SocketInit, PlannedIsStreamed
<1>. QED
  BY <1>1, <1>2 DEF BybitInv, Bybit!Init, Bybit!AdapterInit, Asked

-------------------------------------------------------------------------------
(***************************************************************************)
(* Binance.                                                                *)
(***************************************************************************)

\* Binance's client dials as VenueFeed has it.
LEMMA BinanceDial ==
  ASSUME NEW who, Binance!Dial(who)
  PROVE  Dial(who)
BY DEF Binance!Dial, Dial, Binance!CanDial, CanDial

\* Different things have different streams.
LEMMA StreamsDiffer ==
  /\ \A c \in Chains : Binance!mark(baseOf[c]) \in Streams /\ Binance!oi(c) \in Streams
  /\ Binance!symbols \in Streams
  /\ \A c, d : Binance!oi(c) = Binance!oi(d) => c = d
  /\ \A b, d : Binance!mark(b) # Binance!oi(d) /\ Binance!mark(b) # Binance!symbols
  /\ \A b, d : Binance!mark(b) = Binance!mark(d) => b = d
  /\ \A c : Binance!oi(c) # Binance!symbols
BY DEF Streams, Binance!mark, Binance!oi, Binance!symbols

\* MarkSwept once it holds of a held chain, whatever is listed anew.
LEMMA SweptStays ==
  ASSUME FeedAssumption, AdapterInv, NEW c \in Chains, MarkSwept(c),
         ended \subseteq ended', UNCHANGED venue,
         \A d \in ended : Of(d, listed') \subseteq Of(d, listed)
  PROVE  MarkSwept(c)'
<1>1. PICK d \in ended : baseOf[d] = baseOf[c] /\ Of(d, listed) = {}
  BY DEF MarkSwept
<1>2. d \in ended' /\ Of(d, listed)' = {}
  BY <1>1 DEF Of
<1>. QED  BY <1>1, <1>2 DEF MarkSwept

\* A SUBSCRIBE request on a socket that stays the current one.
LEMMA BinanceSends ==
  ASSUME SocketInv, AnswersInv, NEW streams \in SUBSET Streams, Binance!SendSubscribe(streams),
         UNCHANGED ws, \A s \in Sockets : Open(s) => Open(s)'
  PROVE  /\ AnswersInv'
         /\ DOMAIN asked' = Sockets
         /\ Connected' => asked[ws] \cup astray \cup streams \subseteq asked'[ws] \cup astray'
         /\ astray \subseteq astray' \cup streams
<1>1. CASE streams = {} \/ ~ Connected'
  <2>1. UNCHANGED <<asked, answers, astray>>
    BY <1>1 DEF Binance!SendSubscribe, Binance!Sending, Connected, Open
  <2>. QED  BY <1>1, <2>1 DEF AnswersInv, SocketInv, Open
<1>2. CASE streams # {} /\ Connected'
  <2>1. PICK accepted \in BOOLEAN :
          /\ answers' = [answers EXCEPT ![ws] = Append(@, [streams |-> streams, accepted |-> accepted])]
          /\ asked' = IF accepted THEN [asked EXCEPT ![ws] = @ \cup streams] ELSE asked
          /\ astray' = IF accepted THEN astray \ streams ELSE astray \cup streams
    BY <1>2 DEF Binance!SendSubscribe, Binance!Sending, Connected, Open, Binance!Asking
  <2>. DEFINE answer == [streams |-> streams, accepted |-> accepted]
  <2>2. answer \in Answer
    BY DEF Answer
  <2>3. answers' \in [Sockets -> Seq(Answer)]
    BY <2>1, <2>2 DEF AnswersInv, SocketInv
  <2>4. \A s \in Sockets : answers'[s] # <<>> => s = ws' /\ Open(s)'
    BY <1>2, <2>1 DEF AnswersInv, SocketInv, Connected
  <2>5. \A s \in Sockets : asked[s] \cup astray \subseteq asked'[s] \cup astray' \/ s # ws
    BY <2>1 DEF SocketInv
  <2>6. ASSUME NEW s \in Sockets, NEW n \in DOMAIN answers'[s], answers'[s][n].accepted
        PROVE  answers'[s][n].streams \subseteq asked'[s] \cup astray'
    <3>1. s = ws
      BY <2>3, <2>4, <2>6
    <3>2. answers'[s] = Append(answers[s], answer) /\ answers[s] \in Seq(Answer)
      BY <2>1, <3>1 DEF AnswersInv, SocketInv
    <3>3. CASE n = Len(answers[s]) + 1
      <4>1. answers'[s][n] = answer
        BY <3>2, <3>3
      <4>. QED  BY <2>1, <2>6, <3>1, <4>1 DEF SocketInv
    <3>4. CASE n # Len(answers[s]) + 1
      <4>1. n \in DOMAIN answers[s] /\ answers'[s][n] = answers[s][n]
        BY <3>2, <3>4
      <4>. QED  BY <2>5, <2>6, <3>1, <4>1 DEF AnswersInv
    <3>. QED  BY <3>3, <3>4
  <2>7. AnswersInv'
    BY <2>3, <2>4, <2>6 DEF AnswersInv
  <2>. QED  BY <2>1, <2>7 DEF SocketInv
<1>. QED  BY <1>1, <1>2

\* Subscribe of Binance's client keeps its invariant.
LEMMA BinanceSubscribe ==
  ASSUME FeedAssumption, AdapterInv, SocketInv, BinanceInv, UNCHANGED venue, NEW c \in Chains, Binance!Subscribe(c)
  PROVE  (AdapterInv /\ SocketInv /\ BinanceInv)'
<1>. USE DEF BinanceInv
<1>. DEFINE insts == Of(c, listed)
            new == Binance!ChainStreams(c, insts) \ Tracked
<1>1. /\ SetRequest(c, "held")
      /\ matching' = [matching EXCEPT ![c] = insts]
      /\ pending' = pending \cup new
      /\ Binance!SendSubscribe(new)
      /\ UNCHANGED <<trading, ended, listed, socketVars, planned>>
  BY DEF Binance!Subscribe, Binance!Of, Of, Binance!SetRequest, SetRequest, Binance!tracked, Tracked,
         Binance!socketVars, socketVars
<1>2. /\ AdapterInv'
      /\ \A d \in Chains \ {c} : Due(d)' = Due(d) /\ requests'[d] = requests[d]
      /\ requests'[c] = "held" /\ Due(c)' \subseteq insts
  BY <1>1, RequestKeeps
<1>3. new \in SUBSET Streams
  BY StreamsDiffer DEF Binance!ChainStreams, Binance!OiStreams, FeedAssumption, AdapterInv, Of
<1>4. UNCHANGED ws /\ \A s \in Sockets : Open(s) => Open(s)'
  BY <1>1 DEF socketVars, Open
<1>5. /\ AnswersInv'
      /\ DOMAIN asked' = Sockets
      /\ Connected' => asked[ws] \cup astray \cup new \subseteq asked'[ws] \cup astray'
      /\ astray \subseteq astray' \cup new
  <2>. HIDE DEF new
  <2>. QED  BY <1>1, <1>3, <1>4, BinanceSends
<1>6. Tracked' = Tracked \cup new /\ Tracked \cup astray \subseteq Tracked' \cup astray'
  BY <1>1, <1>5 DEF Tracked
<1>7. SocketInv' /\ TrackedInv'
  <2>. HIDE DEF new
  <2>. QED  BY <1>1, <1>3, <1>5, <1>6 DEF SocketInv, TrackedInv, Connected, Open, socketVars
<1>8. /\ Binance!mark(baseOf[c]) \in Tracked'
      /\ insts # {} => Binance!oi(c) \in Tracked'
  BY <1>6 DEF Binance!ChainStreams, Binance!OiStreams, Of
<1>9. \A d \in Chains : MarkSwept(d) => MarkSwept(d)'
  BY <1>1 DEF MarkSwept, Of
<1>10. ASSUME NEW d \in Chains, requests'[d] = "held"
       PROVE  /\ Binance!mark(baseOf[d]) \in Tracked' \cup astray' \/ MarkSwept(d)'
              /\ Due(d)' # {} => Binance!oi(d) \in Tracked' \cup astray'
  <2>. HIDE DEF insts, new
  <2>1. CASE d = c
    BY <1>2, <1>8, <2>1
  <2>2. CASE d # c
    <3>1. requests[d] = "held" /\ Due(d)' = Due(d)
      BY <1>2, <1>10, <2>2
    <3>. QED  BY <1>6, <1>9, <3>1 DEF HolderInv
  <2>. QED  BY <2>1, <2>2
<1>11. \A d \in Chains : requests'[d] \in {"idle", "held"}
  BY <1>2 DEF HolderInv
<1>12. HolderInv'
  BY <1>10, <1>11 DEF HolderInv
<1>. QED  BY <1>2, <1>5, <1>7, <1>12

\* NewSymbol of Binance's client keeps its invariant.
LEMMA BinanceNewSymbol ==
  ASSUME FeedAssumption, AdapterInv, SocketInv, BinanceInv, UNCHANGED venue, NEW i \in Instruments, Binance!NewSymbol(i)
  PROVE  (AdapterInv /\ SocketInv /\ BinanceInv)'
<1>. USE DEF BinanceInv
<1>. DEFINE new == {Binance!oi(chainOf[i])} \ Tracked
<1>1. /\ i \in trading
      /\ listed' = listed \cup {i}
      /\ pending' = pending \cup new
      /\ Binance!SendSubscribe(new)
      /\ UNCHANGED <<requests, matching, trading, ended, socketVars, planned>>
  <2>1. Binance!OiStreams({i}) = {Binance!oi(chainOf[i])}
    BY DEF Binance!OiStreams
  <2>. QED
    BY <2>1 DEF Binance!NewSymbol, Binance!tracked, Tracked, Binance!socketVars, socketVars
<1>2. AdapterInv' /\ \A c \in Chains : Due(c)' \subseteq Due(c) \cup {i}
  BY <1>1, ListingKeeps DEF Unlisted
<1>3. new \in SUBSET Streams
  BY StreamsDiffer DEF FeedAssumption
<1>4. UNCHANGED ws /\ \A s \in Sockets : Open(s) => Open(s)'
  BY <1>1 DEF socketVars, Open
<1>5. /\ AnswersInv'
      /\ DOMAIN asked' = Sockets
      /\ Connected' => asked[ws] \cup astray \cup new \subseteq asked'[ws] \cup astray'
      /\ astray \subseteq astray' \cup new
  <2>. HIDE DEF new
  <2>. QED  BY <1>1, <1>3, <1>4, BinanceSends
<1>6. Tracked' = Tracked \cup new /\ Tracked \cup astray \subseteq Tracked' \cup astray'
  BY <1>1, <1>5 DEF Tracked
<1>7. SocketInv' /\ TrackedInv'
  <2>. HIDE DEF new
  <2>. QED  BY <1>1, <1>3, <1>5, <1>6 DEF SocketInv, TrackedInv, Connected, Open, socketVars
<1>8. Binance!oi(chainOf[i]) \in Tracked'
  BY <1>6
<1>9. \A d \in Chains : MarkSwept(d) => MarkSwept(d)'
  <2>1. chainOf[i] \notin ended
    BY <1>1 DEF AdapterInv
  <2>2. \A d \in ended : Of(d, listed') \subseteq Of(d, listed)
    BY <1>1, <2>1 DEF Of
  <2>. QED  BY <1>1, <2>2, SweptStays
<1>10. \A c \in Chains : Due(c)' # {} => Due(c) # {} \/ c = chainOf[i]
  BY <1>1 DEF Due, Of
<1>11. ASSUME NEW d \in Chains, requests'[d] = "held"
       PROVE  /\ Binance!mark(baseOf[d]) \in Tracked' \cup astray' \/ MarkSwept(d)'
              /\ Due(d)' # {} => Binance!oi(d) \in Tracked' \cup astray'
  <2>. HIDE DEF new
  <2>1. requests[d] = "held"
    BY <1>1, <1>11
  <2>. QED  BY <1>6, <1>8, <1>9, <1>10, <2>1 DEF HolderInv
<1>12. \A d \in Chains : requests'[d] \in {"idle", "held"}
  BY <1>1 DEF HolderInv
<1>13. HolderInv'
  BY <1>11, <1>12 DEF HolderInv
<1>. QED  BY <1>2, <1>5, <1>7, <1>13

\* Release of Binance's client keeps its invariant.
LEMMA BinanceRelease ==
  ASSUME FeedAssumption, AdapterInv, SocketInv, BinanceInv, UNCHANGED venue, NEW c \in Chains, Binance!Release(c)
  PROVE  (AdapterInv /\ SocketInv /\ BinanceInv)'
<1>. USE DEF BinanceInv
<1>. DEFINE stopped == (Binance!OiStreams(matching[c])
                          \cup IF LastOf(c) THEN {Binance!mark(baseOf[c])} ELSE {}) \cap Tracked
            awaited == UNION {answers[ws][n].streams : n \in DOMAIN answers[ws]}
<1>1. /\ SetRequest(c, "idle")
      /\ matching' = [matching EXCEPT ![c] = {}]
      /\ UNCHANGED <<trading, ended, listed, socketVars, answers>>
  BY DEF Binance!Release, Binance!SetRequest, SetRequest, Binance!socketVars, socketVars
<1>2. /\ AdapterInv'
      /\ \A d \in Chains \ {c} : Due(d)' = Due(d) /\ requests'[d] = requests[d]
      /\ requests'[c] = "idle"
  BY <1>1, ReturnKeeps
<1>3. Binance!Stopped(c) = stopped
  BY DEF Binance!Stopped, Binance!LastOf, LastOf, Binance!Counted, Counted, Binance!tracked, Tracked
<1>. HIDE DEF stopped
<1>4. \/ UNCHANGED <<planned, pending, asked, astray>>
      \/ /\ Connected
         /\ planned' = planned \ stopped
         /\ pending' = pending \ stopped
         /\ asked' = [asked EXCEPT ![ws] = @ \ (stopped \cap planned)]
         /\ astray' = astray \cup (stopped \cap planned \cap awaited)
  BY <1>1, <1>3 DEF Binance!Release, Binance!Connected, Connected, Binance!Open, Open, Binance!Dropping,
     Binance!Sending, Binance!socketVars, socketVars
<1>5. SocketInv'
  BY <1>1, <1>4 DEF SocketInv, socketVars
<1>6. AnswersInv'
  <2>1. \A s \in Sockets : answers'[s] # <<>> => s = ws' /\ Open(s)'
    BY <1>1 DEF AnswersInv, Open, socketVars
  <2>2. ASSUME NEW s \in Sockets, NEW n \in DOMAIN answers[s], answers[s][n].accepted,
               NEW x \in answers[s][n].streams
        PROVE  x \in asked'[s] \cup astray'
    <3>1. s = ws /\ x \in asked[s] \cup astray
      <4>1. answers[s] \in Seq(Answer) /\ answers[s] # <<>>
        BY <2>2 DEF AnswersInv
      <4>. QED  BY <2>2, <4>1 DEF AnswersInv
    <3>2. x \in awaited
      BY <2>2, <3>1
    <3>. HIDE DEF awaited
    <3>. QED  BY <1>4, <3>1, <3>2 DEF SocketInv
  <2>. QED  BY <1>1, <2>1, <2>2 DEF AnswersInv
<1>7. TrackedInv'
  <2>. HIDE DEF awaited
  <2>. QED  BY <1>1, <1>4 DEF SocketInv, TrackedInv, Tracked, Connected, Open, socketVars
<1>8. ASSUME NEW d \in Chains \ {c}, requests[d] = "held"
      PROVE  Binance!mark(baseOf[d]) \notin stopped /\ Binance!oi(d) \notin stopped
  <2>1. baseOf[d] = baseOf[c] => ~ LastOf(c)
    BY <1>8 DEF LastOf, Counted
  <2>2. Binance!OiStreams(matching[c]) \subseteq {Binance!oi(c)}
    BY DEF Binance!OiStreams, AdapterInv
  <2>. QED  BY <2>1, <2>2, StreamsDiffer DEF stopped
<1>9. \A x : x \notin stopped /\ x \in Tracked \cup astray => x \in Tracked' \cup astray'
  <2>. HIDE DEF awaited
  <2>. QED  BY <1>4 DEF Tracked
<1>10. \A d \in Chains : MarkSwept(d) => MarkSwept(d)'
  BY <1>1 DEF MarkSwept, Of
<1>11. ASSUME NEW d \in Chains, requests'[d] = "held"
       PROVE  /\ Binance!mark(baseOf[d]) \in Tracked' \cup astray' \/ MarkSwept(d)'
              /\ Due(d)' # {} => Binance!oi(d) \in Tracked' \cup astray'
  <2>1. d \in Chains \ {c} /\ requests[d] = "held" /\ Due(d)' = Due(d)
    BY <1>2, <1>11
  <2>. QED  BY <1>8, <1>9, <1>10, <2>1 DEF HolderInv
<1>12. \A d \in Chains : requests'[d] \in {"idle", "held"}
  BY <1>2 DEF HolderInv
<1>13. HolderInv'
  BY <1>11, <1>12 DEF HolderInv
<1>. QED  BY <1>2, <1>5, <1>6, <1>7, <1>13

\* What is tracked or astray stays so, and nothing else changes for a holder.
LEMMA HolderStays ==
  ASSUME HolderInv, UNCHANGED requests,
         \A c \in Chains : Due(c)' # {} => Due(c) # {},
         \A c \in Chains : MarkSwept(c) => MarkSwept(c)',
         Tracked \cup astray \subseteq Tracked' \cup astray'
  PROVE  HolderInv'
<1>1. ASSUME NEW c \in Chains, requests'[c] = "held"
      PROVE  /\ Binance!mark(baseOf[c]) \in Tracked' \cup astray' \/ MarkSwept(c)'
             /\ Due(c)' # {} => Binance!oi(c) \in Tracked' \cup astray'
  BY <1>1 DEF HolderInv
<1>2. \A c \in Chains : requests'[c] \in {"idle", "held"}
  BY DEF HolderInv
<1>. QED  BY <1>1, <1>2 DEF HolderInv

\* Confirmed of Binance's client keeps its invariant.
LEMMA BinanceConfirmed ==
  ASSUME FeedAssumption, AdapterInv, SocketInv, BinanceInv, UNCHANGED venue, NEW s \in Sockets, Binance!Confirmed(s)
  PROVE  (AdapterInv /\ SocketInv /\ BinanceInv)'
<1>. USE DEF BinanceInv
<1>1. /\ answers[s] # <<>> /\ Head(answers[s]).accepted
      /\ answers' = [answers EXCEPT ![s] = Tail(@)]
      /\ planned' = planned \cup Head(answers[s]).streams
      /\ pending' = pending \ Head(answers[s]).streams
      /\ UNCHANGED <<adapterVars, socketVars, asked, astray>>
  BY DEF Binance!Confirmed, Binance!adapterVars, adapterVars, Binance!socketVars, socketVars
<1>2. AdapterInv' /\ \A c \in Chains : Due(c)' = Due(c)
  BY <1>1, SameKeeps DEF AdapterInv, adapterVars
<1>3. SocketInv'
  BY <1>1 DEF SocketInv, socketVars
<1>4. /\ answers[s] \in Seq(Answer) /\ s = ws
      /\ 1 \in DOMAIN answers[s] /\ Head(answers[s]) = answers[s][1] /\ answers[s][1] \in Answer
  BY <1>1 DEF AnswersInv
<1>5. Head(answers[s]).streams \subseteq asked[ws] \cup astray /\ Head(answers[s]).streams \subseteq Streams
  BY <1>1, <1>4 DEF AnswersInv, Answer
<1>6. AnswersInv'
  <2>1. answers' \in [Sockets -> Seq(Answer)] /\ answers'[s] = Tail(answers[s])
    BY <1>1, <1>4 DEF AnswersInv
  <2>2. \A r \in Sockets : answers'[r] # <<>> => r = ws' /\ Open(r)'
    BY <1>1, <1>4 DEF AnswersInv, Open, socketVars
  <2>3. ASSUME NEW r \in Sockets, NEW n \in DOMAIN answers'[r], answers'[r][n].accepted
        PROVE  answers'[r][n].streams \subseteq asked[r] \cup astray
    <3>1. CASE r = s
      <4>1. n + 1 \in DOMAIN answers[s] /\ answers'[r][n] = answers[s][n + 1]
        BY <1>1, <1>4, <2>1, <2>3, <3>1
      <4>. QED  BY <2>3, <3>1, <4>1 DEF AnswersInv
    <3>2. CASE r # s
      BY <1>1, <2>3, <3>2 DEF AnswersInv
    <3>. QED  BY <3>1, <3>2
  <2>. QED  BY <1>1, <2>1, <2>2, <2>3 DEF AnswersInv
<1>7. TrackedInv'
  BY <1>1, <1>5 DEF SocketInv, TrackedInv, Tracked, Connected, Open, socketVars
<1>8. HolderInv'
  <2>1. Tracked \cup astray \subseteq Tracked' \cup astray'
    BY <1>1 DEF Tracked
  <2>2. \A c \in Chains : MarkSwept(c) => MarkSwept(c)'
    BY <1>1 DEF MarkSwept, Of, adapterVars
  <2>. QED  BY <1>1, <1>2, <2>1, <2>2, HolderStays DEF adapterVars
<1>. QED  BY <1>2, <1>3, <1>6, <1>7, <1>8

\* Refused of Binance's client keeps its invariant.
LEMMA BinanceRefused ==
  ASSUME FeedAssumption, AdapterInv, SocketInv, BinanceInv, UNCHANGED venue, NEW s \in Sockets, Binance!Refused(s)
  PROVE  (AdapterInv /\ SocketInv /\ BinanceInv)'
<1>. USE DEF BinanceInv
<1>1. /\ answers[s] # <<>>
      /\ answers' = [answers EXCEPT ![s] = Tail(@)]
      /\ pending' = pending \ Head(answers[s]).streams
      /\ astray' = astray \cup Head(answers[s]).streams
      /\ UNCHANGED <<adapterVars, socketVars, asked, planned>>
  BY DEF Binance!Refused, Binance!adapterVars, adapterVars, Binance!socketVars, socketVars
<1>2. AdapterInv' /\ \A c \in Chains : Due(c)' = Due(c)
  BY <1>1, SameKeeps DEF AdapterInv, adapterVars
<1>3. SocketInv'
  BY <1>1 DEF SocketInv, socketVars
<1>4. answers[s] \in Seq(Answer) /\ s = ws
  BY <1>1 DEF AnswersInv
<1>5. AnswersInv'
  <2>1. answers' \in [Sockets -> Seq(Answer)] /\ answers'[s] = Tail(answers[s])
    BY <1>1, <1>4 DEF AnswersInv
  <2>2. \A r \in Sockets : answers'[r] # <<>> => r = ws' /\ Open(r)'
    BY <1>1, <1>4 DEF AnswersInv, Open, socketVars
  <2>3. ASSUME NEW r \in Sockets, NEW n \in DOMAIN answers'[r], answers'[r][n].accepted
        PROVE  answers'[r][n].streams \subseteq asked[r] \cup astray'
    <3>1. CASE r = s
      <4>1. n + 1 \in DOMAIN answers[s] /\ answers'[r][n] = answers[s][n + 1]
        BY <1>1, <1>4, <2>1, <2>3, <3>1
      <4>. QED  BY <1>1, <2>3, <3>1, <4>1 DEF AnswersInv
    <3>2. CASE r # s
      BY <1>1, <2>3, <3>2 DEF AnswersInv
    <3>. QED  BY <3>1, <3>2
  <2>. QED  BY <1>1, <2>1, <2>2, <2>3 DEF AnswersInv
<1>6. Tracked \cup astray \subseteq Tracked' \cup astray' /\ Tracked' \subseteq Tracked
  BY <1>1 DEF Tracked
<1>7. TrackedInv'
  BY <1>1, <1>6 DEF SocketInv, TrackedInv, Connected, Open, socketVars
<1>8. HolderInv'
  <2>1. \A c \in Chains : MarkSwept(c) => MarkSwept(c)'
    BY <1>1 DEF MarkSwept, Of, adapterVars
  <2>. QED  BY <1>1, <1>2, <1>6, <2>1, HolderStays DEF adapterVars
<1>. QED  BY <1>2, <1>3, <1>5, <1>7, <1>8

\* RefusedAll of Binance's client keeps its invariant.
LEMMA BinanceRefusedAll ==
  ASSUME FeedAssumption, AdapterInv, SocketInv, BinanceInv, UNCHANGED venue, NEW s \in Sockets, Binance!RefusedAll(s)
  PROVE  (AdapterInv /\ SocketInv /\ BinanceInv)'
<1>. USE DEF BinanceInv
<1>. DEFINE rest(r) == IF r = s THEN Tail(answers[s]) ELSE answers[r]
<1>1. /\ answers[s] # <<>>
      /\ pending' = {}
      /\ astray' = astray \cup pending
      /\ answers' = [r \in Sockets |-> [n \in DOMAIN rest(r) |-> [rest(r)[n] EXCEPT !.streams = {}]]]
      /\ UNCHANGED <<adapterVars, socketVars, asked, planned>>
  BY DEF Binance!RefusedAll, Binance!adapterVars, adapterVars, Binance!socketVars, socketVars
<1>2. AdapterInv' /\ \A c \in Chains : Due(c)' = Due(c)
  BY <1>1, SameKeeps DEF AdapterInv, adapterVars
<1>3. SocketInv'
  BY <1>1 DEF SocketInv, socketVars
<1>4. answers[s] \in Seq(Answer) /\ s = ws
  BY <1>1 DEF AnswersInv
<1>5. AnswersInv'
  <2>1. ASSUME NEW r \in Sockets
        PROVE  /\ answers'[r] \in Seq(Answer)
               /\ answers'[r] # <<>> => r = ws' /\ Open(r)'
               /\ \A n \in DOMAIN answers'[r] : answers'[r][n].streams = {}
    <3>. DEFINE q == rest(r)
    <3>1. q \in Seq(Answer) /\ (q # <<>> => answers[r] # <<>>)
      BY <1>1, <1>4 DEF AnswersInv
    <3>. HIDE DEF rest
    <3>2. answers'[r] = [n \in DOMAIN q |-> [q[n] EXCEPT !.streams = {}]]
      BY <1>1
    <3>. HIDE DEF q
    <3>3. \A n \in DOMAIN q : [q[n] EXCEPT !.streams = {}] \in Answer /\ [q[n] EXCEPT !.streams = {}].streams = {}
      <4>1. \A e \in Answer : [e EXCEPT !.streams = {}] \in Answer /\ [e EXCEPT !.streams = {}].streams = {}
        BY DEF Answer
      <4>2. \A n \in DOMAIN q : q[n] \in Answer
        BY <3>1
      <4>. QED  BY <4>1, <4>2
    <3>4. answers'[r] \in Seq(Answer) /\ (q = <<>> => answers'[r] = <<>>)
      BY <3>1, <3>2, <3>3
    <3>. QED  BY <1>1, <3>1, <3>2, <3>3, <3>4 DEF AnswersInv, Open, socketVars
  <2>2. answers' \in [Sockets -> Seq(Answer)]
    <3>1. DOMAIN answers' = Sockets /\ answers' = [r \in Sockets |-> answers'[r]]
      <4>. HIDE DEF rest
      <4>. QED  BY <1>1
    <3>. QED  BY <2>1, <3>1
  <2>3. \A r \in Sockets : \A n \in DOMAIN answers'[r] :
          answers'[r][n].accepted => answers'[r][n].streams \subseteq asked'[r] \cup astray'
    BY <2>1
  <2>. QED  BY <2>1, <2>2, <2>3 DEF AnswersInv
<1>. HIDE DEF rest
<1>6. Tracked \cup astray \subseteq Tracked' \cup astray' /\ Tracked' \subseteq Tracked
  BY <1>1 DEF Tracked
<1>7. TrackedInv'
  BY <1>1, <1>6 DEF SocketInv, TrackedInv, Connected, Open, socketVars
<1>8. HolderInv'
  <2>1. \A c \in Chains : MarkSwept(c) => MarkSwept(c)'
    BY <1>1 DEF MarkSwept, Of, adapterVars
  <2>. QED  BY <1>1, <1>2, <1>6, <2>1, HolderStays DEF adapterVars
<1>. QED  BY <1>2, <1>3, <1>5, <1>7, <1>8

\* What a sweep untracks: the streams of the expired instruments' chains and
\* underlyings, and the listings.
LEMMA SweepSpares ==
  ASSUME FeedAssumption, AdapterInv, Swept, Unlisted, UNCHANGED venue, venue = "binance", NEW c \in Chains
  PROVE  /\ MarkSwept(c) => MarkSwept(c)'
         /\ Binance!mark(baseOf[c]) \in Binance!SweptStreams => MarkSwept(c)'
         /\ Due(c) # {} => Binance!oi(c) \notin Binance!SweptStreams
<1>1. Binance!SweptStreams \subseteq
        {Binance!mark(baseOf[chainOf[i]]) : i \in Expired} \cup {Binance!symbols} \cup {Binance!oi(chainOf[i]) : i \in Expired}
  BY DEF Binance!SweptStreams, Binance!InitialStreams, Binance!OiStreams, Binance!Expired, Expired
<1>2. MarkSwept(c) => MarkSwept(c)'
  BY SweptStays DEF Swept, Unlisted, Of
<1>3. ASSUME Binance!mark(baseOf[c]) \in Binance!SweptStreams
      PROVE  MarkSwept(c)'
  <2>1. PICK i \in Expired : baseOf[chainOf[i]] = baseOf[c]
    BY <1>1, <1>3, StreamsDiffer
  <2>2. chainOf[i] \in ended' /\ Of(chainOf[i], listed)' = {}
    BY <2>1 DEF Expired, Swept, Unlisted, Of
  <2>. QED  BY <2>1, <2>2 DEF MarkSwept
<1>4. ASSUME Due(c) # {}
      PROVE  Binance!oi(c) \notin Binance!SweptStreams
  <2>1. \A i \in Expired : chainOf[i] # c
    BY <1>4 DEF Due, Expired
  <2>. QED  BY <1>1, <2>1, StreamsDiffer
<1>. QED  BY <1>2, <1>3, <1>4

\* Sweep of Binance's client keeps its invariant.
LEMMA BinanceSweep ==
  ASSUME FeedAssumption, AdapterInv, SocketInv, BinanceInv, UNCHANGED venue, venue = "binance", Binance!Sweep
  PROVE  (AdapterInv /\ SocketInv /\ BinanceInv)'
<1>. USE DEF BinanceInv
<1>. DEFINE streams == Binance!SweptStreams
<1>1. /\ Swept /\ Unlisted
      /\ planned' = planned \ streams
      /\ pending' = pending \ streams
      /\ UNCHANGED <<socketVars, asked, answers, astray>>
  BY DEF Binance!Sweep, Binance!Swept, Swept, Binance!Expired, Expired, Binance!Unlisted, Unlisted, Binance!Untrack,
         Binance!socketVars, socketVars
<1>. HIDE DEF streams
<1>2. AdapterInv' /\ \A c \in Chains : Due(c)' = Due(c)
  BY <1>1, SweptKeeps
<1>3. SocketInv' /\ AnswersInv'
  BY <1>1 DEF SocketInv, AnswersInv, Open, socketVars
<1>4. TrackedInv'
  BY <1>1 DEF TrackedInv, Tracked, Connected, Open, socketVars
<1>5. ASSUME NEW c \in Chains, requests'[c] = "held"
      PROVE  /\ Binance!mark(baseOf[c]) \in Tracked' \cup astray' \/ MarkSwept(c)'
             /\ Due(c)' # {} => Binance!oi(c) \in Tracked' \cup astray'
  <2>1. /\ MarkSwept(c) => MarkSwept(c)'
        /\ Binance!mark(baseOf[c]) \in streams => MarkSwept(c)'
        /\ Due(c) # {} => Binance!oi(c) \notin streams
    BY <1>1, SweepSpares DEF streams
  <2>2. requests[c] = "held"
    BY <1>1, <1>5 DEF Unlisted
  <2>. QED  BY <1>1, <1>2, <2>1, <2>2 DEF HolderInv, Tracked
<1>6. HolderInv'
  BY <1>1, <1>5 DEF HolderInv, Unlisted
<1>. QED  BY <1>2, <1>3, <1>4, <1>6

\* Opened of Binance's client keeps its invariant.
LEMMA BinanceOpened ==
  ASSUME FeedAssumption, AdapterInv, SocketInv, BinanceInv, UNCHANGED venue, venue = "binance",
         NEW s \in Sockets, Binance!Opened(s)
  PROVE  (AdapterInv /\ SocketInv /\ BinanceInv)'
<1>. USE DEF BinanceInv
<1>. DEFINE streams == Binance!SweptStreams
<1>1. /\ Swept /\ Unlisted
      /\ Binance!SendSubscribe(Tracked)
      /\ planned' = planned \ streams
      /\ pending' = pending \ streams
      /\ sock[s] = "connecting" /\ sock' = [sock EXCEPT ![s] = "open"]
      /\ UNCHANGED ws
  BY DEF Binance!Opened, Binance!Opens, Binance!Swept, Swept, Binance!Expired, Expired, Binance!Unlisted, Unlisted,
         Binance!Untrack, Binance!tracked, Tracked
<1>. HIDE DEF streams
<1>2. AdapterInv' /\ \A c \in Chains : Due(c)' = Due(c)
  BY <1>1, SweptKeeps
<1>3. \A r \in Sockets : Open(r) => Open(r)'
  BY <1>1 DEF SocketInv, Open
<1>4. Tracked \in SUBSET Streams
  BY DEF TrackedInv, Tracked
<1>5. /\ AnswersInv'
      /\ DOMAIN asked' = Sockets
      /\ Connected' => asked[ws] \cup astray \cup Tracked \subseteq asked'[ws] \cup astray'
      /\ astray \subseteq astray' \cup Tracked
  BY <1>1, <1>3, <1>4, BinanceSends
<1>6. SocketInv'
  BY <1>1, <1>5 DEF SocketInv
<1>7. Tracked' = Tracked \ streams
  BY <1>1 DEF Tracked
<1>8. TrackedInv'
  BY <1>1, <1>5, <1>7 DEF TrackedInv
<1>9. ASSUME NEW c \in Chains, requests'[c] = "held"
      PROVE  /\ Binance!mark(baseOf[c]) \in Tracked' \cup astray' \/ MarkSwept(c)'
             /\ Due(c)' # {} => Binance!oi(c) \in Tracked' \cup astray'
  <2>1. /\ MarkSwept(c) => MarkSwept(c)'
        /\ Binance!mark(baseOf[c]) \in streams => MarkSwept(c)'
        /\ Due(c) # {} => Binance!oi(c) \notin streams
    BY <1>1, SweepSpares DEF streams
  <2>2. requests[c] = "held"
    BY <1>1, <1>9 DEF Unlisted
  <2>3. \A x : x \in Tracked \cup astray /\ x \notin streams => x \in Tracked' \cup astray'
    BY <1>5, <1>7
  <2>4. Binance!mark(baseOf[c]) \in Tracked \cup astray \/ MarkSwept(c)
    BY <2>2 DEF HolderInv
  <2>5. Due(c)' # {} => Binance!oi(c) \in Tracked \cup astray
    BY <1>2, <2>2 DEF HolderInv
  <2>. QED  BY <1>2, <2>1, <2>3, <2>4, <2>5
<1>10. HolderInv'
  BY <1>1, <1>9 DEF HolderInv, Unlisted
<1>. QED  BY <1>2, <1>5, <1>6, <1>8, <1>10

\* Refreshed of Binance's client keeps its invariant.
LEMMA BinanceRefreshed ==
  ASSUME FeedAssumption, AdapterInv, SocketInv, BinanceInv, UNCHANGED venue,
         NEW answered \in BOOLEAN, Binance!Refreshed(answered)
  PROVE  (AdapterInv /\ SocketInv /\ BinanceInv)'
<1>. USE DEF BinanceInv
<1>. DEFINE new == IF answered THEN trading \ listed ELSE {}
            streams == Binance!OiStreams(new) \ planned
<1>1. /\ Unlisted
      /\ listed' = listed \cup new
      /\ planned' = planned \cup streams
      /\ Binance!SendSubscribe(streams)
      /\ UNCHANGED <<socketVars, pending>>
  <2>1. CASE answered
    BY <2>1 DEF Binance!Refreshed, Binance!Unlisted, Unlisted, Binance!socketVars, socketVars
  <2>2. CASE ~ answered
    <3>1. streams = {} /\ new = {}
      BY <2>2 DEF Binance!OiStreams
    <3>. HIDE DEF streams, new
    <3>. QED
      BY <2>2, <3>1 DEF Binance!Refreshed, Binance!Unlisted, Unlisted, Binance!socketVars, socketVars,
                        Binance!SendSubscribe
  <2>. QED  BY <2>1, <2>2
<1>2. new \subseteq trading
  OBVIOUS
<1>3. \A i \in new : Binance!oi(chainOf[i]) \in planned'
  BY <1>1 DEF Binance!OiStreams
<1>4. streams \in SUBSET Streams
  BY StreamsDiffer DEF Binance!OiStreams, FeedAssumption, AdapterInv
<1>. HIDE DEF new, streams
<1>5. AdapterInv' /\ \A c \in Chains : Due(c)' \subseteq Due(c) \cup new
  BY <1>1, <1>2, ListingKeeps DEF AdapterInv
<1>6. UNCHANGED ws /\ \A s \in Sockets : Open(s) => Open(s)'
  BY <1>1 DEF socketVars, Open
<1>7. /\ AnswersInv'
      /\ DOMAIN asked' = Sockets
      /\ Connected' => asked[ws] \cup astray \cup streams \subseteq asked'[ws] \cup astray'
      /\ astray \subseteq astray' \cup streams
  BY <1>1, <1>4, <1>6, BinanceSends
<1>8. Tracked' = Tracked \cup streams /\ Tracked \cup astray \subseteq Tracked' \cup astray'
  BY <1>1, <1>7 DEF Tracked
<1>9. SocketInv' /\ TrackedInv'
  BY <1>1, <1>4, <1>7, <1>8 DEF SocketInv, TrackedInv, Connected, Open, socketVars
<1>10. \A d \in Chains : MarkSwept(d) => MarkSwept(d)'
  <2>1. \A d \in ended : Of(d, listed') \subseteq Of(d, listed)
    BY <1>1, <1>2 DEF Of, AdapterInv
  <2>. QED  BY <1>1, <2>1, SweptStays DEF Unlisted
<1>11. ASSUME NEW c \in Chains, requests'[c] = "held"
       PROVE  /\ Binance!mark(baseOf[c]) \in Tracked' \cup astray' \/ MarkSwept(c)'
              /\ Due(c)' # {} => Binance!oi(c) \in Tracked' \cup astray'
  <2>1. requests[c] = "held"
    BY <1>1, <1>11 DEF Unlisted
  <2>2. Due(c)' # {} => Due(c) # {} \/ \E i \in new : chainOf[i] = c
    BY <1>1, <1>5 DEF Due, Of, Unlisted
  <2>3. (\E i \in new : chainOf[i] = c) => Binance!oi(c) \in Tracked'
    BY <1>3 DEF Tracked
  <2>. QED  BY <1>8, <1>10, <2>1, <2>2, <2>3 DEF HolderInv
<1>12. HolderInv'
  BY <1>1, <1>11 DEF HolderInv, Unlisted
<1>. QED  BY <1>5, <1>7, <1>9, <1>12

\* Failed and Closed of Binance's client keep its invariant.
LEMMA BinanceFailed ==
  ASSUME FeedAssumption, AdapterInv, SocketInv, BinanceInv, UNCHANGED venue,
         NEW s \in Sockets, Binance!Failed(s) \/ Binance!Closed(s)
  PROVE  (AdapterInv /\ SocketInv /\ BinanceInv)'
<1>. USE DEF BinanceInv
<1>1. /\ UNCHANGED <<adapterVars, planned, pending, astray, ws>>
      /\ sock' = [sock EXCEPT ![s] = "none"]
      /\ asked' = [asked EXCEPT ![s] = {}]
  BY DEF Binance!Failed, Binance!Fails, Binance!Closed, Binance!Drops, Binance!adapterVars, adapterVars
<1>2. AdapterInv' /\ \A c \in Chains : Due(c)' = Due(c)
  BY <1>1, SameKeeps DEF AdapterInv, adapterVars
<1>3. SocketInv'
  BY <1>1 DEF SocketInv
<1>4. answers' = [answers EXCEPT ![s] = <<>>]
  <2>1. CASE Binance!Failed(s)
    <3>1. sock[s] = "connecting" /\ UNCHANGED answers
      BY <2>1 DEF Binance!Failed, Binance!Fails
    <3>2. answers[s] = <<>>
      BY <3>1 DEF AnswersInv, Open
    <3>. QED  BY <3>1, <3>2 DEF AnswersInv
  <2>2. CASE Binance!Closed(s)
    BY <2>2 DEF Binance!Closed
  <2>. QED  BY <2>1, <2>2
<1>5. AnswersInv'
  <2>1. answers' \in [Sockets -> Seq(Answer)]
    BY <1>4 DEF AnswersInv
  <2>2. \A r \in Sockets : answers'[r] # <<>> => r # s /\ answers'[r] = answers[r]
    BY <1>4 DEF AnswersInv
  <2>3. ASSUME NEW r \in Sockets, NEW n \in DOMAIN answers'[r], answers'[r][n].accepted
        PROVE  answers'[r][n].streams \subseteq asked'[r] \cup astray'
    <3>1. answers'[r] # <<>>
      BY <2>3
    <3>. QED  BY <1>1, <2>2, <2>3, <3>1 DEF AnswersInv, SocketInv
  <2>4. \A r \in Sockets : answers'[r] # <<>> => r = ws' /\ Open(r)'
    BY <1>1, <2>2 DEF AnswersInv, Open, SocketInv
  <2>. QED  BY <2>1, <2>3, <2>4 DEF AnswersInv
<1>6. TrackedInv'
  BY <1>1 DEF SocketInv, TrackedInv, Tracked, Connected, Open
<1>7. HolderInv'
  <2>1. \A c \in Chains : MarkSwept(c) => MarkSwept(c)'
    BY <1>1 DEF MarkSwept, Of, adapterVars
  <2>. QED  BY <1>1, <1>2, <2>1, HolderStays DEF adapterVars, Tracked
<1>. QED  BY <1>2, <1>3, <1>5, <1>6, <1>7

\* Reconnect of Binance's client keeps its invariant.
LEMMA BinanceReconnect ==
  ASSUME FeedAssumption, AdapterInv, SocketInv, BinanceInv, UNCHANGED venue, Binance!Reconnect
  PROVE  (AdapterInv /\ SocketInv /\ BinanceInv)'
<1>. USE DEF BinanceInv
<1>1. UNCHANGED <<adapterVars, asked, planned, pending, answers, astray>>
  BY DEF Binance!Reconnect, Binance!adapterVars, adapterVars
<1>2. UNCHANGED socketVars \/ (~ Connected /\ Dialled)
  BY BinanceDial, DialTakesFree DEF Binance!Reconnect, Binance!socketVars, socketVars, Binance!Connected, Connected,
     Binance!Open, Open
<1>3. AdapterInv' /\ \A c \in Chains : Due(c)' = Due(c)
  BY <1>1, SameKeeps DEF AdapterInv, adapterVars
<1>4. SocketInv' /\ TrackedInv'
  BY <1>1, <1>2 DEF SocketInv, TrackedInv, Tracked, Connected, Open, Dialled, socketVars
<1>5. AnswersInv'
  BY <1>1, <1>2 DEF AnswersInv, Connected, Open, socketVars
<1>6. HolderInv'
  <2>1. \A c \in Chains : MarkSwept(c) => MarkSwept(c)'
    BY <1>1 DEF MarkSwept, Of, adapterVars
  <2>. QED  BY <1>1, <1>3, <2>1, HolderStays DEF adapterVars, Tracked
<1>. QED  BY <1>3, <1>4, <1>5, <1>6

\* Market of Binance's client keeps its invariant.
LEMMA BinanceMarket ==
  ASSUME FeedAssumption, AdapterInv, SocketInv, BinanceInv, UNCHANGED venue, Binance!Market
  PROVE  (AdapterInv /\ SocketInv /\ BinanceInv)'
<1>. USE DEF BinanceInv
<1>1. /\ AdapterInv' /\ (\A c \in Chains : Due(c)' \subseteq Due(c))
      /\ UNCHANGED <<requests, matching, listed>> /\ ended \subseteq ended'
  <2>1. CASE \E i \in Instruments : Lists(i)
    BY <2>1, ListsKeeps DEF Lists
  <2>2. CASE \E c \in Chains : Expires(c)
    BY <2>2, ExpiresKeeps DEF Expires
  <2>. QED
    BY <2>1, <2>2 DEF Binance!Market, Binance!Lists, Lists, Binance!Expires, Expires, Binance!Fault, Fault,
       Binance!Of, Of
<1>2. UNCHANGED <<socketVars, asked, planned, pending, answers, astray>>
  BY DEF Binance!Market, Binance!socketVars, socketVars
<1>3. SocketInv' /\ TrackedInv' /\ AnswersInv'
  BY <1>2 DEF SocketInv, TrackedInv, AnswersInv, Tracked, Connected, Open, socketVars
<1>4. HolderInv'
  <2>1. \A c \in Chains : MarkSwept(c) => MarkSwept(c)'
    BY <1>1, SweptStays
  <2>. QED  BY <1>1, <1>2, <2>1, HolderStays DEF Tracked
<1>. QED  BY <1>1, <1>3, <1>4

\* Every step of Binance's client keeps its invariant.
LEMMA BinanceStep ==
  ASSUME FeedAssumption, AdapterInv, SocketInv, BinanceInv, UNCHANGED venue, venue = "binance", Binance!Next
  PROVE  (AdapterInv /\ SocketInv /\ BinanceInv)'
BY BinanceMarket, BinanceSweep, BinanceReconnect, BinanceSubscribe, BinanceRelease, BinanceNewSymbol,
   BinanceRefreshed, BinanceConfirmed, BinanceRefused, BinanceRefusedAll, BinanceOpened, BinanceFailed DEF
   Binance!Next

\* Binance begins in a state of its invariant.
LEMMA BinanceFirst ==
  ASSUME FeedAssumption, Binance!Init
  PROVE  AdapterInv /\ SocketInv /\ BinanceInv
<1>. DEFINE streams == Binance!InitialStreams(FirstListed)
            answer == [streams |-> streams, accepted |-> TRUE]
<1>1. AdapterInv /\ SocketInv
  BY DEF FeedAssumption, Binance!Init, Binance!AdapterInit, Binance!SocketInit, AdapterInv, SocketInv
<1>2. /\ planned = {} /\ pending = streams
      /\ asked = [s \in Sockets |-> IF s = 1 THEN streams ELSE {}]
      /\ answers = [s \in Sockets |-> IF s = 1 THEN <<answer>> ELSE <<>>]
      /\ 1 \in Sockets /\ ws = 1 /\ sock[1] = "open"
      /\ requests = [c \in Chains |-> "idle"]
  BY DEF FeedAssumption, Binance!Init, Binance!SocketInit, Binance!AdapterInit
<1>3. streams \in SUBSET Streams
  BY StreamsDiffer DEF FeedAssumption, Binance!InitialStreams, Binance!OiStreams
<1>. HIDE DEF streams
<1>4. answer \in Answer
  BY <1>3 DEF Answer
<1>5. AnswersInv
  BY <1>2, <1>4 DEF AnswersInv, Open
<1>6. TrackedInv
  BY <1>2, <1>3 DEF TrackedInv, Tracked, Connected, Open
<1>. QED
  BY <1>1, <1>2, <1>5, <1>6 DEF BinanceInv, HolderInv

-------------------------------------------------------------------------------
(***************************************************************************)
(* The transport of Deribit and Derive.                                    *)
(***************************************************************************)

\* The user's job, the market's and those of the sockets are different ones.
LEMMA TasksDiffer ==
  /\ user \in Tasks /\ market \in Tasks /\ user # market
  /\ \A s \in Sockets : replay(s) \in Tasks /\ replay(s) # user /\ replay(s) # market
  /\ \A s, r \in Sockets : replay(s) = replay(r) => s = r
  /\ \A t \in Tasks : t \in {user, market} \/ \E s \in Sockets : t = replay(s)
BY DEF Tasks, user, market, replay

\* A job that is not idle has a first step, and the rest is a job.
LEMMA FirstOfJob ==
  ASSUME JobTypes, NEW t \in Tasks, ~ Idle(t)
  PROVE  /\ jobs[t] \in Seq(JobStep) /\ 1 \in DOMAIN jobs[t]
         /\ First(t) = jobs[t][1] /\ First(t) \in JobStep
         /\ Tail(jobs[t]) \in Seq(JobStep) /\ Len(Tail(jobs[t])) = Len(jobs[t]) - 1
         /\ \A n \in DOMAIN Tail(jobs[t]) : n + 1 \in DOMAIN jobs[t] /\ Tail(jobs[t])[n] = jobs[t][n + 1]
<1>1. jobs[t] \in Seq(JobStep) /\ jobs[t] # <<>>
  BY DEF JobTypes, Idle
<1>. QED  BY <1>1 DEF First

\* Which kind of job has which steps.
LEMMA WhoDoes ==
  ASSUME JobInv, NEW t \in Tasks, ~ Idle(t)
  PROVE  /\ First(t).op = "replay" => \E s \in Sockets : t = replay(s)
         /\ First(t).op # "replay" => t \in {user, market}
BY FirstOfJob, TasksDiffer DEF JobInv, ReplayInv, StepInv

\* A job sends its first step.
LEMMA JobWaits ==
  ASSUME JobInv, NEW t \in Tasks, Runs(t),
         NEW outcome \in {"answered", "refused", "late", "closed"},
         calling' = [calling EXCEPT ![t] = outcome],
         \/ UNCHANGED added
         \/ /\ First(t).op = "subscribe"
            /\ \E some \in SUBSET First(t).about : added' = [added EXCEPT ![t] = some],
         channels' \subseteq Things,
         UNCHANGED <<jobs, planned, requests, sock>>
  PROVE  JobInv'
<1>1. /\ ~ Idle(t) /\ ~ Pending(t)
  BY DEF Runs, Pending
<1>2. First(t) \in JobStep
  BY <1>1, FirstOfJob DEF JobInv
<1>3. JobTypes'
  BY <1>2 DEF JobInv, JobTypes, JobStep
<1>4. AddedInv'
  <2>1. \A r \in Tasks \ {t} : added'[r] = added[r] /\ calling'[r] = calling[r]
    BY DEF JobInv, JobTypes
  <2>2. added'[t] = {} \/ (First(t).op = "subscribe" /\ added'[t] \subseteq First(t).about)
    BY <1>1 DEF JobInv, JobTypes, AddedInv
  <2>3. Pending(t)'
    BY DEF Pending, JobInv, JobTypes
  <2>. QED  BY <1>1, <2>1, <2>2, <2>3 DEF JobInv, AddedInv, Idle, First, Pending
<1>5. ReplayInv'
  BY <1>1 DEF JobInv, JobTypes, ReplayInv, Idle, Open, Pending
<1>6. StepInv'
  BY DEF JobInv, StepInv
<1>7. \A r \in Tasks : Idle(r)' => ~ Pending(r)'
  BY <1>1 DEF JobInv, JobTypes, Idle, Pending
<1>8. ~ Idle(user)' => ~ Free'
  BY DEF JobInv, Idle, Free
<1>. QED  BY <1>3, <1>4, <1>5, <1>6, <1>7, <1>8 DEF JobInv

\* A job goes on with the steps it has left, or with none.
LEMMA JobGoesOn ==
  ASSUME JobInv, NEW t \in Tasks, ~ Idle(t), NEW rest \in {Tail(jobs[t]), <<>>},
         jobs' = [jobs EXCEPT ![t] = rest],
         calling' = [calling EXCEPT ![t] = "no"],
         added' = [added EXCEPT ![t] = {}],
         channels' \subseteq Things,
         rest = <<>> \/ First(t).op # "replay" \/ calling[t] # "closed",
         requests' = requests \/ (t = user /\ rest = <<>>),
         UNCHANGED <<planned, sock>>
  PROVE  JobInv'
<1>1. /\ rest \in Seq(JobStep) /\ jobs'[t] = rest
      /\ \A n \in DOMAIN rest : n + 1 \in DOMAIN jobs[t] /\ rest[n] = jobs[t][n + 1]
      /\ rest # <<>> => Len(jobs[t]) = Len(rest) + 1 /\ Len(rest) > 0
  <2>1. jobs'[t] = rest
    BY DEF JobInv, JobTypes
  <2>2. CASE rest = <<>>
    BY <2>1, <2>2
  <2>3. CASE rest = Tail(jobs[t])
    BY <2>1, <2>3, FirstOfJob DEF JobInv
  <2>. QED  BY <2>2, <2>3
<1>2. /\ calling'[t] = "no" /\ added'[t] = {}
      /\ \A r \in Tasks \ {t} : jobs'[r] = jobs[r] /\ calling'[r] = calling[r] /\ added'[r] = added[r]
  BY DEF JobInv, JobTypes
<1>3. JobTypes'
  BY <1>1 DEF JobInv, JobTypes
<1>4. AddedInv'
  BY <1>2 DEF JobInv, AddedInv, Idle, First, Pending
<1>5. ReplayInv'
  <2>1. SUFFICES ASSUME NEW s \in Sockets
                 PROVE  /\ ~ Idle(replay(s))' /\ calling'[replay(s)] # "closed" => Open(s)'
                        /\ \A n \in DOMAIN jobs'[replay(s)] : jobs'[replay(s)][n].op = "replay"
    BY DEF ReplayInv
  <2>2. CASE replay(s) # t
    BY <1>2, <2>2, TasksDiffer DEF JobInv, ReplayInv, Idle, Open
  <2>3. CASE replay(s) = t
    <3>1. \A n \in DOMAIN rest : rest[n].op = "replay"
      BY <1>1, <2>3 DEF JobInv, ReplayInv
    <3>2. First(t).op = "replay"
      BY <2>3, FirstOfJob DEF JobInv, ReplayInv
    <3>3. rest # <<>> => Open(s)
      BY <2>3, <3>2 DEF JobInv, ReplayInv
    <3>. QED  BY <1>1, <2>3, <3>1, <3>3 DEF Idle, Open
  <2>. QED  BY <2>2, <2>3
<1>6. StepInv'
  <2>1. SUFFICES ASSUME NEW r \in {user, market}, NEW n \in DOMAIN jobs'[r]
                 PROVE  /\ jobs'[r][n].op # "replay"
                        /\ jobs'[r][n].op \in {"instruments", "details"} => Len(jobs'[r]) = 1
    BY DEF StepInv
  <2>2. CASE r # t
    BY <1>2, <2>2, TasksDiffer DEF JobInv, StepInv
  <2>3. CASE r = t
    BY <1>1, <2>3 DEF JobInv, StepInv
  <2>. QED  BY <2>2, <2>3
<1>7. \A r \in Tasks : Idle(r)' => ~ Pending(r)'
  BY <1>2 DEF JobInv, Idle, Pending
<1>8. ~ Idle(user)' => ~ Free'
  <2>1. CASE t = user
    BY <1>1, <2>1 DEF JobInv, Idle, Free
  <2>2. CASE t # user
    BY <1>2, <2>2, TasksDiffer DEF JobInv, Idle, Free
  <2>. QED  BY <2>1, <2>2
<1>. QED  BY <1>3, <1>4, <1>5, <1>6, <1>7, <1>8 DEF JobInv

\* A step of job t leaves the others alone.
OnlyTask(t) ==
  \A r \in Tasks \ {t} : jobs'[r] = jobs[r] /\ calling'[r] = calling[r] /\ added'[r] = added[r]

\* What a step of job t has to see to, for the channels and for the exchange.
LEMMA TaskKeeps ==
  ASSUME RpcInv, NEW t \in Tasks, OnlyTask(t), JobInv', UNCHANGED planned,
         \A x \in planned : x \in channels \cup astray => x \in channels' \cup astray',
         \A x \in planned : SubscribesBy(t, x) => x \in channels' \cup astray' \/ SubscribesBy(t, x)',
         Steady' => Steady /\ ws' = ws,
         Steady' => \A x \in channels' : SeenTo(t, x)' \/ (x \in channels /\ ~ SeenTo(t, x))
  PROVE  RpcInv'
<1>1. PlannedIsKept'
  <2>1. SUFFICES ASSUME NEW x \in planned, x \notin channels', x \notin astray'
                 PROVE  \E r \in Tasks : SubscribesBy(r, x)'
    BY DEF PlannedIsKept, ToSubscribe
  <2>2. PICK r \in Tasks : SubscribesBy(r, x)
    BY <2>1 DEF RpcInv, PlannedIsKept, ToSubscribe
  <2>3. CASE r = t
    BY <2>1, <2>2, <2>3
  <2>4. CASE r # t
    BY <2>2, <2>4 DEF OnlyTask, SubscribesBy, Ahead, Pending
  <2>. QED  BY <2>3, <2>4
<1>2. ChannelIsStreamed'
  <2>1. SUFFICES ASSUME Steady', NEW x \in channels'
                 PROVE  \E r \in Tasks : SeenTo(r, x)'
    BY DEF ChannelIsStreamed
  <2>2. CASE SeenTo(t, x)'
    BY <2>2
  <2>3. CASE x \in channels /\ ~ SeenTo(t, x)
    <3>1. PICK r \in Tasks : SeenTo(r, x)
      BY <2>1, <2>3 DEF RpcInv, ChannelIsStreamed
    <3>2. r # t
      BY <2>3, <3>1
    <3>3. jobs'[r] = jobs[r] /\ calling'[r] = calling[r] /\ added'[r] = added[r] /\ ws' = ws
      BY <2>1, <3>2 DEF OnlyTask
    <3>4. x \notin asked[ws]
      BY <2>3 DEF SeenTo
    <3>. QED  BY <2>1, <3>1, <3>3, <3>4 DEF SeenTo, ReplaysBy, LeavesBy, Idle, Pending, First
  <2>. QED  BY <2>1, <2>2, <2>3
<1>. QED  BY <1>1, <1>2 DEF RpcInv

\* Only a subscription that is under way has added channels.
LEMMA AddedElsewhere ==
  ASSUME JobInv, NEW t \in Tasks, Idle(t) \/ First(t).op # "subscribe" \/ ~ Pending(t)
  PROVE  added[t] = {} /\ added = [added EXCEPT ![t] = {}]
BY DEF JobInv, JobTypes, AddedInv

\* What an exception does to the requests and the timers.
LEMMA Aborted ==
  ASSUME AdapterInv, NEW t \in Tasks, Abort(t)
  PROVE  /\ jobs' = [jobs EXCEPT ![t] = <<>>]
         /\ calling' = [calling EXCEPT ![t] = "no"]
         /\ astray' = astray \cup (Left(t, "subscribe") \ channels') \cup Left(t, "activate")
         /\ requests' = requests \/ t = user
         /\ requests' \in [Chains -> {"idle", "subscribing", "held", "releasing", "stuck"}]
         /\ \A c \in Chains : requests'[c] \in {requests[c], "stuck"}
         /\ IF t \in {user, market} THEN UNCHANGED timerVars ELSE timer'
BY DEF Abort, AdapterInv

\* What a job is still to subscribe to is left of it.
LEMMA LeftIsAstray ==
  ASSUME NEW t \in Tasks, NEW x, SubscribesBy(t, x)
  PROVE  x \in Left(t, "subscribe")
BY DEF Left, SubscribesBy

\* What the first step of a job is about is left of it.
LEMMA FirstIsLeft ==
  ASSUME JobInv, NEW t \in Tasks, ~ Idle(t)
  PROVE  First(t).about \subseteq Left(t, First(t).op)
<1>1. 1 \in DOMAIN jobs[t] /\ First(t) = jobs[t][1]
  BY FirstOfJob DEF JobInv
<1>. QED  BY <1>1 DEF Left

RpcRest == UNCHANGED <<matching, trading, ended, listed, socketVars, planned>>

\* A step that leaves the sockets alone.
LEMMA RestKeeps ==
  ASSUME SocketInv, RpcRest, DOMAIN asked' = DOMAIN asked
  PROVE  SocketInv' /\ Connected' = Connected /\ ws' = ws /\ sock' = sock
BY DEF SocketInv, RpcRest, socketVars, Connected, Open

\* A job is left, while its first step waits or as it is settled.
LEMMA AbortKeeps ==
  ASSUME AdapterInv, SocketInv, RpcInv, NEW t \in Tasks, ~ Idle(t), RpcRest, Abort(t), UNCHANGED asked,
         added' = [added EXCEPT ![t] = {}],
         \/ channels' = channels
         \/ channels' = channels \ added[t] /\ First(t).op = "subscribe",
         \/ ~ Connected \/ t \notin {user, market}
         \/ First(t).op = "subscribe" /\ (channels' = channels \ added[t] \/ calling[t] = "closed")
  PROVE  SocketInv' /\ RpcInv'
<1>1. SocketInv' /\ Connected' = Connected /\ ws' = ws /\ sock' = sock
  BY RestKeeps
<1>2. JobInv'
  BY <1>1, Aborted, JobGoesOn DEF RpcInv, RpcRest, JobInv, JobTypes
<1>3. OnlyTask(t)
  BY Aborted DEF OnlyTask, RpcInv, JobInv, JobTypes
<1>4. \A x \in planned : x \in channels \cup astray => x \in channels' \cup astray'
  <2>1. added[t] \subseteq Left(t, "subscribe") \/ channels' = channels
    BY FirstIsLeft DEF RpcInv, JobInv, AddedInv
  <2>. QED  BY <2>1, Aborted
<1>5. \A x \in planned : SubscribesBy(t, x) => x \in channels' \cup astray' \/ SubscribesBy(t, x)'
  BY LeftIsAstray, Aborted
<1>6. Steady' => t \in {user, market} /\ Connected /\ ~ timer /\ strays = 0
  BY <1>1, Aborted DEF Steady, timerVars
<1>7. Steady' => \A x \in channels' : SeenTo(t, x)' \/ (x \in channels /\ ~ SeenTo(t, x))
  <2>1. SUFFICES ASSUME Steady', NEW x \in channels', SeenTo(t, x)
                 PROVE  SeenTo(t, x)'
    OBVIOUS
  <2>2. t \in {user, market} /\ Connected /\ First(t).op = "subscribe"
    BY <1>6, <2>1
  <2>3. ~ ReplaysBy(t, x)
    BY <2>2 DEF ReplaysBy, RpcInv, JobInv, StepInv
  <2>4. ~ LeavesBy(t, x)
    BY <1>6, <2>1, <2>2 DEF LeavesBy
  <2>. QED  BY <1>1, <2>1, <2>2, <2>3, <2>4 DEF SeenTo, LeavesBy
<1>. QED  BY <1>1, <1>2, <1>3, <1>4, <1>5, <1>6, <1>7, TaskKeeps DEF RpcRest, Steady

\* The first step of a job is sent: what comes of it.
LEMMA SentKeeps ==
  ASSUME SocketInv, NEW t \in Tasks, NEW op, NEW about, Connected, Sent(t, op, about)
  PROVE  \E outcome \in {"answered", "refused", "late"} :
           /\ outcome = "late" => Asks(op)
           /\ calling' = [calling EXCEPT ![t] = outcome]
           /\ DOMAIN asked' = DOMAIN asked
           /\ outcome = "refused" => asked' = asked
           /\ outcome # "refused" /\ Asks(op) => asked'[ws] = asked[ws] \cup about
           /\ outcome # "refused" /\ op = "unsubscribe" => asked'[ws] = asked[ws] \ about
           /\ ~ Asks(op) /\ op # "unsubscribe" => asked' = asked
<1>1. PICK outcome \in Outcomes(op) :
        /\ calling' = [calling EXCEPT ![t] = outcome]
        /\ asked' = CASE outcome # "refused" /\ Asks(op) -> [asked EXCEPT ![ws] = @ \cup about]
                      [] outcome # "refused" /\ op = "unsubscribe" -> [asked EXCEPT ![ws] = @ \ about]
                      [] OTHER -> asked
  BY DEF Sent
<1>2. outcome \in {"answered", "refused", "late"} /\ (outcome = "late" => Asks(op))
  BY DEF Outcomes
<1>3. op = "unsubscribe" => ~ Asks(op)
  BY DEF Asks
<1>4. CASE outcome = "refused"
  <2>1. asked' = asked
    BY <1>1, <1>4
  <2>. QED  BY <1>1, <1>2, <1>4, <2>1
<1>5. CASE outcome # "refused" /\ Asks(op)
  BY <1>1, <1>2, <1>3, <1>5 DEF SocketInv
<1>6. CASE outcome # "refused" /\ op = "unsubscribe"
  BY <1>1, <1>2, <1>3, <1>6 DEF SocketInv
<1>7. CASE outcome # "refused" /\ ~ Asks(op) /\ op # "unsubscribe"
  BY <1>1, <1>2, <1>7
<1>. QED  BY <1>4, <1>5, <1>6, <1>7

\* CallSubscribe of the transport keeps its invariant.
LEMMA CallSubscribeKeeps ==
  ASSUME AdapterInv, SocketInv, RpcInv, NEW t \in Tasks, CallSubscribe(t)
  PROVE  SocketInv' /\ RpcInv'
<1>. DEFINE about == First(t).about
<1>1. /\ Runs(t) /\ First(t).op = "subscribe" /\ ~ Idle(t) /\ calling[t] = "no"
      /\ RpcRest
  BY DEF CallSubscribe, Runs, RpcRest
<1>2. t \in {user, market} /\ First(t) \in JobStep /\ First(t) = jobs[t][1] /\ 1 \in DOMAIN jobs[t]
  BY <1>1, WhoDoes, FirstOfJob DEF RpcInv, JobInv
<1>3. CASE Connected
  <2>1. PICK outcome \in {"answered", "refused", "late"} :
          /\ calling' = [calling EXCEPT ![t] = outcome]
          /\ DOMAIN asked' = DOMAIN asked
          /\ outcome = "refused" => asked' = asked
          /\ outcome # "refused" => asked'[ws] = asked[ws] \cup about
    BY <1>3, SentKeeps DEF CallSubscribe, Asks
  <2>2. /\ channels' = channels \cup about
        /\ added' = [added EXCEPT ![t] = about \ channels]
        /\ astray' = astray \ about
        /\ UNCHANGED <<requests, timerVars, jobs>>
    BY <1>3 DEF CallSubscribe
  <2>3. SocketInv' /\ Connected' = Connected /\ ws' = ws /\ sock' = sock
    BY <1>1, <2>1, RestKeeps
  <2>4. about \subseteq Things /\ channels' \subseteq Things
    BY <1>2, <2>2 DEF JobStep, RpcInv, JobInv, JobTypes
  <2>5. about \ channels \in SUBSET First(t).about
    OBVIOUS
  <2>6. JobInv'
    <3>. HIDE DEF about
    <3>. QED  BY <1>1, <2>1, <2>2, <2>3, <2>4, <2>5, JobWaits DEF RpcInv, RpcRest
  <2>7. OnlyTask(t) /\ jobs'[t] = jobs[t] /\ calling'[t] = outcome /\ added'[t] = about \ channels
    BY <2>1, <2>2 DEF OnlyTask, RpcInv, JobInv, JobTypes
  <2>8. \A x \in planned : SubscribesBy(t, x) => x \in channels' \cup astray' \/ SubscribesBy(t, x)'
    <3>1. SUFFICES ASSUME NEW x, SubscribesBy(t, x), x \notin about
                   PROVE  SubscribesBy(t, x)'
      BY <2>2
    <3>. QED  BY <1>2, <2>7, <3>1 DEF SubscribesBy, Ahead
  <2>9. Steady' => Steady /\ ws' = ws
    BY <2>2, <2>3 DEF Steady, timerVars
  <2>10. Steady' => \A x \in channels' : SeenTo(t, x)' \/ (x \in channels /\ ~ SeenTo(t, x))
    <3>1. SUFFICES ASSUME NEW x \in channels', x \notin channels \/ SeenTo(t, x)
                   PROVE  SeenTo(t, x)'
      OBVIOUS
    <3>2. CASE x \in about /\ outcome # "refused"
      BY <2>1, <2>3, <3>2 DEF SeenTo
    <3>3. CASE x \in about /\ x \notin channels /\ outcome = "refused"
      BY <2>7, <3>3 DEF SeenTo, LeavesBy
    <3>4. CASE x \in channels /\ SeenTo(t, x)
      <4>1. ~ ReplaysBy(t, x) /\ ~ LeavesBy(t, x)
        BY <1>1, <1>2 DEF ReplaysBy, LeavesBy, Pending, RpcInv, JobInv, StepInv
      <4>. QED  BY <2>1, <2>3, <3>4, <4>1 DEF SeenTo
    <3>. QED  BY <2>2, <3>1, <3>2, <3>3, <3>4
  <2>11. \A x \in planned : x \in channels \cup astray => x \in channels' \cup astray'
    BY <2>2
  <2>. QED  BY <1>1, <2>3, <2>6, <2>7, <2>8, <2>9, <2>10, <2>11, TaskKeeps DEF RpcRest
<1>4. CASE ~ Connected
  <2>1. Abort(t) /\ UNCHANGED <<channels, added, asked>>
    BY <1>4 DEF CallSubscribe
  <2>2. added = [added EXCEPT ![t] = {}]
    BY <1>1, AddedElsewhere DEF RpcInv, Pending
  <2>. QED  BY <1>1, <1>4, <2>1, <2>2, AbortKeeps
<1>. QED  BY <1>3, <1>4

\* A call that leaves the channels as they are has been sent, or was refused at
\* once as the socket is closed.
LEMMA CalledKeeps ==
  ASSUME AdapterInv, SocketInv, RpcInv, NEW t \in Tasks, Runs(t), First(t).op # "subscribe", RpcRest,
         NEW outcome \in {"answered", "refused", "late", "closed"},
         calling' = [calling EXCEPT ![t] = outcome],
         UNCHANGED <<requests, timerVars, channels, added, astray, jobs>>,
         DOMAIN asked' = DOMAIN asked,
         Connected =>
           \/ asked' = asked
           \/ First(t).op = "replay" /\ asked'[ws] = asked[ws] \cup First(t).about
           \/ First(t).op = "unsubscribe" /\ asked'[ws] = asked[ws] \ First(t).about,
         Connected /\ First(t).op = "replay" =>
           outcome \in {"refused", "closed"} \/ First(t).about \subseteq asked'[ws]
  PROVE  SocketInv' /\ RpcInv'
<1>1. /\ ~ Idle(t) /\ calling[t] = "no" /\ First(t) = jobs[t][1] /\ 1 \in DOMAIN jobs[t]
      /\ added[t] = {} /\ UNCHANGED planned
  BY FirstOfJob, AddedElsewhere DEF Runs, RpcInv, JobInv, RpcRest, Pending
<1>2. SocketInv' /\ Connected' = Connected /\ ws' = ws /\ sock' = sock
  BY RestKeeps
<1>3. JobInv'
  <2>1. channels' \subseteq Things
    BY DEF RpcInv, JobInv, JobTypes
  <2>. QED  BY <1>1, <1>2, <2>1, JobWaits DEF RpcInv
<1>4. OnlyTask(t) /\ jobs'[t] = jobs[t] /\ calling'[t] = outcome /\ added'[t] = {}
  BY <1>1 DEF OnlyTask, RpcInv, JobInv, JobTypes
<1>5. \A x \in planned : SubscribesBy(t, x) => x \in channels' \cup astray' \/ SubscribesBy(t, x)'
  BY <1>1, <1>4 DEF SubscribesBy, Ahead
<1>6. Steady' => Steady /\ ws' = ws
  BY <1>2 DEF Steady, timerVars
<1>7. Steady' => \A x \in channels' : SeenTo(t, x)' \/ (x \in channels /\ ~ SeenTo(t, x))
  <2>1. SUFFICES ASSUME Connected, NEW x \in channels, SeenTo(t, x)
                 PROVE  SeenTo(t, x)'
    BY <1>6 DEF Steady
  <2>2. CASE ReplaysBy(t, x)
    <3>1. PICK n \in DOMAIN jobs[t] : jobs[t][n].op = "replay" /\ x \in jobs[t][n].about
      BY <2>2 DEF ReplaysBy
    <3>2. CASE n = 1 /\ outcome \notin {"refused", "closed"}
      BY <1>1, <1>2, <2>1, <3>1, <3>2 DEF SeenTo
    <3>3. CASE n # 1 \/ outcome \in {"refused", "closed"}
      BY <1>1, <1>4, <3>1, <3>3 DEF SeenTo, ReplaysBy
    <3>. QED  BY <3>2, <3>3
  <2>3. ~ LeavesBy(t, x)
    BY <1>1 DEF LeavesBy, Pending
  <2>4. CASE x \in asked[ws]
    <3>1. CASE First(t).op = "unsubscribe" /\ x \in First(t).about
      <4>1. First(t)' = First(t) /\ ~ Idle(t)' /\ Pending(t)'
        BY <1>1, <1>4 DEF First, Idle, Pending
      <4>. QED  BY <3>1, <4>1 DEF SeenTo, LeavesBy
    <3>2. CASE ~ (First(t).op = "unsubscribe" /\ x \in First(t).about)
      BY <1>2, <2>1, <2>4, <3>2 DEF SeenTo
    <3>. QED  BY <3>1, <3>2
  <2>. QED  BY <2>1, <2>2, <2>3, <2>4 DEF SeenTo
<1>. QED  BY <1>1, <1>2, <1>3, <1>4, <1>5, <1>6, <1>7, TaskKeeps

\* A job goes on with its next step.
LEMMA GoesOnKeeps ==
  ASSUME AdapterInv, SocketInv, RpcInv, NEW t \in Tasks, ~ Idle(t), RpcRest, Next1(t),
         UNCHANGED <<requests, timerVars, asked>>,
         added' = [added EXCEPT ![t] = {}],
         First(t).op \in {"subscribe", "replay"} => calling[t] = "answered",
         \/ First(t).op # "unsubscribe" /\ UNCHANGED <<channels, astray>>
         \/ First(t).op = "unsubscribe" /\ ~ Connected /\ UNCHANGED <<channels, astray>>
         \/ /\ First(t).op = "unsubscribe"
            /\ channels' = channels \ First(t).about
            /\ astray' = astray \cup (First(t).about \cap planned)
  PROVE  SocketInv' /\ RpcInv'
<1>1. /\ First(t) = jobs[t][1] /\ 1 \in DOMAIN jobs[t] /\ UNCHANGED planned
      /\ jobs'[t] = Tail(jobs[t]) /\ calling'[t] = "no" /\ added'[t] = {}
  BY FirstOfJob DEF RpcInv, JobInv, JobTypes, RpcRest, Next1
<1>2. SocketInv' /\ Connected' = Connected /\ ws' = ws /\ sock' = sock
  BY RestKeeps
<1>3. JobInv'
  <2>1. channels' \subseteq Things
    BY DEF RpcInv, JobInv, JobTypes
  <2>. QED  BY <1>1, <1>2, <2>1, JobGoesOn DEF RpcInv, Next1
<1>4. OnlyTask(t)
  BY DEF OnlyTask, RpcInv, JobInv, JobTypes, Next1
<1>5. \A n \in DOMAIN jobs[t] : n # 1 => n - 1 \in DOMAIN jobs'[t] /\ jobs'[t][n - 1] = jobs[t][n]
  BY <1>1 DEF RpcInv, JobInv, JobTypes
<1>6. \A x \in planned : SubscribesBy(t, x) => x \in channels' \cup astray' \/ SubscribesBy(t, x)'
  <2>1. SUFFICES ASSUME NEW x, SubscribesBy(t, x)
                 PROVE  SubscribesBy(t, x)'
    OBVIOUS
  <2>2. PICK n \in DOMAIN jobs[t] : Ahead(t, n) /\ jobs[t][n].op = "subscribe" /\ x \in jobs[t][n].about
    BY <2>1 DEF SubscribesBy
  <2>3. n # 1
    BY <1>1, <2>2 DEF Ahead, Pending
  <2>. QED  BY <1>1, <1>5, <2>2, <2>3 DEF SubscribesBy, Ahead, Pending
<1>7. Steady' => Steady /\ ws' = ws
  BY <1>2 DEF Steady, timerVars
<1>8. Steady' => \A x \in channels' : SeenTo(t, x)' \/ (x \in channels /\ ~ SeenTo(t, x))
  <2>1. SUFFICES ASSUME Connected, NEW x \in channels', SeenTo(t, x)
                 PROVE  SeenTo(t, x)'
    BY <1>7 DEF Steady
  <2>2. CASE ReplaysBy(t, x)
    <3>1. PICK n \in DOMAIN jobs[t] : /\ n = 1 => calling[t] \notin {"answered", "late"}
                                      /\ jobs[t][n].op = "replay" /\ x \in jobs[t][n].about
      BY <2>2 DEF ReplaysBy
    <3>2. n # 1
      BY <1>1, <3>1
    <3>. QED  BY <1>1, <1>5, <3>1, <3>2 DEF SeenTo, ReplaysBy
  <2>3. ~ LeavesBy(t, x)
    <3>1. ~ (First(t).op = "unsubscribe" /\ x \in First(t).about)
      BY <2>1
    <3>2. ~ (x \in added[t] /\ calling[t] = "refused")
      BY DEF RpcInv, JobInv, AddedInv
    <3>. QED  BY <3>1, <3>2 DEF LeavesBy
  <2>. QED  BY <1>2, <2>1, <2>2, <2>3 DEF SeenTo
<1>9. \A x \in planned : x \in channels \cup astray => x \in channels' \cup astray'
  OBVIOUS
<1>. QED  BY <1>1, <1>2, <1>3, <1>4, <1>6, <1>7, <1>8, <1>9, TaskKeeps

\* CallUnsubscribe of the transport keeps its invariant.
LEMMA CallUnsubscribeKeeps ==
  ASSUME AdapterInv, SocketInv, RpcInv, NEW t \in Tasks, CallUnsubscribe(t)
  PROVE  SocketInv' /\ RpcInv'
<1>1. /\ Runs(t) /\ First(t).op = "unsubscribe" /\ ~ Idle(t) /\ calling[t] = "no"
      /\ RpcRest /\ UNCHANGED <<requests, timerVars, channels, added, astray>>
  BY DEF CallUnsubscribe, Runs, RpcRest, adapterVars
<1>2. CASE Connected
  <2>1. Sent(t, "unsubscribe", First(t).about) /\ UNCHANGED jobs
    BY <1>2 DEF CallUnsubscribe
  <2>2. ~ Asks("unsubscribe")
    BY DEF Asks
  <2>3. \E outcome \in {"answered", "refused", "late", "closed"} :
          /\ calling' = [calling EXCEPT ![t] = outcome]
          /\ DOMAIN asked' = DOMAIN asked
          /\ asked' = asked \/ asked'[ws] = asked[ws] \ First(t).about
    BY <1>2, <2>1, <2>2, SentKeeps
  <2>. QED  BY <1>1, <2>1, <2>3, CalledKeeps
<1>3. CASE ~ Connected
  <2>1. Next1(t) /\ UNCHANGED asked
    BY <1>3 DEF CallUnsubscribe
  <2>2. added = [added EXCEPT ![t] = {}]
    BY <1>1, AddedElsewhere DEF RpcInv
  <2>. QED  BY <1>1, <1>3, <2>1, <2>2, GoesOnKeeps
<1>. QED  BY <1>2, <1>3

\* CallReplay of the transport keeps its invariant.
LEMMA CallReplayKeeps ==
  ASSUME AdapterInv, SocketInv, RpcInv, NEW t \in Tasks, CallReplay(t)
  PROVE  SocketInv' /\ RpcInv'
<1>1. /\ Runs(t) /\ First(t).op = "replay" /\ ~ Idle(t) /\ calling[t] = "no"
      /\ RpcRest /\ UNCHANGED <<channels, added>>
  BY DEF CallReplay, Runs, RpcRest
<1>2. CASE Connected
  <2>1. Sent(t, "replay", First(t).about) /\ UNCHANGED <<requests, timerVars, jobs, astray>>
    BY <1>2 DEF CallReplay
  <2>2. Asks("replay")
    BY DEF Asks
  <2>3. \E outcome \in {"answered", "refused", "late", "closed"} :
          /\ calling' = [calling EXCEPT ![t] = outcome]
          /\ DOMAIN asked' = DOMAIN asked
          /\ asked' = asked \/ asked'[ws] = asked[ws] \cup First(t).about
          /\ outcome \in {"refused", "closed"} \/ First(t).about \subseteq asked'[ws]
    BY <1>2, <2>1, <2>2, SentKeeps
  <2>. QED  BY <1>1, <2>1, <2>3, CalledKeeps
<1>3. CASE ~ Connected
  <2>1. Abort(t) /\ UNCHANGED asked
    BY <1>3 DEF CallReplay
  <2>2. added = [added EXCEPT ![t] = {}]
    BY <1>1, AddedElsewhere DEF RpcInv
  <2>. QED  BY <1>1, <1>3, <2>1, <2>2, AbortKeeps
<1>. QED  BY <1>2, <1>3

\* CallRead of the transport keeps its invariant.
LEMMA CallReadKeeps ==
  ASSUME AdapterInv, SocketInv, RpcInv, NEW t \in Tasks, NEW op \in {"tickers", "instruments", "details"},
         CallRead(t, op)
  PROVE  SocketInv' /\ RpcInv'
<1>1. /\ Runs(t) /\ First(t).op = op /\ RpcRest
      /\ UNCHANGED <<requests, timerVars, channels, added, astray, jobs>>
  BY DEF CallRead, RpcRest, adapterVars
<1>2. ~ Asks(op)
  BY DEF Asks
<1>3. \E outcome \in {"answered", "refused", "late", "closed"} :
        calling' = [calling EXCEPT ![t] = outcome] /\ asked' = asked
  BY <1>1, <1>2, SentKeeps DEF CallRead
<1>. QED  BY <1>1, <1>3, CalledKeeps

\* SettleSubscribe of the transport keeps its invariant.
LEMMA SettleSubscribeKeeps ==
  ASSUME AdapterInv, SocketInv, RpcInv, NEW t \in Tasks, SettleSubscribe(t)
  PROVE  SocketInv' /\ RpcInv'
<1>1. /\ ~ Idle(t) /\ First(t).op = "subscribe" /\ RpcRest /\ UNCHANGED asked
      /\ added' = [added EXCEPT ![t] = {}]
      /\ calling[t] \in {"answered", "refused", "late", "closed"}
  BY DEF SettleSubscribe, Settles, RpcRest, RpcInv, JobInv, JobTypes
<1>2. CASE calling[t] = "answered"
  BY <1>1, <1>2, GoesOnKeeps DEF SettleSubscribe
<1>3. CASE calling[t] # "answered"
  <2>1. channels' = channels \ added[t] \/ (channels' = channels /\ calling[t] = "closed")
    BY <1>1, <1>3 DEF SettleSubscribe
  <2>. QED  BY <1>1, <1>3, <2>1, AbortKeeps DEF SettleSubscribe
<1>. QED  BY <1>2, <1>3

\* SettleUnsubscribe of the transport keeps its invariant.
LEMMA SettleUnsubscribeKeeps ==
  ASSUME AdapterInv, SocketInv, RpcInv, NEW t \in Tasks, SettleUnsubscribe(t)
  PROVE  SocketInv' /\ RpcInv'
<1>1. /\ ~ Idle(t) /\ First(t).op = "unsubscribe" /\ RpcRest
      /\ UNCHANGED <<requests, timerVars, asked, added>> /\ Next1(t)
  BY DEF SettleUnsubscribe, Settles, RpcRest, adapterVars
<1>2. added = [added EXCEPT ![t] = {}]
  BY <1>1, AddedElsewhere DEF RpcInv
<1>. QED  BY <1>1, <1>2, GoesOnKeeps DEF SettleUnsubscribe

\* SettleReplay of the transport keeps its invariant.
LEMMA SettleReplayKeeps ==
  ASSUME AdapterInv, SocketInv, RpcInv, NEW t \in Tasks, SettleReplay(t)
  PROVE  SocketInv' /\ RpcInv'
<1>1. /\ ~ Idle(t) /\ First(t).op = "replay" /\ RpcRest
      /\ UNCHANGED <<asked, channels, added>>
  BY DEF SettleReplay, Settles, RpcRest
<1>2. added = [added EXCEPT ![t] = {}]
  BY <1>1, AddedElsewhere DEF RpcInv
<1>3. t \notin {user, market}
  BY <1>1, WhoDoes, TasksDiffer DEF RpcInv
<1>4. CASE calling[t] = "answered"
  BY <1>1, <1>2, <1>4, GoesOnKeeps DEF SettleReplay
<1>5. CASE calling[t] # "answered"
  BY <1>1, <1>2, <1>3, <1>5, AbortKeeps DEF SettleReplay
<1>. QED  BY <1>4, <1>5

\* When events come, what is not sent waits behind a call.
LEMMA QuietJobs ==
  ASSUME JobInv, Quiet, NEW t \in Tasks
  PROVE  /\ Idle(t) => calling[t] = "no"
         /\ ~ Idle(t) => Pending(t) /\ calling[t] # "closed"
BY DEF JobInv, Quiet, Pending

\* The job of t is now to ask for all channels.
ReplaysAll(t, steps) ==
  /\ jobs' = [jobs EXCEPT ![t] = steps]
  /\ steps \in Seq(JobStep)
  /\ \A n \in DOMAIN steps : steps[n].op = "replay"
  /\ \A x \in channels : \E n \in DOMAIN steps : x \in steps[n].about

\* The resubscription of a socket that opens is about every channel.
LEMMA OpenedReplays ==
  ASSUME RpcInv, NEW s \in Sockets, Opened(s)
  PROVE  \E steps : ReplaysAll(replay(s), steps)
<1>. DEFINE t == replay(s)
<1>1. channels \subseteq Things
  BY DEF RpcInv, JobInv, JobTypes
<1>2. \A about \in SUBSET channels : Step("replay", about) \in JobStep
  BY <1>1 DEF Step, JobStep, Ops
<1>5. \A about \in SUBSET channels :
        /\ Step("replay", about) \in JobStep
        /\ Step("replay", about).op = "replay" /\ Step("replay", about).about = about
  BY <1>2 DEF Step
<1>3. CASE Cardinality(channels) <= BatchSize
  <2>1. jobs' = [jobs EXCEPT ![t] = Just("replay", channels)]
    BY <1>3 DEF Opened, Begin
  <2>2. CASE channels = {}
    <3>1. Just("replay", channels) = <<>>
      BY <2>2 DEF Just
    <3>2. ReplaysAll(t, <<>>)
      <4>1. jobs' = [jobs EXCEPT ![t] = <<>>]
        BY <2>1, <3>1
      <4>2. <<>> \in Seq(JobStep)
        OBVIOUS
      <4>. QED  BY <2>2, <4>1, <4>2 DEF ReplaysAll
    <3>. QED  BY <3>2
  <2>3. CASE channels # {}
    <3>1. Just("replay", channels) = <<Step("replay", channels)>>
      BY <2>3 DEF Just
    <3>2. ReplaysAll(t, <<Step("replay", channels)>>)
      <4>1. jobs' = [jobs EXCEPT ![t] = <<Step("replay", channels)>>]
        BY <2>1, <3>1
      <4>. QED  BY <1>5, <4>1 DEF ReplaysAll
    <3>. QED  BY <3>2
  <2>. QED  BY <2>2, <2>3
<1>4. CASE ~ (Cardinality(channels) <= BatchSize)
  <2>1. PICK batch \in SUBSET channels :
          jobs' = [jobs EXCEPT ![t] = <<Step("replay", batch), Step("replay", channels \ batch)>>]
    BY <1>4 DEF Opened, Begin
  <2>2. ReplaysAll(t, <<Step("replay", batch), Step("replay", channels \ batch)>>)
    BY <1>5, <2>1 DEF ReplaysAll
  <2>. QED  BY <2>2
<1>. QED  BY <1>3, <1>4

\* Opened of the transport keeps its invariant.
LEMMA OpenedKeeps ==
  ASSUME FeedAssumption, SocketInv, RpcInv, NEW s \in Sockets, Opened(s)
  PROVE  SocketInv' /\ RpcInv'
<1>. DEFINE t == replay(s)
<1>0. PICK steps : ReplaysAll(t, steps)
  BY OpenedReplays
<1>1. /\ jobs' = [jobs EXCEPT ![t] = steps] /\ steps \in Seq(JobStep)
      /\ \A n \in DOMAIN steps : steps[n].op = "replay"
      /\ \A x \in channels : \E n \in DOMAIN steps : x \in steps[n].about
  BY <1>0 DEF ReplaysAll
<1>2. /\ Quiet /\ sock[s] = "connecting" /\ sock' = [sock EXCEPT ![s] = "open"]
      /\ UNCHANGED <<requests, matching, trading, ended, listed, ws, timer, strays, asked, planned,
                     channels, calling, added, astray>>
  BY DEF Opened, Opens, adapterVars
<1>3. t \in Tasks /\ Idle(t) /\ calling[t] = "no" /\ added[t] = {}
  BY <1>2, TasksDiffer, QuietJobs DEF RpcInv, JobInv, ReplayInv, Open, AddedInv
<1>4. jobs'[t] = steps /\ \A r \in Tasks \ {t} : jobs'[r] = jobs[r]
  BY <1>1, <1>3 DEF RpcInv, JobInv, JobTypes
<1>5. SocketInv'
  BY <1>2 DEF SocketInv
<1>6. sock'[s] = "open" /\ \A r \in Sockets \ {s} : sock'[r] = sock[r]
  BY <1>2 DEF SocketInv
<1>7. t # user /\ t # market
  BY TasksDiffer
<1>8. JobInv'
  <2>1. JobTypes'
    BY <1>1, <1>2, <1>3 DEF RpcInv, JobInv, JobTypes
  <2>2. AddedInv'
    BY <1>2, <1>3, <1>4 DEF RpcInv, JobInv, AddedInv, Idle, First, Pending
  <2>3. ReplayInv'
    <3>1. SUFFICES ASSUME NEW r \in Sockets
                   PROVE  /\ ~ Idle(replay(r))' /\ calling'[replay(r)] # "closed" => Open(r)'
                          /\ \A n \in DOMAIN jobs'[replay(r)] : jobs'[replay(r)][n].op = "replay"
      BY DEF ReplayInv
    <3>2. CASE r = s
      BY <1>1, <1>4, <1>6, <3>2 DEF Open
    <3>3. CASE r # s
      <4>1. jobs'[replay(r)] = jobs[replay(r)] /\ calling'[replay(r)] = calling[replay(r)] /\ sock'[r] = sock[r]
        BY <1>2, <1>4, <1>6, <3>3, TasksDiffer
      <4>. QED  BY <4>1 DEF RpcInv, JobInv, ReplayInv, Idle, Open
    <3>. QED  BY <3>2, <3>3
  <2>4. StepInv'
    BY <1>4, <1>7, TasksDiffer DEF RpcInv, JobInv, StepInv
  <2>5. \A r \in Tasks : Idle(r)' => ~ Pending(r)'
    BY <1>2, <1>3, <1>4 DEF RpcInv, JobInv, Idle, Pending
  <2>6. ~ Idle(user)' => ~ Free'
    BY <1>2, <1>4, <1>7, TasksDiffer DEF RpcInv, JobInv, Idle, Free
  <2>. QED  BY <2>1, <2>2, <2>3, <2>4, <2>5, <2>6 DEF JobInv
<1>9. PlannedIsKept'
  <2>1. SUFFICES ASSUME NEW x \in planned, x \notin channels, x \notin astray
                 PROVE  \E r \in Tasks : SubscribesBy(r, x)'
    BY <1>2 DEF PlannedIsKept, ToSubscribe
  <2>2. PICK r \in Tasks : SubscribesBy(r, x)
    BY <2>1 DEF RpcInv, PlannedIsKept, ToSubscribe
  <2>3. r # t
    BY <1>3, <2>2 DEF SubscribesBy, Idle
  <2>. QED  BY <1>2, <1>4, <2>2, <2>3 DEF SubscribesBy, Ahead, Pending
<1>10. ChannelIsStreamed'
  <2>1. SUFFICES ASSUME Steady', NEW x \in channels
                 PROVE  \E r \in Tasks : SeenTo(r, x)'
    BY <1>2 DEF ChannelIsStreamed
  <2>2. CASE ws = s
    <3>1. PICK n \in DOMAIN steps : x \in steps[n].about
      BY <1>1
    <3>. QED  BY <1>1, <1>2, <1>3, <1>4, <3>1 DEF SeenTo, ReplaysBy
  <2>3. CASE ws # s
    <3>1. Steady
      BY <1>2, <1>6, <2>1, <2>3 DEF Steady, Connected, Open, SocketInv
    <3>2. PICK r \in Tasks : SeenTo(r, x)
      BY <3>1 DEF RpcInv, ChannelIsStreamed
    <3>3. CASE r # t
      BY <1>2, <1>4, <3>2, <3>3 DEF SeenTo, ReplaysBy, LeavesBy, Idle, First, Pending
    <3>4. CASE r = t
      BY <1>2, <1>3, <3>2, <3>4 DEF SeenTo, ReplaysBy, LeavesBy, Idle
    <3>. QED  BY <3>3, <3>4
  <2>. QED  BY <2>2, <2>3
<1>. QED  BY <1>5, <1>8, <1>9, <1>10 DEF RpcInv

\* Every pending call is rejected, whatever task has made it.
LEMMA AllClosedKeeps ==
  ASSUME SocketInv, RpcInv, Quiet, AllClosed, NEW s \in Sockets,
         sock' = [sock EXCEPT ![s] = "none"], asked' = [asked EXCEPT ![s] = {}], timer',
         UNCHANGED <<adapterVars, ws, planned, channels, jobs, added, astray>>
  PROVE  SocketInv' /\ RpcInv'
<1>1. SocketInv'
  BY DEF SocketInv
<1>2. \A t \in Tasks : /\ Idle(t) => calling'[t] = "no"
                       /\ ~ Idle(t) => calling'[t] = "closed" /\ Pending(t)
  BY QuietJobs DEF RpcInv, AllClosed
<1>3. JobInv'
  <2>1. JobTypes'
    BY DEF RpcInv, JobInv, JobTypes, AllClosed
  <2>2. AddedInv'
    BY <1>2 DEF RpcInv, JobInv, AddedInv, Idle, First, Pending
  <2>3. ReplayInv'
    BY <1>2, TasksDiffer DEF RpcInv, JobInv, ReplayInv, Idle
  <2>4. StepInv'
    BY DEF RpcInv, JobInv, StepInv
  <2>5. \A r \in Tasks : Idle(r)' => ~ Pending(r)'
    BY <1>2 DEF Idle, Pending
  <2>6. ~ Idle(user)' => ~ Free'
    BY DEF RpcInv, JobInv, Idle, Free, adapterVars
  <2>. QED  BY <2>1, <2>2, <2>3, <2>4, <2>5, <2>6 DEF JobInv
<1>4. PlannedIsKept'
  <2>1. SUFFICES ASSUME NEW x \in planned, x \notin channels, x \notin astray
                 PROVE  \E r \in Tasks : SubscribesBy(r, x)'
    BY DEF PlannedIsKept, ToSubscribe
  <2>2. PICK r \in Tasks : SubscribesBy(r, x)
    BY <2>1 DEF RpcInv, PlannedIsKept, ToSubscribe
  <2>3. ~ Idle(r)
    BY <2>2 DEF SubscribesBy, Idle
  <2>. QED  BY <1>2, <2>2, <2>3 DEF SubscribesBy, Ahead, Pending
<1>5. ChannelIsStreamed'
  BY DEF ChannelIsStreamed, Steady
<1>. QED  BY <1>1, <1>3, <1>4, <1>5 DEF RpcInv

\* Failed of the transport keeps its invariant.
LEMMA FailedKeeps ==
  ASSUME SocketInv, RpcInv, NEW s \in Sockets, Failed(s) \/ Closed(s)
  PROVE  SocketInv' /\ RpcInv'
BY AllClosedKeeps DEF Failed, Closed, Fails, Drops, Scheduled

\* Reconnect of the transport keeps its invariant.
LEMMA ReconnectKeeps ==
  ASSUME FeedAssumption, SocketInv, RpcInv, Reconnect
  PROVE  SocketInv' /\ RpcInv'
<1>1. Dialled /\ UNCHANGED <<adapterVars, asked, planned, channels, jobs, calling, added, astray>>
  BY DialTakesFree DEF Reconnect, rpcVars
<1>2. SocketInv' /\ ~ Connected'
  BY <1>1 DEF Dialled, SocketInv, Connected, Open
<1>3. \A s \in Sockets : Open(s) => Open(s)'
  BY <1>1 DEF Dialled, SocketInv, Open
<1>4. JobInv'
  <2>1. ReplayInv'
    BY <1>1, <1>3 DEF RpcInv, JobInv, ReplayInv, Idle
  <2>. QED  BY <1>1, <2>1 DEF RpcInv, JobInv, JobTypes, AddedInv, StepInv, Idle, First, Pending, Free, adapterVars
<1>5. PlannedIsKept'
  BY <1>1 DEF RpcInv, PlannedIsKept, ToSubscribe, SubscribesBy, Ahead, Pending
<1>6. ChannelIsStreamed'
  BY <1>2 DEF ChannelIsStreamed, Steady
<1>. QED  BY <1>2, <1>4, <1>5, <1>6 DEF RpcInv

\* Nothing of the transport changes.
LEMMA RpcSame ==
  ASSUME SocketInv, RpcInv, UNCHANGED <<timerVars, socketVars, asked, rpcVars>>,
         requests' = requests \/ Idle(user), planned' \subseteq planned
  PROVE  SocketInv' /\ RpcInv'
<1>1. UNCHANGED <<timer, strays, sock, ws, asked, channels, jobs, calling, added, astray>>
  BY DEF timerVars, socketVars, rpcVars
<1>2. SocketInv'
  BY <1>1 DEF SocketInv
<1>3. JobInv'
  BY <1>1 DEF RpcInv, JobInv, JobTypes, AddedInv, ReplayInv, StepInv, Idle, First, Pending, Free, Open
<1>4. PlannedIsKept'
  BY <1>1 DEF RpcInv, PlannedIsKept, ToSubscribe, SubscribesBy, Ahead, Pending
<1>5. ChannelIsStreamed'
  BY <1>1 DEF RpcInv, ChannelIsStreamed, Steady, Connected, Open, SeenTo, ReplaysBy, LeavesBy, Idle, First, Pending
<1>. QED  BY <1>2, <1>3, <1>4, <1>5 DEF RpcInv

\* Market of the transport keeps its invariant.
LEMMA MarketKeeps ==
  ASSUME SocketInv, RpcInv, Market
  PROVE  SocketInv' /\ RpcInv'
<1>1. UNCHANGED requests
  BY DEF Market, Lists, Expires
<1>. QED  BY <1>1, RpcSame DEF Market

\* Every step of the transport keeps its invariant.
LEMMA TransportKeeps ==
  ASSUME FeedAssumption, AdapterInv, SocketInv, RpcInv, Transport
  PROVE  SocketInv' /\ RpcInv'
<1>1. ASSUME NEW t \in Tasks,
             \/ CallSubscribe(t) \/ CallUnsubscribe(t) \/ CallReplay(t)
             \/ SettleSubscribe(t) \/ SettleUnsubscribe(t) \/ SettleReplay(t)
      PROVE  SocketInv' /\ RpcInv'
  BY <1>1, CallSubscribeKeeps, CallUnsubscribeKeeps, CallReplayKeeps,
     SettleSubscribeKeeps, SettleUnsubscribeKeeps, SettleReplayKeeps
<1>2. ASSUME NEW s \in Sockets, Opened(s) \/ Failed(s) \/ Closed(s)
      PROVE  SocketInv' /\ RpcInv'
  BY <1>2, OpenedKeeps, FailedKeeps
<1>. QED  BY <1>1, <1>2, ReconnectKeeps, MarketKeeps DEF Transport

\* Job t, the coordinator's or the market's, gets new steps.
LEMMA BegunKeeps ==
  ASSUME SocketInv, RpcInv, NEW t \in {user, market}, NEW steps \in Seq(JobStep),
         jobs' = [jobs EXCEPT ![t] = steps],
         calling' = [calling EXCEPT ![t] = "no"] \/ (calling' = calling /\ calling[t] = "no"),
         Idle(t) \/ First(t).op \notin {"subscribe", "unsubscribe"},
         \A n \in DOMAIN steps : /\ steps[n].op # "replay"
                                 /\ steps[n].op \in {"instruments", "details"} => Len(steps) = 1,
         UNCHANGED <<timerVars, socketVars, asked, channels, added, astray>>,
         planned' \subseteq Things,
         \A x \in planned' : \/ x \in planned /\ ~ SubscribesBy(t, x)
                             \/ \E n \in DOMAIN steps : steps[n].op = "subscribe" /\ x \in steps[n].about,
         requests' = requests \/ Idle(user), t = user => ~ Free'
  PROVE  SocketInv' /\ RpcInv'
<1>1. /\ jobs'[t] = steps /\ calling'[t] = "no" /\ added[t] = {} /\ t \in Tasks
      /\ \A r \in Tasks \ {t} : jobs'[r] = jobs[r] /\ calling'[r] = calling[r]
      /\ UNCHANGED <<timer, strays, sock, ws>>
  BY TasksDiffer, AddedElsewhere DEF RpcInv, JobInv, JobTypes, timerVars, socketVars
<1>2. SocketInv'
  BY <1>1 DEF SocketInv
<1>3. JobInv'
  <2>1. JobTypes'
    BY <1>1 DEF RpcInv, JobInv, JobTypes
  <2>2. AddedInv'
    BY <1>1 DEF RpcInv, JobInv, AddedInv, Idle, First, Pending
  <2>3. ReplayInv'
    BY <1>1, TasksDiffer DEF RpcInv, JobInv, ReplayInv, Idle, Open
  <2>4. StepInv'
    BY <1>1, TasksDiffer DEF RpcInv, JobInv, StepInv
  <2>5. \A r \in Tasks : Idle(r)' => ~ Pending(r)'
    BY <1>1 DEF RpcInv, JobInv, Idle, Pending
  <2>6. ~ Idle(user)' => ~ Free'
    BY <1>1, TasksDiffer DEF RpcInv, JobInv, Idle, Free
  <2>. QED  BY <2>1, <2>2, <2>3, <2>4, <2>5, <2>6 DEF JobInv
<1>4. PlannedIsKept'
  <2>1. SUFFICES ASSUME NEW x \in planned', x \notin channels, x \notin astray
                 PROVE  \E r \in Tasks : SubscribesBy(r, x)'
    BY DEF PlannedIsKept, ToSubscribe
  <2>2. CASE x \in planned /\ ~ SubscribesBy(t, x)
    <3>1. PICK r \in Tasks : SubscribesBy(r, x)
      BY <2>1, <2>2 DEF RpcInv, PlannedIsKept, ToSubscribe
    <3>. QED  BY <1>1, <2>2, <3>1 DEF SubscribesBy, Ahead, Pending
  <2>3. CASE \E n \in DOMAIN steps : steps[n].op = "subscribe" /\ x \in steps[n].about
    BY <1>1, <2>3 DEF SubscribesBy, Ahead, Pending
  <2>. QED  BY <2>2, <2>3
<1>5. ChannelIsStreamed'
  <2>1. SUFFICES ASSUME Steady, NEW x \in channels
                 PROVE  \E r \in Tasks : SeenTo(r, x)'
    BY <1>1 DEF ChannelIsStreamed, Steady, Connected, Open
  <2>2. PICK r \in Tasks : SeenTo(r, x)
    BY <2>1 DEF RpcInv, ChannelIsStreamed
  <2>3. CASE r = t
    <3>1. ~ ReplaysBy(t, x) /\ ~ LeavesBy(t, x)
      BY <1>1 DEF RpcInv, JobInv, StepInv, ReplaysBy, LeavesBy
    <3>. QED  BY <1>1, <2>2, <2>3, <3>1 DEF SeenTo
  <2>4. CASE r # t
    BY <1>1, <2>2, <2>4 DEF SeenTo, ReplaysBy, LeavesBy, Idle, First, Pending
  <2>. QED  BY <2>3, <2>4
<1>. QED  BY <1>2, <1>3, <1>4, <1>5 DEF RpcInv

\* A step of the transport takes the steps of a job one by one, or leaves them.
TakesSteps(t) ==
  \/ jobs'[t] = jobs[t]
  \/ /\ ~ Idle(t) /\ First(t).op \in {"subscribe", "unsubscribe"}
     /\ jobs'[t] = Tail(jobs[t])
  \/ /\ ~ Idle(t) /\ First(t).op = "subscribe"
     /\ jobs'[t] = <<>> /\ Left(t, "activate") \subseteq astray'

\* What a step of the transport, or a call that reads, cannot do.
Framed ==
  /\ AdapterInv' /\ UNCHANGED planned
  /\ \A c \in Chains : requests'[c] \in {requests[c], "stuck"} /\ Due(c)' \subseteq Due(c)
  /\ \A i \in Instruments : i \in trading \/ chainOf[i] \in ended => i \in trading' \/ chainOf[i] \in ended'
  /\ \A t \in {user, market} : TakesSteps(t)
  /\ \A x : ToSubscribe(x)' => ToSubscribe(x)
  /\ \A x \in astray : x \in astray' \/ ToSubscribe(x)

\* A subscription that begins may bring back what went astray.
LEMMA AstrayOfCall ==
  ASSUME RpcInv, NEW t \in Tasks, CallSubscribe(t), NEW x \in astray
  PROVE  x \in astray' \/ ToSubscribe(x)
<1>1. Runs(t) /\ First(t).op = "subscribe" /\ 1 \in DOMAIN jobs[t] /\ First(t) = jobs[t][1]
  BY FirstOfJob DEF CallSubscribe, Runs, RpcInv, JobInv
<1>2. \A y \in First(t).about : SubscribesBy(t, y)
  BY <1>1 DEF SubscribesBy, Ahead, Runs, Pending
<1>. QED  BY <1>2 DEF CallSubscribe, Abort, ToSubscribe

\* A step of job t sends a request, goes on or ends the job.
LEMMA TaskFrames ==
  ASSUME FeedAssumption, AdapterInv, RpcInv, NEW t \in Tasks, RpcRest,
         \A x \in astray : x \in astray' \/ ToSubscribe(x),
         \/ jobs' = jobs /\ UNCHANGED requests /\ \E outcome : outcome # "no" /\ calling' = [calling EXCEPT ![t] = outcome]
         \/ Next1(t) /\ ~ Idle(t) /\ First(t).op \in {"subscribe", "unsubscribe", "replay"} /\ UNCHANGED requests
         \/ Abort(t) /\ ~ Idle(t) /\ First(t).op \in {"subscribe", "replay"}
  PROVE  Framed
<1>1. UNCHANGED <<matching, trading, ended, listed, planned>>
  BY DEF RpcRest
<1>2. \A r \in Tasks \ {t} : jobs'[r] = jobs[r] /\ calling'[r] = calling[r]
  BY DEF RpcInv, JobInv, JobTypes, Next1, Abort
<1>3. /\ requests' \in [Chains -> {"idle", "subscribing", "held", "releasing", "stuck"}]
      /\ \A c \in Chains : requests'[c] \in {requests[c], "stuck"}
  BY Aborted DEF AdapterInv
<1>4. AdapterInv' /\ \A c \in Chains : Due(c)' = Due(c)
  BY <1>1, <1>3, SameKeeps
<1>5. \A r \in {user, market} : TakesSteps(r)
  <2>1. CASE t \in {user, market}
    <3>1. ~ Idle(t) => First(t).op # "replay"
      BY <2>1, WhoDoes, TasksDiffer, FirstOfJob DEF RpcInv, JobInv, StepInv
    <3>2. TakesSteps(t)
      BY <3>1 DEF TakesSteps, Next1, Abort, RpcInv, JobInv, JobTypes
    <3>. QED  BY <1>2, <2>1, <3>2, TasksDiffer DEF TakesSteps
  <2>2. CASE t \notin {user, market}
    BY <1>2, <2>2, TasksDiffer DEF TakesSteps
  <2>. QED  BY <2>1, <2>2
<1>6. ASSUME NEW x, ToSubscribe(x)'
      PROVE  ToSubscribe(x)
  <2>1. PICK r \in Tasks : SubscribesBy(r, x)'
    BY <1>6 DEF ToSubscribe
  <2>2. CASE r # t
    BY <1>2, <2>1, <2>2 DEF ToSubscribe, SubscribesBy, Ahead, Pending
  <2>3. CASE r = t
    <3>1. PICK n \in DOMAIN jobs'[t] : (n = 1 => calling'[t] = "no") /\ jobs'[t][n].op = "subscribe" /\ x \in jobs'[t][n].about
      BY <2>1, <2>3 DEF SubscribesBy, Ahead, Pending
    <3>2. CASE jobs' = jobs /\ calling'[t] # "no"
      BY <3>1, <3>2 DEF ToSubscribe, SubscribesBy, Ahead
    <3>3. CASE Next1(t) /\ ~ Idle(t)
      <4>1. n \in DOMAIN Tail(jobs[t]) /\ jobs'[t] = Tail(jobs[t])
        BY <3>1, <3>3 DEF Next1, RpcInv, JobInv, JobTypes
      <4>2. n + 1 \in DOMAIN jobs[t] /\ jobs[t][n + 1] = jobs'[t][n] /\ n + 1 # 1
        BY <3>3, <4>1, FirstOfJob DEF RpcInv, JobInv
      <4>. QED  BY <3>1, <4>2 DEF ToSubscribe, SubscribesBy, Ahead
    <3>4. CASE Abort(t)
      BY <3>1, <3>4 DEF Abort, RpcInv, JobInv, JobTypes
    <3>5. (\E outcome : outcome # "no" /\ calling' = [calling EXCEPT ![t] = outcome]) => calling'[t] # "no"
      BY DEF RpcInv, JobInv, JobTypes
    <3>. QED  BY <3>2, <3>3, <3>4, <3>5
  <2>. QED  BY <2>2, <2>3
<1>. QED  BY <1>1, <1>3, <1>4, <1>5, <1>6 DEF Framed

\* A request that is sent has some outcome.
LEMMA SentCalls ==
  ASSUME NEW t \in Tasks, NEW op, NEW about, Sent(t, op, about)
  PROVE  \E outcome : outcome # "no" /\ calling' = [calling EXCEPT ![t] = outcome]
BY DEF Sent, Outcomes

\* A request of the transport leaves the requests and the plan alone.
LEMMA CallFrames ==
  ASSUME FeedAssumption, AdapterInv, RpcInv, NEW t \in Tasks,
         \/ CallSubscribe(t) \/ CallUnsubscribe(t) \/ CallReplay(t)
         \/ \E op \in {"tickers", "instruments", "details"} : CallRead(t, op)
  PROVE  Framed
<1>1. CASE CallSubscribe(t)
  <2>1. RpcRest /\ ~ Idle(t) /\ First(t).op = "subscribe"
    BY <1>1 DEF CallSubscribe, Runs, RpcRest
  <2>2. \A x \in astray : x \in astray' \/ ToSubscribe(x)
    BY <1>1, AstrayOfCall
  <2>3. CASE Connected
    BY <1>1, <2>1, <2>2, <2>3, SentCalls, TaskFrames DEF CallSubscribe
  <2>4. CASE ~ Connected
    BY <1>1, <2>1, <2>2, <2>4, TaskFrames DEF CallSubscribe
  <2>. QED  BY <2>3, <2>4
<1>2. CASE CallUnsubscribe(t)
  <2>1. RpcRest /\ ~ Idle(t) /\ First(t).op = "unsubscribe" /\ UNCHANGED <<requests, astray>>
    BY <1>2 DEF CallUnsubscribe, Runs, RpcRest, adapterVars
  <2>2. CASE Connected
    BY <1>2, <2>1, <2>2, SentCalls, TaskFrames DEF CallUnsubscribe
  <2>3. CASE ~ Connected
    BY <1>2, <2>1, <2>3, TaskFrames DEF CallUnsubscribe
  <2>. QED  BY <2>2, <2>3
<1>3. CASE CallReplay(t)
  <2>1. RpcRest /\ ~ Idle(t) /\ First(t).op = "replay"
    BY <1>3 DEF CallReplay, Runs, RpcRest
  <2>2. CASE Connected
    BY <1>3, <2>1, <2>2, SentCalls, TaskFrames DEF CallReplay
  <2>3. CASE ~ Connected
    <3>1. \A x \in astray : x \in astray'
      BY <1>3, <2>3 DEF CallReplay, Abort
    <3>. QED  BY <1>3, <2>1, <2>3, <3>1, TaskFrames DEF CallReplay
  <2>. QED  BY <2>2, <2>3
<1>4. ASSUME NEW op \in {"tickers", "instruments", "details"}, CallRead(t, op)
      PROVE  Framed
  <2>1. RpcRest /\ UNCHANGED <<requests, astray, jobs>>
    BY <1>4 DEF CallRead, RpcRest, adapterVars
  <2>2. \E outcome : outcome # "no" /\ calling' = [calling EXCEPT ![t] = outcome]
    BY <1>4, SentCalls DEF CallRead
  <2>. QED  BY <2>1, <2>2, TaskFrames
<1>. QED  BY <1>1, <1>2, <1>3, <1>4

\* So does an answer.
LEMMA SettleFrames ==
  ASSUME FeedAssumption, AdapterInv, RpcInv, NEW t \in Tasks,
         SettleSubscribe(t) \/ SettleUnsubscribe(t) \/ SettleReplay(t)
  PROVE  Framed
<1>1. /\ RpcRest /\ ~ Idle(t) /\ First(t).op \in {"subscribe", "unsubscribe", "replay"}
      /\ \/ Next1(t) /\ UNCHANGED requests
         \/ Abort(t) /\ First(t).op \in {"subscribe", "replay"}
      /\ \A x \in astray : x \in astray'
  BY DEF SettleSubscribe, SettleUnsubscribe, SettleReplay, Settles, RpcRest, adapterVars, Abort
<1>. QED  BY <1>1, TaskFrames

\* The steps of the sockets leave the coordinator's job and the market's alone.
LEMMA SocketFrames ==
  ASSUME FeedAssumption, AdapterInv, RpcInv,
         \/ \E s \in Sockets : Opened(s) \/ Failed(s) \/ Closed(s)
         \/ Reconnect
         \/ Market
  PROVE  Framed
<1>1. AdapterInv' /\ \A c \in Chains : requests'[c] = requests[c] /\ Due(c)' \subseteq Due(c)
  <2>1. CASE Market
    BY <2>1, ListsKeeps, ExpiresKeeps DEF Market, Lists, Expires
  <2>2. CASE ~ Market
    <3>1. UNCHANGED <<requests, matching, trading, ended, listed>>
      BY <2>2 DEF Opened, Failed, Closed, Reconnect, adapterVars
    <3>. QED  BY <3>1, SameKeeps DEF AdapterInv
  <2>. QED  BY <2>1, <2>2
<1>2. \A i \in Instruments : i \in trading \/ chainOf[i] \in ended => i \in trading' \/ chainOf[i] \in ended'
  <2>1. CASE Market
    BY <2>1 DEF Market, Lists, Expires, Of
  <2>2. CASE ~ Market
    BY <2>2 DEF Opened, Failed, Closed, Reconnect, adapterVars
  <2>. QED  BY <2>1, <2>2
<1>3. UNCHANGED <<planned, astray>>
  BY DEF Opened, Failed, Closed, Reconnect, Market, rpcVars
<1>4. \A t \in Tasks : /\ jobs'[t] = jobs[t] /\ calling'[t] \in {calling[t], "closed"}
                       \/ \A n \in DOMAIN jobs'[t] : jobs'[t][n].op = "replay"
  <2>1. ASSUME NEW s \in Sockets, Opened(s)
        PROVE  \A t \in Tasks : /\ jobs'[t] = jobs[t] /\ calling'[t] \in {calling[t], "closed"}
                                \/ \A n \in DOMAIN jobs'[t] : jobs'[t][n].op = "replay"
    <3>1. UNCHANGED calling /\ \E steps : /\ jobs' = [jobs EXCEPT ![replay(s)] = steps]
                                          /\ \A n \in DOMAIN steps : steps[n].op = "replay"
      BY <2>1, OpenedReplays DEF Opened, ReplaysAll
    <3>. QED  BY <3>1 DEF RpcInv, JobInv, JobTypes
  <2>2. ASSUME NEW s \in Sockets, Failed(s) \/ Closed(s)
        PROVE  \A t \in Tasks : jobs'[t] = jobs[t] /\ calling'[t] \in {calling[t], "closed"}
    BY <2>2, QuietJobs DEF Failed, Closed, AllClosed, RpcInv
  <2>3. CASE Reconnect \/ Market
    BY <2>3 DEF Reconnect, Market, rpcVars
  <2>. QED  BY <2>1, <2>2, <2>3
<1>5. \A t \in {user, market} : jobs'[t] = jobs[t]
  <2>1. ASSUME NEW s \in Sockets, Opened(s)
        PROVE  \A t \in {user, market} : jobs'[t] = jobs[t]
    BY <2>1, TasksDiffer DEF Opened, Begin, RpcInv, JobInv, JobTypes
  <2>2. CASE ~ \E s \in Sockets : Opened(s)
    BY <2>2 DEF Failed, Closed, Reconnect, Market, rpcVars
  <2>. QED  BY <2>1, <2>2
<1>6. ASSUME NEW x, ToSubscribe(x)'
      PROVE  ToSubscribe(x)
  <2>1. PICK t \in Tasks : \E n \in DOMAIN jobs'[t] :
          (n = 1 => calling'[t] = "no") /\ jobs'[t][n].op = "subscribe" /\ x \in jobs'[t][n].about
    BY <1>6 DEF ToSubscribe, SubscribesBy, Ahead, Pending
  <2>2. jobs'[t] = jobs[t] /\ (calling'[t] = "no" => calling[t] = "no")
    BY <1>4, <2>1
  <2>. QED  BY <2>1, <2>2 DEF ToSubscribe, SubscribesBy, Ahead, Pending
<1>. QED  BY <1>1, <1>2, <1>3, <1>5, <1>6 DEF Framed, TakesSteps

\* So does every step of the transport.
LEMMA TransportFrames ==
  ASSUME FeedAssumption, AdapterInv, RpcInv, Transport
  PROVE  Framed
BY CallFrames, SettleFrames, SocketFrames DEF Transport

\* A step, if there is something to do.
LEMMA JustDoes ==
  ASSUME NEW op \in Ops, NEW about \in SUBSET Things
  PROVE  /\ Just(op, about) \in Seq(JobStep) /\ Len(Just(op, about)) <= 1
         /\ \A n \in DOMAIN Just(op, about) : Just(op, about)[n].op = op /\ Just(op, about)[n].about = about
         /\ \A x \in about : \E n \in DOMAIN Just(op, about) : x \in Just(op, about)[n].about
         /\ Deribit!Just(op, about) = Just(op, about)
         /\ Derive!Just(op, about) = Just(op, about)
<1>1. CASE about = {}
  <2>1. Just(op, about) = <<>>
    BY <1>1 DEF Just
  <2>2. Deribit!Just(op, about) = <<>> /\ Derive!Just(op, about) = <<>>
    BY <1>1 DEF Deribit!Just, Derive!Just
  <2>3. <<>> \in Seq(JobStep) /\ Len(<<>>) = 0 /\ DOMAIN <<>> = {}
    OBVIOUS
  <2>4. \A steps : steps = <<>> =>
          /\ steps \in Seq(JobStep) /\ Len(steps) <= 1
          /\ \A n \in DOMAIN steps : steps[n].op = op /\ steps[n].about = about
          /\ \A x \in about : \E n \in DOMAIN steps : x \in steps[n].about
    BY <1>1, <2>3
  <2>. HIDE <1>1
  <2>. QED  BY <2>1, <2>2, <2>4
<1>2. CASE about # {}
  <2>. DEFINE step == [op |-> op, about |-> about]
  <2>1. Just(op, about) = <<step>>
    BY <1>2 DEF Just, Step
  <2>2. Deribit!Just(op, about) = <<step>>
    BY <1>2 DEF Deribit!Just, Deribit!Step
  <2>3. Derive!Just(op, about) = <<step>>
    BY <1>2 DEF Derive!Just, Derive!Step
  <2>4. step \in JobStep /\ step.op = op /\ step.about = about
    BY DEF JobStep
  <2>. HIDE DEF step
  <2>5. <<step>> \in Seq(JobStep) /\ Len(<<step>>) = 1 /\ <<step>>[1] = step
    BY <2>4
  <2>. QED  BY <2>1, <2>2, <2>3, <2>4, <2>5
<1>. QED  BY <1>1, <1>2

-------------------------------------------------------------------------------
(***************************************************************************)
(* Deribit.                                                                *)
(***************************************************************************)

\* Different things have different channels.
LEMMA DeribitNames ==
  /\ \A b, d, i, v : Deribit!index(b) # Deribit!ticker(i, v)
  /\ \A b, d : Deribit!index(b) = Deribit!index(d) => b = d
  /\ \A i, j, v, w : Deribit!ticker(i, v) = Deribit!ticker(j, w) => i = j /\ v = w
BY DEF Deribit!index, Deribit!ticker

\* What Deribit's client asks for.
LEMMA DeribitThings ==
  /\ \A c \in Chains : Deribit!index(baseOf[c]) \in Things
  /\ \A i \in Instruments : /\ {i} \subseteq Things
                            /\ \A v \in {"agg2", "100ms"} : Deribit!ticker(i, v) \in Things
BY DEF Things

\* The plan for instruments insts of underlying b: what it leaves marked.
LEMMA PlanForMarks ==
  ASSUME JobTypes, NEW c \in Chains, NEW insts \in SUBSET Instruments, NEW ivl \in {"agg2", "100ms"},
         Deribit!PlanFor(baseOf[c], insts, ivl)
  PROVE  /\ planned' \subseteq Things
         /\ Deribit!index(baseOf[c]) \in planned'
         /\ \A b : Deribit!index(b) \in planned => Deribit!index(b) \in planned'
         /\ \A i \in insts : Deribit!ticker(i, "agg2") \in planned' \/ Deribit!ticker(i, "100ms") \in planned'
         /\ \A i \in Instruments :
              Deribit!ticker(i, "agg2") \in planned \/ Deribit!ticker(i, "100ms") \in planned =>
                Deribit!ticker(i, "agg2") \in planned' \/ Deribit!ticker(i, "100ms") \in planned'
<1>. DEFINE up == Deribit!Upgraded(insts, ivl)
<1>1. planned' = (planned \ Deribit!Tickers(up)) \cup {Deribit!index(baseOf[c])} \cup {Deribit!ticker(i, ivl) : i \in up}
  BY DEF Deribit!PlanFor
<1>2. up \subseteq insts /\ \A i \in insts : i \in up <=> Deribit!Better(ivl, i)
  BY DEF Deribit!Upgraded
<1>3. \A i, v : Deribit!ticker(i, v) \in Deribit!Tickers(up) => i \in up
  BY DeribitNames DEF Deribit!Tickers
<1>4. \A b : Deribit!index(b) \notin Deribit!Tickers(up)
  BY DeribitNames DEF Deribit!Tickers
<1>. HIDE DEF up
<1>5. planned' \subseteq Things
  BY <1>1, <1>2, DeribitThings DEF JobTypes
<1>6. \A i \in up : Deribit!ticker(i, "agg2") \in planned' \/ Deribit!ticker(i, "100ms") \in planned'
  BY <1>1
<1>7. \A i \in insts \ up : Deribit!ticker(i, "agg2") \in planned \/ Deribit!ticker(i, "100ms") \in planned
  BY <1>2 DEF Deribit!Better
<1>8. \A i \in Instruments \ up, v \in {"agg2", "100ms"} :
        Deribit!ticker(i, v) \in planned => Deribit!ticker(i, v) \in planned'
  BY <1>1, <1>3
<1>. QED  BY <1>1, <1>2, <1>4, <1>5, <1>6, <1>7, <1>8

\* Steps that see to what has come into the plan.
SeesToPlan(steps) ==
  /\ steps \in Seq(JobStep)
  /\ \A n \in DOMAIN steps : steps[n].op \in {"subscribe", "unsubscribe"}
  /\ \A x \in planned' : x \in planned \/ \E n \in DOMAIN steps : steps[n].op = "subscribe" /\ x \in steps[n].about

\* The steps of a plan subscribe to all that the plan marks.
LEMMA PlanStepsDo ==
  ASSUME JobTypes, NEW c \in Chains, NEW insts \in SUBSET Instruments, NEW ivl \in {"agg2", "100ms"},
         Deribit!PlanFor(baseOf[c], insts, ivl)
  PROVE  SeesToPlan(Deribit!PlanSteps(baseOf[c], insts, ivl))
<1>. DEFINE up == Deribit!Upgraded(insts, ivl)
            indexes == {Deribit!index(baseOf[c])} \ planned
            worse == Deribit!Tickers(up) \cap planned
            tickers == {Deribit!ticker(i, ivl) : i \in up}
            p == Just("subscribe", indexes)
            q == Just("unsubscribe", worse)
            r == Just("subscribe", tickers)
<1>2. up \subseteq Instruments
  BY DEF Deribit!Upgraded
<1>3. \A x \in planned' : x \in planned \/ x \in indexes \/ x \in tickers
  BY DEF Deribit!PlanFor
<1>4. indexes \subseteq Things /\ worse \subseteq Things /\ tickers \subseteq Things
  BY <1>2, DeribitThings DEF JobTypes
<1>1. Deribit!PlanSteps(baseOf[c], insts, ivl) = (p \o q) \o r
  <2>1. /\ Deribit!Just("subscribe", indexes) = p
        /\ Deribit!Just("unsubscribe", worse) = q
        /\ Deribit!Just("subscribe", tickers) = r
    BY <1>4, JustDoes DEF Ops
  <2>. QED  BY <2>1 DEF Deribit!PlanSteps
<1>. HIDE DEF up, indexes, worse, tickers
<1>5. /\ p \in Seq(JobStep) /\ Len(p) <= 1
      /\ \A n \in DOMAIN p : p[n].op = "subscribe"
      /\ \A x \in indexes : \E n \in DOMAIN p : x \in p[n].about
  BY <1>4, JustDoes DEF Ops
<1>6. q \in Seq(JobStep) /\ \A n \in DOMAIN q : q[n].op = "unsubscribe"
  BY <1>4, JustDoes DEF Ops
<1>7. /\ r \in Seq(JobStep)
      /\ \A n \in DOMAIN r : r[n].op = "subscribe"
      /\ \A x \in tickers : \E n \in DOMAIN r : x \in r[n].about
  BY <1>4, JustDoes DEF Ops
<1>. HIDE DEF p, q, r
<1>8. /\ (p \o q) \o r \in Seq(JobStep)
      /\ \A n \in DOMAIN ((p \o q) \o r) : ((p \o q) \o r)[n].op \in {"subscribe", "unsubscribe"}
  BY <1>5, <1>6, <1>7
<1>9. ASSUME NEW n \in DOMAIN p
      PROVE  n \in DOMAIN ((p \o q) \o r) /\ ((p \o q) \o r)[n] = p[n]
  BY <1>5, <1>6, <1>7, <1>9
<1>10. ASSUME NEW n \in DOMAIN r
       PROVE  /\ Len(p) + Len(q) + n \in DOMAIN ((p \o q) \o r)
              /\ ((p \o q) \o r)[Len(p) + Len(q) + n] = r[n]
  BY <1>5, <1>6, <1>7, <1>10
<1>11. ASSUME NEW x \in indexes
       PROVE  \E n \in DOMAIN ((p \o q) \o r) : ((p \o q) \o r)[n].op = "subscribe" /\ x \in ((p \o q) \o r)[n].about
  BY <1>5, <1>9, <1>11
<1>12. ASSUME NEW x \in tickers
       PROVE  \E n \in DOMAIN ((p \o q) \o r) : ((p \o q) \o r)[n].op = "subscribe" /\ x \in ((p \o q) \o r)[n].about
  BY <1>7, <1>10, <1>12
<1>13. SeesToPlan((p \o q) \o r)
  BY <1>3, <1>8, <1>11, <1>12 DEF SeesToPlan
<1>. QED  BY <1>1, <1>13

\* The predicates and actions of the transport are the same under the instance.
LEMMA DeribitSame ==
  /\ Deribit!Quiet = Quiet /\ Deribit!Free = Free
  /\ \A t : Deribit!Idle(t) = Idle(t) /\ Deribit!First(t) = First(t) /\ Deribit!Settles(t) = Settles(t)
  /\ \A c : Deribit!Returns(c) = Returns(c) /\ Deribit!LastOf(c) = LastOf(c)
  /\ Deribit!user = user /\ Deribit!market = market /\ Deribit!Expired = Expired
BY Zenon DEF Deribit!Quiet, Deribit!Free, Deribit!Idle, Deribit!First, Deribit!Settles, Deribit!Returns,
   Deribit!LastOf, Deribit!Counted, Deribit!user, Deribit!market, Deribit!Expired, Deribit!Tasks,
   Deribit!replay, Quiet, Free, Idle, First, Settles, Returns, LastOf, Counted, user, market, Expired, Tasks,
   replay

\* When the coordinator's turn is free its job is over.
LEMMA FreeJobs ==
  ASSUME JobInv, Free
  PROVE  Idle(user) /\ calling[user] = "no"
BY TasksDiffer DEF JobInv, JobTypes, Pending

\* Subscribe of Deribit's client keeps its invariant.
LEMMA DeribitSubscribe ==
  ASSUME FeedAssumption, AdapterInv, SocketInv, DeribitInv, NEW c \in Chains, Deribit!Subscribe(c)
  PROVE  AdapterInv' /\ SocketInv' /\ DeribitInv'
<1>. DEFINE insts == Of(c, listed)
            steps == Deribit!PlanSteps(baseOf[c], insts, "100ms")
<1>1. /\ Quiet /\ Free /\ requests[c] = "idle"
      /\ matching' = [matching EXCEPT ![c] = insts] /\ SetRequest(c, "subscribing")
      /\ Deribit!PlanFor(baseOf[c], insts, "100ms")
      /\ jobs' = [jobs EXCEPT ![user] = steps]
      /\ UNCHANGED <<trading, ended, listed, timerVars, socketVars, asked, channels, calling, added, astray>>
  BY DeribitSame DEF Deribit!Subscribe, Deribit!Of, Of, Deribit!SetRequest, SetRequest, Deribit!Begin,
     Deribit!timerVars, timerVars, Deribit!socketVars, socketVars
<1>2. /\ AdapterInv'
      /\ \A d \in Chains \ {c} : Due(d)' = Due(d) /\ requests'[d] = requests[d] /\ matching'[d] = matching[d]
      /\ requests'[c] = "subscribing" /\ matching'[c] = Of(c, listed) /\ Due(c)' \subseteq Of(c, listed)
  BY <1>1, RequestKeeps
<1>3. insts \subseteq Instruments /\ JobTypes /\ JobInv
  BY DEF Of, AdapterInv, DeribitInv, RpcInv, JobInv
<1>4. Idle(user) /\ calling[user] = "no"
  BY <1>1, <1>3, FreeJobs
<1>. HIDE DEF insts
<1>5. /\ planned' \subseteq Things
      /\ Deribit!index(baseOf[c]) \in planned'
      /\ \A b : Deribit!index(b) \in planned => Deribit!index(b) \in planned'
      /\ \A i \in insts : Deribit!ticker(i, "agg2") \in planned' \/ Deribit!ticker(i, "100ms") \in planned'
      /\ \A i \in Instruments :
           Deribit!ticker(i, "agg2") \in planned \/ Deribit!ticker(i, "100ms") \in planned =>
             Deribit!ticker(i, "agg2") \in planned' \/ Deribit!ticker(i, "100ms") \in planned'
  BY <1>1, <1>3, PlanForMarks
<1>6. SeesToPlan(steps)
  BY <1>1, <1>3, PlanStepsDo
<1>. HIDE DEF steps
<1>7. ~ Free'
  BY <1>2 DEF Free
<1>8. \A x : ~ SubscribesBy(user, x)
  BY <1>4 DEF SubscribesBy, Idle
<1>9. SocketInv' /\ RpcInv'
  BY <1>1, <1>4, <1>5, <1>6, <1>7, <1>8, BegunKeeps DEF DeribitInv, SeesToPlan
<1>10. \A t \in {user, market} : Details(t)'
  <2>1. jobs'[user] = steps /\ jobs'[market] = jobs[market]
    BY <1>1, <1>3, TasksDiffer DEF JobTypes
  <2>. QED  BY <1>1, <1>6, <2>1 DEF Details, DeribitInv, SeesToPlan
<1>11. \A d \in Chains : Asked(d)' => DeribitMarks(d)'
  <2>1. ASSUME NEW d \in Chains, Asked(d)', d # c
        PROVE  DeribitMarks(d)'
    <3>1. Asked(d) /\ Due(d)' = Due(d) /\ Due(d) \subseteq Instruments
      BY <1>2, <2>1 DEF Asked, Due, Of, AdapterInv
    <3>. QED  BY <1>5, <3>1 DEF DeribitMarks, DeribitInv
  <2>2. DeribitMarks(c)'
    BY <1>2, <1>5 DEF DeribitMarks, insts
  <2>. QED  BY <2>1, <2>2
<1>. QED  BY <1>2, <1>9, <1>10, <1>11 DEF DeribitInv, Details, DeribitMarks

\* Release of Deribit's client keeps its invariant.
LEMMA DeribitRelease ==
  ASSUME FeedAssumption, AdapterInv, SocketInv, DeribitInv, NEW c \in Chains, Deribit!Release(c)
  PROVE  AdapterInv' /\ SocketInv' /\ DeribitInv'
<1>. DEFINE mine == Deribit!Tickers(matching[c]) \cup IF LastOf(c) THEN {Deribit!index(baseOf[c])} ELSE {}
            gone == mine \cap planned
            steps == Just("unsubscribe", gone)
<1>1. /\ Quiet /\ Free /\ requests[c] = "held"
      /\ SetRequest(c, "releasing") /\ planned' = planned \ mine
      /\ jobs' = [jobs EXCEPT ![user] = Deribit!Just("unsubscribe", gone)]
      /\ UNCHANGED <<matching, trading, ended, listed, timerVars, socketVars, asked, channels, calling, added, astray>>
  BY DeribitSame DEF Deribit!Release, Deribit!SetRequest, SetRequest, Deribit!Begin,
     Deribit!timerVars, timerVars, Deribit!socketVars, socketVars
<1>2. JobTypes /\ JobInv /\ gone \subseteq Things
  BY DEF DeribitInv, RpcInv, JobInv, JobTypes
<1>3. /\ steps \in Seq(JobStep) /\ jobs' = [jobs EXCEPT ![user] = steps]
      /\ \A n \in DOMAIN steps : steps[n].op = "unsubscribe"
  <2>. HIDE DEF gone
  <2>1. "unsubscribe" \in Ops
    BY DEF Ops
  <2>. QED  BY <1>1, <1>2, <2>1, JustDoes
<1>4. Idle(user) /\ calling[user] = "no"
  BY <1>1, <1>2, FreeJobs
<1>5. /\ requests' = [requests EXCEPT ![c] = "releasing"]
      /\ AdapterInv' /\ \A d \in Chains : Due(d)' = Due(d)
  BY <1>1, SameKeeps DEF SetRequest, AdapterInv
<1>6. requests'[c] = "releasing" /\ \A d \in Chains \ {c} : requests'[d] = requests[d]
  BY <1>5 DEF AdapterInv
<1>7. ~ Free'
  BY <1>6 DEF Free
<1>8. \A x : ~ SubscribesBy(user, x)
  BY <1>4 DEF SubscribesBy, Idle
<1>9. ASSUME NEW d \in Chains, Asked(d)'
      PROVE  DeribitMarks(d)'
  <2>1. d # c /\ Asked(d) /\ Counted(d)
    BY <1>6, <1>9 DEF Asked, Counted
  <2>2. Deribit!index(baseOf[d]) \notin mine
    <3>1. baseOf[d] # baseOf[c] \/ ~ LastOf(c)
      BY <2>1 DEF LastOf
    <3>. QED  BY <3>1, DeribitNames DEF Deribit!Tickers
  <2>3. \A i \in Due(d), v \in {"agg2", "100ms"} : Deribit!ticker(i, v) \notin mine
    <3>1. \A i \in Due(d) : i \notin matching[c]
      BY <2>1 DEF Due, Of, AdapterInv
    <3>. QED  BY <3>1, DeribitNames DEF Deribit!Tickers
  <2>. HIDE DEF mine
  <2>. QED  BY <1>1, <1>5, <2>1, <2>2, <2>3 DEF DeribitMarks, DeribitInv
<1>10. planned' \subseteq planned
  BY <1>1
<1>. HIDE DEF mine, gone, steps
<1>11. SocketInv' /\ RpcInv'
  BY <1>1, <1>2, <1>3, <1>4, <1>7, <1>8, <1>10, BegunKeeps DEF DeribitInv, JobTypes
<1>12. \A t \in {user, market} : Details(t)'
  <2>1. jobs'[user] = steps /\ jobs'[market] = jobs[market]
    BY <1>2, <1>3, TasksDiffer DEF JobTypes
  <2>. QED  BY <1>1, <1>3, <2>1 DEF Details, DeribitInv
<1>. QED  BY <1>5, <1>9, <1>11, <1>12 DEF DeribitInv, Details, DeribitMarks

\* Return of Deribit's client keeps its invariant.
LEMMA DeribitReturn ==
  ASSUME FeedAssumption, AdapterInv, SocketInv, DeribitInv, NEW c \in Chains, Deribit!Return(c)
  PROVE  AdapterInv' /\ SocketInv' /\ DeribitInv'
<1>1. /\ Idle(user) /\ requests[c] \in {"subscribing", "releasing"}
      /\ SetRequest(c, IF requests[c] = "subscribing" THEN "held" ELSE "idle")
      /\ matching' = IF requests[c] = "releasing" THEN [matching EXCEPT ![c] = {}] ELSE matching
      /\ UNCHANGED <<trading, ended, listed, timerVars, socketVars, asked, planned, rpcVars>>
  BY DeribitSame DEF Deribit!Return, Returns, Deribit!SetRequest, SetRequest,
     Deribit!timerVars, timerVars, Deribit!socketVars, socketVars, Deribit!rpcVars, rpcVars
<1>2. SocketInv' /\ RpcInv'
  BY <1>1, RpcSame DEF DeribitInv
<1>3. AdapterInv' /\ \A d \in Chains : Asked(d)' => Asked(d) /\ Due(d)' = Due(d)
  <2>1. CASE requests[c] = "subscribing"
    <3>1. SetRequest(c, "held") /\ UNCHANGED matching
      BY <1>1, <2>1
    <3>2. AdapterInv' /\ \A d \in Chains : Due(d)' = Due(d)
      BY <1>1, <3>1, SameKeeps DEF SetRequest, AdapterInv
    <3>. QED  BY <2>1, <3>1, <3>2 DEF SetRequest, AdapterInv, Asked
  <2>2. CASE requests[c] = "releasing"
    <3>1. SetRequest(c, "idle") /\ matching' = [matching EXCEPT ![c] = {}]
      BY <1>1, <2>2
    <3>2. /\ AdapterInv'
          /\ \A d \in Chains \ {c} : Due(d)' = Due(d) /\ requests'[d] = requests[d]
          /\ requests'[c] = "idle"
      BY <1>1, <3>1, ReturnKeeps
    <3>. QED  BY <3>2 DEF Asked
  <2>. QED  BY <1>1, <2>1, <2>2
<1>4. UNCHANGED jobs
  BY <1>1 DEF rpcVars
<1>. QED  BY <1>1, <1>2, <1>3, <1>4 DEF DeribitInv, Details, DeribitMarks

\* InstrumentOpened of Deribit's client keeps its invariant.
LEMMA DeribitOpened ==
  ASSUME FeedAssumption, AdapterInv, SocketInv, DeribitInv, NEW i \in Instruments, Deribit!InstrumentOpened(i)
  PROVE  AdapterInv' /\ SocketInv' /\ DeribitInv'
<1>. DEFINE steps == <<[op |-> "details", about |-> {i}]>>
<1>1. /\ Quiet /\ Idle(market) /\ i \in trading
      /\ jobs' = [jobs EXCEPT ![market] = steps]
      /\ UNCHANGED <<requests, matching, trading, ended, listed, timerVars, socketVars, asked, planned,
                     channels, calling, added, astray>>
  BY DeribitSame DEF Deribit!InstrumentOpened, Deribit!Begin, Deribit!Step,
     Deribit!adapterVars, Deribit!timerVars, timerVars, Deribit!socketVars, socketVars
<1>2. JobTypes /\ JobInv
  BY DEF DeribitInv, RpcInv, JobInv
<1>3. /\ steps \in Seq(JobStep) /\ Len(steps) = 1
      /\ \A n \in DOMAIN steps : steps[n].op = "details" /\ steps[n].about = {i}
  BY DeribitThings DEF JobStep, Ops
<1>4. calling[market] = "no" /\ \A x : ~ SubscribesBy(market, x)
  BY <1>1, <1>2, TasksDiffer DEF JobInv, JobTypes, Pending, SubscribesBy, Idle
<1>. HIDE DEF steps
<1>5. market # user /\ requests' = requests
  BY <1>1, TasksDiffer
<1>6. SocketInv' /\ RpcInv'
  BY <1>1, <1>2, <1>3, <1>4, <1>5, BegunKeeps DEF DeribitInv, JobTypes
<1>7. \A t \in {user, market} : Details(t)'
  <2>1. jobs'[market] = steps /\ jobs'[user] = jobs[user]
    BY <1>1, <1>2, TasksDiffer DEF JobTypes
  <2>. QED  BY <1>1, <1>3, <2>1 DEF Details, DeribitInv
<1>8. AdapterInv' /\ \A c \in Chains : Due(c)' = Due(c)
  BY <1>1, SameKeeps DEF AdapterInv
<1>. QED  BY <1>1, <1>6, <1>7, <1>8 DEF DeribitInv, DeribitMarks, Asked

\* DetailsFetched of Deribit's client keeps its invariant.
LEMMA DeribitFetched ==
  ASSUME FeedAssumption, AdapterInv, SocketInv, DeribitInv, Deribit!DetailsFetched
  PROVE  AdapterInv' /\ SocketInv' /\ DeribitInv'
<1>1. /\ ~ Idle(market) /\ First(market).op = "details"
      /\ calling' = [calling EXCEPT ![market] = "no"]
      /\ UNCHANGED <<requests, matching, trading, ended, timerVars, socketVars, asked, channels, added, astray>>
  BY DeribitSame DEF Deribit!DetailsFetched, Settles, Deribit!timerVars, timerVars, Deribit!socketVars, socketVars
<1>2. JobTypes /\ JobInv /\ market \in Tasks /\ market # user
  BY TasksDiffer DEF DeribitInv, RpcInv, JobInv
<1>3. 1 \in DOMAIN jobs[market] /\ First(market) = jobs[market][1] /\ Len(jobs[market]) = 1
  BY <1>1, <1>2, FirstOfJob DEF JobInv, StepInv
<1>4. PICK i \in Instruments : First(market).about = {i} /\ (i \in trading \/ chainOf[i] \in ended)
  BY <1>1, <1>3 DEF DeribitInv, Details
<1>5. \A x : ~ SubscribesBy(market, x)
  BY <1>1, <1>2, <1>3 DEF SubscribesBy, JobTypes
<1>6. \A t \in {user, market} : Details(t)
  BY DEF Details, DeribitInv
<1>7. CASE calling[market] = "answered"
  <2>. DEFINE c == chainOf[i]
              steps == Deribit!PlanSteps(baseOf[c], {i}, "agg2")
  <2>1. (CHOOSE x \in {baseOf[chainOf[j]] : j \in {i}} : TRUE) = baseOf[c] /\ c \in Chains
    BY DEF FeedAssumption
  <2>2. /\ listed' = listed \cup {i}
        /\ Deribit!PlanFor(baseOf[c], {i}, "agg2")
        /\ jobs' = [jobs EXCEPT ![market] = steps]
    BY <1>4, <1>7, <2>1, DeribitSame DEF Deribit!DetailsFetched, Deribit!Begin
  <2>3. /\ planned' \subseteq Things
        /\ \A b : Deribit!index(b) \in planned => Deribit!index(b) \in planned'
        /\ \A j \in {i} : Deribit!ticker(j, "agg2") \in planned' \/ Deribit!ticker(j, "100ms") \in planned'
        /\ \A j \in Instruments :
             Deribit!ticker(j, "agg2") \in planned \/ Deribit!ticker(j, "100ms") \in planned =>
               Deribit!ticker(j, "agg2") \in planned' \/ Deribit!ticker(j, "100ms") \in planned'
    <3>. HIDE DEF c
    <3>. QED  BY <1>2, <2>1, <2>2, PlanForMarks
  <2>4. SeesToPlan(steps)
    <3>. DEFINE insts == {i}
    <3>1. insts \in SUBSET Instruments /\ Deribit!PlanFor(baseOf[c], insts, "agg2")
      BY <2>2
    <3>. HIDE DEF c, insts
    <3>2. SeesToPlan(Deribit!PlanSteps(baseOf[c], insts, "agg2"))
      BY <1>2, <2>1, <3>1, PlanStepsDo
    <3>. QED  BY <3>2 DEF insts
  <2>. HIDE DEF c, steps
  <2>5. SocketInv' /\ RpcInv'
    BY <1>1, <1>2, <1>5, <2>2, <2>3, <2>4, BegunKeeps DEF DeribitInv, SeesToPlan
  <2>6. \A t \in {user, market} : Details(t)'
    <3>1. jobs'[market] = steps /\ jobs'[user] = jobs[user]
      BY <1>2, <2>2, TasksDiffer DEF JobTypes
    <3>. QED  BY <1>1, <1>6, <2>4, <3>1 DEF Details, SeesToPlan
  <2>7. AdapterInv' /\ \A d \in Chains : Due(d)' \subseteq Due(d) \cup {i}
    BY <1>1, <1>4, <2>2, ListingKeeps DEF Unlisted
  <2>8. ASSUME NEW d \in Chains, Asked(d)'
        PROVE  DeribitMarks(d)'
    <3>1. Asked(d) /\ Due(d) \subseteq Instruments
      BY <1>1, <2>8 DEF Asked, Due, Of, AdapterInv
    <3>. QED  BY <2>3, <2>7, <3>1 DEF DeribitMarks, DeribitInv
  <2>. QED  BY <2>5, <2>6, <2>7, <2>8 DEF DeribitInv, Details, DeribitMarks
<1>8. CASE calling[market] # "answered"
  <2>1. jobs' = [jobs EXCEPT ![market] = <<>>] /\ UNCHANGED <<listed, planned>>
    BY <1>8, DeribitSame DEF Deribit!DetailsFetched, Deribit!Begin
  <2>2. <<>> \in Seq(JobStep) /\ DOMAIN <<>> = {}
    OBVIOUS
  <2>3. SocketInv' /\ RpcInv'
    BY <1>1, <1>2, <1>5, <2>1, <2>2, BegunKeeps DEF DeribitInv, JobTypes
  <2>4. \A t \in {user, market} : Details(t)'
    <3>1. jobs'[market] = <<>> /\ jobs'[user] = jobs[user]
      BY <1>2, <2>1, TasksDiffer DEF JobTypes
    <3>. QED  BY <1>1, <1>6, <3>1 DEF Details
  <2>5. AdapterInv' /\ \A c \in Chains : Due(c)' = Due(c)
    BY <1>1, <2>1, SameKeeps DEF AdapterInv
  <2>. QED  BY <1>1, <2>1, <2>3, <2>4, <2>5 DEF DeribitInv, DeribitMarks, Asked
<1>. QED  BY <1>7, <1>8

\* InstrumentsDelivered of Deribit's client keeps its invariant.
LEMMA DeribitDelivered ==
  ASSUME FeedAssumption, AdapterInv, SocketInv, DeribitInv, Deribit!InstrumentsDelivered
  PROVE  AdapterInv' /\ SocketInv' /\ DeribitInv'
<1>. DEFINE gone == Deribit!Tickers(Expired) \cap planned
            steps == Just("unsubscribe", gone)
<1>1. /\ Quiet /\ Idle(market) /\ Swept /\ Unlisted
      /\ planned' = planned \ Deribit!Tickers(Expired)
      /\ jobs' = [jobs EXCEPT ![market] = Deribit!Just("unsubscribe", gone)]
      /\ UNCHANGED <<timerVars, socketVars, asked, channels, calling, added, astray>>
  BY DeribitSame DEF Deribit!InstrumentsDelivered, Deribit!Begin, Deribit!Swept, Swept, Deribit!Unlisted, Unlisted,
     Deribit!timerVars, timerVars, Deribit!socketVars, socketVars
<1>2. JobTypes /\ JobInv /\ gone \subseteq Things /\ market # user
  BY TasksDiffer DEF DeribitInv, RpcInv, JobInv, JobTypes
<1>3. /\ steps \in Seq(JobStep) /\ jobs' = [jobs EXCEPT ![market] = steps]
      /\ \A n \in DOMAIN steps : steps[n].op = "unsubscribe"
  <2>. HIDE DEF gone
  <2>1. "unsubscribe" \in Ops
    BY DEF Ops
  <2>. QED  BY <1>1, <1>2, <2>1, JustDoes
<1>4. calling[market] = "no" /\ \A x : ~ SubscribesBy(market, x)
  BY <1>1, <1>2, TasksDiffer DEF JobInv, JobTypes, Pending, SubscribesBy, Idle
<1>5. /\ AdapterInv' /\ \A c \in Chains : Due(c)' = Due(c)
      /\ \A c \in Chains : \A i \in Due(c) : i \notin Expired
  BY <1>1, SweptKeeps
<1>6. requests' = requests /\ planned' \subseteq planned
  BY <1>1 DEF Unlisted
<1>7. ASSUME NEW c \in Chains, Asked(c)'
      PROVE  DeribitMarks(c)'
  <2>1. Asked(c)
    BY <1>6, <1>7 DEF Asked
  <2>2. \A b : Deribit!index(b) \notin Deribit!Tickers(Expired)
    BY DeribitNames DEF Deribit!Tickers
  <2>3. \A i \in Due(c), v \in {"agg2", "100ms"} : Deribit!ticker(i, v) \notin Deribit!Tickers(Expired)
    BY <1>5, DeribitNames DEF Deribit!Tickers
  <2>. QED  BY <1>1, <1>5, <2>1, <2>2, <2>3 DEF DeribitMarks, DeribitInv
<1>. HIDE DEF gone, steps
<1>8. SocketInv' /\ RpcInv'
  BY <1>1, <1>2, <1>3, <1>4, <1>6, BegunKeeps DEF DeribitInv, JobTypes
<1>9. \A t \in {user, market} : Details(t)'
  <2>1. jobs'[market] = steps /\ jobs'[user] = jobs[user]
    BY <1>2, <1>3, TasksDiffer DEF JobTypes
  <2>. QED  BY <1>1, <1>3, <2>1 DEF Details, DeribitInv, Unlisted
<1>. QED  BY <1>5, <1>7, <1>8, <1>9 DEF DeribitInv, Details, DeribitMarks

\* A step of the transport, or a call that reads.
LEMMA DeribitFramed ==
  ASSUME FeedAssumption, DeribitInv, RpcInv', Framed
  PROVE  DeribitInv'
<1>1. \A c \in Chains : Asked(c)' => Asked(c)
  BY DEF Framed, Asked
<1>2. ASSUME NEW t \in {user, market}
      PROVE  Details(t)'
  <2>1. Details(t)
    BY DEF Details, DeribitInv
  <2>2. CASE jobs'[t] = jobs[t]
    BY <2>1, <2>2 DEF Framed, Details
  <2>3. CASE ~ Idle(t) /\ jobs'[t] = Tail(jobs[t])
    <3>1. \A n \in DOMAIN jobs'[t] : n + 1 \in DOMAIN jobs[t] /\ jobs'[t][n] = jobs[t][n + 1]
      BY <2>3, TasksDiffer, FirstOfJob DEF DeribitInv, RpcInv, JobInv
    <3>. QED  BY <2>1, <3>1 DEF Framed, Details
  <2>4. CASE jobs'[t] = <<>>
    BY <2>4 DEF Details
  <2>. QED  BY <2>2, <2>3, <2>4 DEF Framed, TakesSteps
<1>. QED  BY <1>1, <1>2 DEF DeribitInv, DeribitMarks, Framed

\* What Deribit's client has of the transport is the transport.
LEMMA DeribitTransport ==
  ASSUME Deribit!Transport
  PROVE  Transport
BY Zenon DEF Deribit!Tasks, Deribit!user, Deribit!market, Deribit!replay, Deribit!Idle, Deribit!First,
   Deribit!Runs, Deribit!Returns, Deribit!Quiet, Deribit!Asks, Deribit!Left, Deribit!Abort, Deribit!Outcomes,
   Deribit!Sent, Deribit!CallSubscribe, Deribit!CallUnsubscribe, Deribit!CallReplay, Deribit!Settles,
   Deribit!SettleSubscribe, Deribit!SettleUnsubscribe, Deribit!SettleReplay, Deribit!Opened,
   Deribit!AllClosed, Deribit!Failed, Deribit!Closed, Deribit!Reconnect, Deribit!Market, Deribit!Transport,
   Deribit!Begin, Deribit!Next1, Deribit!Step, Deribit!Just, Deribit!Connected, Deribit!Open, Deribit!Opens,
   Deribit!Fails, Deribit!Drops, Deribit!Rejects, Deribit!Scheduled, Deribit!Fault, Deribit!Fire,
   Deribit!Dial, Deribit!CanDial, Deribit!Lists, Deribit!Expires, Deribit!Of, Deribit!adapterVars,
   Deribit!timerVars, Deribit!socketVars, Deribit!rpcVars, Deribit!Cardinality, Tasks, user, market, replay,
   Idle, First, Runs, Returns, Quiet, Asks, Left, Abort, Outcomes, Sent, CallSubscribe, CallUnsubscribe,
   CallReplay, Settles, SettleSubscribe, SettleUnsubscribe, SettleReplay, Opened, AllClosed, Failed, Closed,
   Reconnect, Market, Transport, Begin, Next1, Step, Just, Connected, Open, Opens, Fails, Drops, Rejects,
   Scheduled, Fault, Fire, Dial, CanDial, Lists, Expires, Of, adapterVars, timerVars, socketVars, rpcVars,
   Cardinality

\* Every step of Deribit's client keeps its invariant.
LEMMA DeribitStep ==
  ASSUME FeedAssumption, AdapterInv, SocketInv, DeribitInv, Deribit!Next
  PROVE  AdapterInv' /\ SocketInv' /\ DeribitInv'
<1>1. CASE Deribit!Transport
  <2>1. SocketInv' /\ RpcInv' /\ Framed
    BY <1>1, DeribitTransport, TransportKeeps, TransportFrames DEF DeribitInv
  <2>. QED  BY <2>1, DeribitFramed DEF Framed
<1>2. CASE Deribit!CallRead(market, "details")
  <2>1. CallRead(market, "details")
    BY <1>2, Zenon DEF Deribit!CallRead, CallRead, Deribit!Runs, Runs, Deribit!Idle, Idle, Deribit!First,
       First, Deribit!Sent, Sent, Deribit!Outcomes, Outcomes, Deribit!Asks, Asks, Deribit!Connected,
       Connected, Deribit!Open, Open, Deribit!Fault, Fault, Deribit!adapterVars, adapterVars,
       Deribit!timerVars, timerVars, Deribit!socketVars, socketVars
  <2>2. SocketInv' /\ RpcInv' /\ Framed
    BY <2>1, TasksDiffer, CallReadKeeps, CallFrames DEF DeribitInv
  <2>. QED  BY <2>2, DeribitFramed DEF Framed
<1>. QED
  BY <1>1, <1>2, DeribitSame, DeribitSubscribe, DeribitRelease, DeribitReturn, DeribitOpened, DeribitFetched,
     DeribitDelivered DEF Deribit!Next

\* Deribit begins in a state of its invariant.
LEMMA DeribitFirst ==
  ASSUME FeedAssumption, Deribit!Init
  PROVE  AdapterInv /\ SocketInv /\ DeribitInv
<1>1. AdapterInit /\ SocketInit /\ RpcInit
  BY Zenon DEF Deribit!Init, Deribit!AdapterInit, Deribit!SocketInit, Deribit!RpcInit, AdapterInit,
     SocketInit, RpcInit, Tasks, Deribit!Tasks, user, market, replay, Deribit!user, Deribit!market,
     Deribit!replay
<1>2. /\ planned = UNION {{Deribit!index(baseOf[chainOf[i]]), Deribit!ticker(i, "agg2")} : i \in FirstListed}
      /\ asked = [s \in Sockets |-> IF s = 1 THEN planned \cup {Deribit!lifecycle} ELSE {}]
  BY DEF Deribit!Init
<1>3. AdapterInv /\ SocketInv
  BY <1>1, <1>2 DEF AdapterInit, SocketInit, AdapterInv, SocketInv, FeedAssumption
<1>4. planned \subseteq Things /\ channels \subseteq Things /\ planned \subseteq channels /\ channels = asked[1]
  BY <1>1, <1>2 DEF RpcInit, Things, FeedAssumption
<1>5. \A t \in Tasks : Idle(t) /\ calling[t] = "no" /\ added[t] = {} /\ jobs[t] = <<>>
  BY <1>1 DEF RpcInit, Idle
<1>6. JobInv
  <2>1. JobTypes
    BY <1>1, <1>4 DEF JobTypes, RpcInit
  <2>2. AddedInv /\ ReplayInv /\ StepInv
    BY <1>5, TasksDiffer DEF AddedInv, ReplayInv, StepInv
  <2>. QED  BY <1>5, <2>1, <2>2, TasksDiffer DEF JobInv, Pending
<1>7. PlannedIsKept
  BY <1>4 DEF PlannedIsKept
<1>8. ChannelIsStreamed
  BY <1>1, <1>4, TasksDiffer DEF ChannelIsStreamed, SeenTo, SocketInit
<1>9. \A c \in Chains : ~ Asked(c)
  BY <1>1 DEF AdapterInit, Asked
<1>. QED  BY <1>3, <1>5, <1>6, <1>7, <1>8, <1>9, TasksDiffer DEF DeribitInv, Details, RpcInv

-------------------------------------------------------------------------------
(***************************************************************************)
(* Derive.                                                                 *)
(***************************************************************************)

\* What Derive's client has of the transport is the transport.
LEMMA DeriveSame ==
  /\ Derive!Quiet = Quiet /\ Derive!Free = Free
  /\ \A t : Derive!Idle(t) = Idle(t) /\ Derive!First(t) = First(t) /\ Derive!Settles(t) = Settles(t) /\ Derive!Runs(t) = Runs(t)
  /\ \A c : Derive!Returns(c) = Returns(c) /\ Derive!Counted(c) = Counted(c)
  /\ Derive!user = user /\ Derive!market = market /\ Derive!Expired = Expired
BY Zenon DEF Derive!Quiet, Derive!Free, Derive!Idle, Derive!First, Derive!Settles, Derive!Runs,
   Derive!Returns, Derive!Counted, Derive!user, Derive!market, Derive!Expired, Derive!Tasks, Derive!replay,
   Quiet, Free, Idle, First, Settles, Runs, Returns, Counted, user, market, Expired, Tasks, replay

\* What Derive's client asks for.
LEMMA DeriveThings ==
  /\ \A insts \in SUBSET Instruments : insts \subseteq Things /\ Derive!topics(insts) \subseteq Things
  /\ \A insts, i : slim(i) \in Derive!topics(insts) <=> i \in insts
  /\ \A insts : Derive!topics(insts) = {slim(i) : i \in insts}
BY DEF Things, Derive!topics, slim

\* When events come, no subscription is still to be sent.
LEMMA QuietSubscribesNot ==
  ASSUME DeriveInv, Quiet, NEW r \in Tasks, NEW x
  PROVE  ~ SubscribesBy(r, x)
<1>1. JobInv
  BY DEF DeriveInv, RpcInv
<1>2. CASE r \in {user, market}
  <2>1. \A n \in DOMAIN jobs[r] : n # 1 => n > 1
    BY <1>1 DEF JobInv, JobTypes
  <2>2. ~ Idle(r) => Pending(r)
    BY <1>1, QuietJobs
  <2>. QED  BY <1>2, <2>1, <2>2 DEF DeriveInv, DeriveSteps, SubscribesBy, Ahead, Idle
<1>3. CASE \E s \in Sockets : r = replay(s)
  BY <1>1, <1>3 DEF SubscribesBy, JobInv, ReplayInv
<1>. QED  BY <1>2, <1>3, TasksDiffer

\* What a step that changes job t has to see to, for whoever holds a chain.
LEMMA DeriveKept ==
  ASSUME DeriveInv, RpcInv', NEW t \in {user, market}, DeriveSteps(t)', UNCHANGED astray,
         \A r \in Tasks \ {t} : jobs'[r] = jobs[r] /\ calling'[r] = calling[r],
         \A c \in Chains : Asked(c)' => \A i \in Due(c)' :
           \/ /\ Asked(c) /\ i \in Due(c)
              /\ slim(i) \in planned => slim(i) \in planned'
              /\ Looks(t, i) => Looks(t, i)' \/ slim(i) \in planned'
              /\ SubscribesBy(t, slim(i))' => slim(i) \in planned'
           \/ Looks(t, i)' /\ \A r \in Tasks : ~ SubscribesBy(r, slim(i))'
  PROVE  DeriveInv'
<1>1. \A r \in {user, market} : DeriveSteps(r)'
  BY TasksDiffer DEF DeriveInv, DeriveSteps
<1>2. ASSUME NEW c \in Chains, Asked(c)', NEW i \in Due(c)'
      PROVE  /\ slim(i) \in planned' \cup astray' \/ \E r \in {user, market} : Looks(r, i)'
             /\ ToSubscribe(slim(i))' => slim(i) \in planned'
  <2>1. CASE Looks(t, i)' /\ \A r \in Tasks : ~ SubscribesBy(r, slim(i))'
    BY <2>1 DEF ToSubscribe
  <2>2. CASE /\ Asked(c) /\ i \in Due(c)
             /\ slim(i) \in planned => slim(i) \in planned'
             /\ Looks(t, i) => Looks(t, i)' \/ slim(i) \in planned'
             /\ SubscribesBy(t, slim(i))' => slim(i) \in planned'
    <3>1. /\ slim(i) \in planned \cup astray \/ \E r \in {user, market} : Looks(r, i)
          /\ ToSubscribe(slim(i)) => slim(i) \in planned
      BY <2>2 DEF DeriveInv
    <3>2. \A r \in {user, market} \ {t} : Looks(r, i)' <=> Looks(r, i)
      BY TasksDiffer DEF Looks
    <3>3. \A r \in Tasks \ {t} : SubscribesBy(r, slim(i))' <=> SubscribesBy(r, slim(i))
      BY DEF SubscribesBy, Ahead, Pending
    <3>4. slim(i) \in planned' \cup astray' \/ \E r \in {user, market} : Looks(r, i)'
      BY <2>2, <3>1, <3>2
    <3>5. ToSubscribe(slim(i))' => slim(i) \in planned'
      BY <2>2, <3>1, <3>3 DEF ToSubscribe
    <3>. QED  BY <3>4, <3>5
  <2>. QED  BY <1>2, <2>1, <2>2
<1>. QED  BY <1>1, <1>2 DEF DeriveInv

\* Subscribe of Derive's client keeps its invariant.
LEMMA DeriveSubscribe ==
  ASSUME FeedAssumption, AdapterInv, SocketInv, DeriveInv, NEW c \in Chains, Derive!Subscribe(c)
  PROVE  AdapterInv' /\ SocketInv' /\ DeriveInv'
<1>. DEFINE insts == Of(c, listed)
            steps == <<[op |-> "tickers", about |-> insts]>>
<1>1. /\ Quiet /\ Free /\ requests[c] = "idle"
      /\ matching' = [matching EXCEPT ![c] = insts] /\ SetRequest(c, "subscribing")
      /\ jobs' = [jobs EXCEPT ![user] = steps]
      /\ UNCHANGED <<trading, ended, listed, timerVars, socketVars, asked, planned, channels, calling, added, astray>>
  BY DeriveSame DEF Derive!Subscribe, Derive!Of, Of, Derive!SetRequest, SetRequest, Derive!Begin, Derive!Step,
     Derive!timerVars, timerVars, Derive!socketVars, socketVars
<1>2. /\ AdapterInv'
      /\ \A d \in Chains \ {c} : Due(d)' = Due(d) /\ requests'[d] = requests[d] /\ matching'[d] = matching[d]
      /\ requests'[c] = "subscribing" /\ matching'[c] = Of(c, listed) /\ Due(c)' \subseteq Of(c, listed)
  BY <1>1, RequestKeeps
<1>3. insts \subseteq Instruments /\ JobTypes /\ JobInv /\ planned \subseteq Things
  BY DEF Of, AdapterInv, DeriveInv, RpcInv, JobInv, JobTypes
<1>4. Idle(user) /\ calling[user] = "no"
  BY <1>1, <1>3, FreeJobs
<1>5. \A i \in Due(c)' : i \in insts
  BY <1>2
<1>. HIDE DEF insts
<1>6. /\ steps \in Seq(JobStep) /\ 1 \in DOMAIN steps
      /\ \A n \in DOMAIN steps : n = 1 /\ steps[n].op = "tickers" /\ steps[n].about = insts
  BY <1>3, DeriveThings DEF JobStep, Ops
<1>. HIDE DEF steps
<1>7. ~ Free'
  BY <1>2 DEF Free
<1>8. \A x : \A r \in Tasks : ~ SubscribesBy(r, x)
  BY <1>1, QuietSubscribesNot
<1>9. SocketInv' /\ RpcInv'
  BY <1>1, <1>3, <1>4, <1>6, <1>7, <1>8, TasksDiffer, BegunKeeps DEF DeriveInv
<1>10. jobs'[user] = steps /\ \A r \in Tasks \ {user} : jobs'[r] = jobs[r]
  BY <1>1, <1>3, TasksDiffer DEF JobTypes
<1>11. DeriveSteps(user)' /\ \A i \in insts : Looks(user, i)'
  BY <1>3, <1>6, <1>10 DEF DeriveSteps, Looks
<1>12. \A x : \A r \in Tasks : ~ SubscribesBy(r, x)'
  BY <1>1, <1>6, <1>8, <1>10 DEF SubscribesBy, Ahead, Pending
<1>13. \A i : ~ Looks(user, i)
  BY <1>4 DEF Looks, Idle
<1>14. ASSUME NEW d \in Chains, Asked(d)', NEW i \in Due(d)'
       PROVE  \/ /\ Asked(d) /\ i \in Due(d)
                 /\ slim(i) \in planned => slim(i) \in planned'
                 /\ Looks(user, i) => Looks(user, i)' \/ slim(i) \in planned'
                 /\ SubscribesBy(user, slim(i))' => slim(i) \in planned'
              \/ Looks(user, i)' /\ \A r \in Tasks : ~ SubscribesBy(r, slim(i))'
  <2>1. CASE d = c
    BY <1>5, <1>11, <1>12, <1>14, <2>1
  <2>2. CASE d # c
    BY <1>1, <1>2, <1>12, <1>13, <1>14, <2>2, TasksDiffer DEF Asked
  <2>. QED  BY <2>1, <2>2
<1>15. UNCHANGED astray /\ \A r \in Tasks \ {user} : jobs'[r] = jobs[r] /\ calling'[r] = calling[r]
  BY <1>1, <1>10
<1>16. DeriveInv'
  BY <1>9, <1>11, <1>14, <1>15, DeriveKept
<1>. QED  BY <1>2, <1>9, <1>16

\* Release of Derive's client keeps its invariant.
LEMMA DeriveRelease ==
  ASSUME FeedAssumption, AdapterInv, SocketInv, DeriveInv, NEW c \in Chains, Derive!Release(c)
  PROVE  AdapterInv' /\ SocketInv' /\ DeriveInv'
<1>. DEFINE gone == Derive!topics(matching[c]) \cap planned
            steps == Just("unsubscribe", gone)
<1>1. /\ Quiet /\ Free /\ requests[c] = "held" /\ SetRequest(c, "releasing")
      /\ jobs' = [jobs EXCEPT ![user] = Derive!Just("unsubscribe", gone)]
      /\ UNCHANGED <<matching, trading, ended, listed, timerVars, socketVars, asked, planned, channels, calling, added, astray>>
  BY DeriveSame DEF Derive!Release, Derive!SetRequest, SetRequest, Derive!Begin,
     Derive!timerVars, timerVars, Derive!socketVars, socketVars
<1>2. JobTypes /\ JobInv /\ gone \subseteq Things /\ planned \subseteq Things
  BY DEF DeriveInv, RpcInv, JobInv, JobTypes
<1>3. /\ steps \in Seq(JobStep) /\ jobs' = [jobs EXCEPT ![user] = steps] /\ Len(steps) <= 1
      /\ \A n \in DOMAIN steps : steps[n].op = "unsubscribe"
  <2>. HIDE DEF gone
  <2>1. "unsubscribe" \in Ops
    BY DEF Ops
  <2>. QED  BY <1>1, <1>2, <2>1, JustDoes
<1>4. Idle(user) /\ calling[user] = "no"
  BY <1>1, <1>2, FreeJobs
<1>5. /\ requests' = [requests EXCEPT ![c] = "releasing"]
      /\ AdapterInv' /\ \A d \in Chains : Due(d)' = Due(d)
  BY <1>1, SameKeeps DEF SetRequest, AdapterInv
<1>6. requests'[c] = "releasing" /\ \A d \in Chains \ {c} : requests'[d] = requests[d]
  BY <1>5 DEF AdapterInv
<1>7. ~ Free'
  BY <1>6 DEF Free
<1>8. \A x : \A r \in Tasks : ~ SubscribesBy(r, x)
  BY <1>1, QuietSubscribesNot
<1>. HIDE DEF gone, steps
<1>9. SocketInv' /\ RpcInv'
  BY <1>1, <1>2, <1>3, <1>4, <1>7, <1>8, TasksDiffer, BegunKeeps DEF DeriveInv
<1>10. jobs'[user] = steps /\ \A r \in Tasks \ {user} : jobs'[r] = jobs[r]
  BY <1>2, <1>3, TasksDiffer DEF JobTypes
<1>11. DeriveSteps(user)' /\ \A x : ~ SubscribesBy(user, x)'
  BY <1>3, <1>10 DEF DeriveSteps, SubscribesBy
<1>12. \A i : ~ Looks(user, i)
  BY <1>4 DEF Looks, Idle
<1>13. \A d \in Chains : Asked(d)' => Asked(d) /\ Due(d)' = Due(d)
  BY <1>5, <1>6 DEF Asked
<1>14. UNCHANGED <<astray, planned>> /\ \A r \in Tasks \ {user} : jobs'[r] = jobs[r] /\ calling'[r] = calling[r]
  BY <1>1, <1>10
<1>15. DeriveInv'
  BY <1>9, <1>11, <1>12, <1>13, <1>14, DeriveKept
<1>. QED  BY <1>5, <1>9, <1>15

\* Return of Derive's client keeps its invariant.
LEMMA DeriveReturn ==
  ASSUME FeedAssumption, AdapterInv, SocketInv, DeriveInv, NEW c \in Chains, Derive!Return(c)
  PROVE  AdapterInv' /\ SocketInv' /\ DeriveInv'
<1>1. /\ Idle(user) /\ requests[c] \in {"subscribing", "releasing"}
      /\ SetRequest(c, IF requests[c] = "subscribing" THEN "held" ELSE "idle")
      /\ matching' = IF requests[c] = "releasing" THEN [matching EXCEPT ![c] = {}] ELSE matching
      /\ planned' = IF requests[c] = "releasing" THEN planned \ Derive!topics(matching[c]) ELSE planned
      /\ UNCHANGED <<trading, ended, listed, timerVars, socketVars, asked, rpcVars>>
  BY DeriveSame DEF Derive!Return, Returns, Derive!SetRequest, SetRequest,
     Derive!timerVars, timerVars, Derive!socketVars, socketVars, Derive!rpcVars, rpcVars
<1>2. SocketInv' /\ RpcInv'
  BY <1>1, RpcSame DEF DeriveInv
<1>3. AdapterInv' /\ \A d \in Chains : Asked(d)' => Asked(d) /\ Due(d)' = Due(d) /\ (requests[c] = "releasing" => d # c)
  <2>1. CASE requests[c] = "subscribing"
    <3>1. SetRequest(c, "held") /\ UNCHANGED matching
      BY <1>1, <2>1
    <3>2. AdapterInv' /\ \A d \in Chains : Due(d)' = Due(d)
      BY <1>1, <3>1, SameKeeps DEF SetRequest, AdapterInv
    <3>. QED  BY <2>1, <3>1, <3>2 DEF SetRequest, AdapterInv, Asked
  <2>2. CASE requests[c] = "releasing"
    <3>1. SetRequest(c, "idle") /\ matching' = [matching EXCEPT ![c] = {}]
      BY <1>1, <2>2
    <3>2. /\ AdapterInv'
          /\ \A d \in Chains \ {c} : Due(d)' = Due(d) /\ requests'[d] = requests[d]
          /\ requests'[c] = "idle"
      BY <1>1, <3>1, ReturnKeeps
    <3>. QED  BY <3>2 DEF Asked
  <2>. QED  BY <1>1, <2>1, <2>2
<1>4. UNCHANGED <<jobs, calling, astray>>
  BY <1>1 DEF rpcVars
<1>5. ASSUME NEW d \in Chains, Asked(d)', NEW i \in Due(d)'
      PROVE  /\ Asked(d) /\ i \in Due(d)
             /\ slim(i) \in planned => slim(i) \in planned'
             /\ Looks(user, i) => Looks(user, i)' \/ slim(i) \in planned'
             /\ SubscribesBy(user, slim(i))' => slim(i) \in planned'
  <2>1. Asked(d) /\ i \in Due(d) /\ (requests[c] = "releasing" => d # c)
    BY <1>3, <1>5
  <2>2. slim(i) \in planned => slim(i) \in planned'
    <3>1. requests[c] = "releasing" => i \notin matching[c]
      BY <2>1 DEF Due, Of, AdapterInv
    <3>. QED  BY <1>1, <3>1, DeriveThings
  <2>3. ~ Looks(user, i) /\ ~ SubscribesBy(user, slim(i))'
    BY <1>1, <1>4 DEF Looks, SubscribesBy, Idle
  <2>. QED  BY <2>1, <2>2, <2>3
<1>6. DeriveSteps(user)'
  BY <1>4 DEF DeriveInv, DeriveSteps
<1>7. DeriveInv'
  BY <1>2, <1>4, <1>5, <1>6, DeriveKept
<1>. QED  BY <1>2, <1>3, <1>7

\* The elements of two sequences that are joined.
LEMMA Joined ==
  ASSUME NEW S, NEW p \in Seq(S), NEW q \in Seq(S)
  PROVE  /\ p \o q \in Seq(S)
         /\ \A n \in DOMAIN p : n \in DOMAIN (p \o q) /\ (p \o q)[n] = p[n]
         /\ \A n \in DOMAIN q : Len(p) + n \in DOMAIN (p \o q) /\ (p \o q)[Len(p) + n] = q[n]
         /\ \A n \in DOMAIN (p \o q) : \/ n \in DOMAIN p /\ (p \o q)[n] = p[n]
                                       \/ n - Len(p) \in DOMAIN q /\ (p \o q)[n] = q[n - Len(p)]
<1>1. Len(p) \in Nat /\ Len(q) \in Nat /\ Len(p \o q) = Len(p) + Len(q) /\ p \o q \in Seq(S)
  OBVIOUS
<1>2. DOMAIN p = 1..Len(p) /\ DOMAIN q = 1..Len(q) /\ DOMAIN (p \o q) = 1..(Len(p) + Len(q))
  BY <1>1
<1>3. ASSUME NEW n \in DOMAIN p
      PROVE  n \in DOMAIN (p \o q) /\ (p \o q)[n] = p[n]
  BY <1>1, <1>2, <1>3
<1>4. ASSUME NEW n \in DOMAIN q
      PROVE  Len(p) + n \in DOMAIN (p \o q) /\ (p \o q)[Len(p) + n] = q[n]
  BY <1>1, <1>2, <1>4
<1>5. ASSUME NEW n \in DOMAIN (p \o q), n \notin DOMAIN p
      PROVE  n - Len(p) \in DOMAIN q /\ (p \o q)[n] = q[n - Len(p)]
  BY <1>1, <1>2, <1>5
<1>. QED  BY <1>1, <1>3, <1>4, <1>5

\* TickersFetched of Derive's client keeps its invariant.
LEMMA DeriveTickers ==
  ASSUME FeedAssumption, AdapterInv, SocketInv, DeriveInv, NEW t \in {user, market}, Derive!TickersFetched(t)
  PROVE  AdapterInv' /\ SocketInv' /\ DeriveInv'
<1>. DEFINE new == Derive!topics(First(t).about) \ planned
            rest == Tail(jobs[t])
            p == Just("subscribe", new)
            steps == p \o rest
<1>1. /\ ~ Idle(t) /\ First(t).op = "tickers" /\ planned' = planned \cup new
      /\ jobs' = [jobs EXCEPT ![t] = Derive!Just("subscribe", new) \o rest]
      /\ calling' = [calling EXCEPT ![t] = "no"]
      /\ UNCHANGED <<requests, matching, trading, ended, listed, timerVars, socketVars, asked, channels, added, astray>>
  BY DeriveSame DEF Derive!TickersFetched, Settles, Derive!Begin, Derive!adapterVars,
     Derive!timerVars, timerVars, Derive!socketVars, socketVars
<1>2. JobTypes /\ JobInv /\ planned \subseteq Things /\ t \in Tasks
  BY TasksDiffer DEF DeriveInv, RpcInv, JobInv, JobTypes
<1>3. /\ 1 \in DOMAIN jobs[t] /\ First(t) = jobs[t][1] /\ rest \in Seq(JobStep)
      /\ \A n \in DOMAIN rest : n + 1 \in DOMAIN jobs[t] /\ rest[n] = jobs[t][n + 1]
      /\ \A n \in DOMAIN jobs[t] : n # 1 => n - 1 \in DOMAIN rest /\ rest[n - 1] = jobs[t][n]
      /\ jobs[t] \in Seq(JobStep)
  BY <1>1, <1>2, FirstOfJob DEF JobTypes
<1>4. First(t).about \subseteq Instruments
  BY <1>1, <1>3 DEF DeriveInv, DeriveSteps
<1>5. new \subseteq Things
  BY <1>4, DeriveThings
<1>6. \A n \in DOMAIN rest : rest[n].op = "activate"
  BY <1>3 DEF DeriveInv, DeriveSteps
<1>7. \A i \in First(t).about : slim(i) \in planned'
  BY <1>1, DeriveThings
<1>. HIDE DEF new, rest
<1>8. /\ p \in Seq(JobStep) /\ Len(p) <= 1 /\ Derive!Just("subscribe", new) = p
      /\ \A n \in DOMAIN p : p[n].op = "subscribe" /\ p[n].about = new
      /\ \A x \in new : \E n \in DOMAIN p : x \in p[n].about
  <2>1. "subscribe" \in Ops
    BY DEF Ops
  <2>. QED  BY <1>5, <2>1, JustDoes
<1>. HIDE DEF p
<1>9. /\ steps \in Seq(JobStep)
      /\ \A n \in DOMAIN p : n \in DOMAIN steps /\ steps[n] = p[n]
      /\ \A n \in DOMAIN rest : Len(p) + n \in DOMAIN steps /\ steps[Len(p) + n] = rest[n]
      /\ \A n \in DOMAIN steps : \/ n \in DOMAIN p /\ steps[n] = p[n]
                                 \/ n - Len(p) \in DOMAIN rest /\ steps[n] = rest[n - Len(p)]
      /\ \A n \in DOMAIN p : n = 1
  <2>1. \A n \in DOMAIN p : n = 1
    BY <1>8
  <2>. QED  BY <1>3, <1>8, <2>1, Joined
<1>10. jobs' = [jobs EXCEPT ![t] = steps]
  BY <1>1, <1>8
<1>. HIDE DEF steps
<1>11. jobs'[t] = steps /\ \A r \in Tasks \ {t} : jobs'[r] = jobs[r] /\ calling'[r] = calling[r]
  BY <1>1, <1>2, <1>10 DEF JobTypes
<1>12. \A n \in DOMAIN steps : \/ steps[n].op = "subscribe" /\ steps[n].about = new /\ n = 1
                               \/ steps[n].op = "activate" /\ \E m \in DOMAIN rest : steps[n] = rest[m]
  BY <1>6, <1>8, <1>9
<1>13. \A x : ~ SubscribesBy(t, x)
  <2>1. \A n \in DOMAIN jobs[t] : n = 1 \/ n > 1
    BY <1>3
  <2>. QED  BY <1>1, <1>3, <2>1 DEF DeriveInv, DeriveSteps, SubscribesBy
<1>14. t = user => ~ Free'
  BY <1>1, <1>2 DEF JobInv, Free
<1>15. planned' \subseteq Things
  BY <1>1, <1>2, <1>5
<1>16. \A x \in planned' : \/ x \in planned /\ ~ SubscribesBy(t, x)
                           \/ \E n \in DOMAIN steps : steps[n].op = "subscribe" /\ x \in steps[n].about
  <2>1. \A x \in new : \E n \in DOMAIN steps : steps[n].op = "subscribe" /\ x \in steps[n].about
    BY <1>8, <1>9
  <2>. QED  BY <1>1, <1>13, <2>1
<1>17. SocketInv' /\ RpcInv'
  BY <1>1, <1>2, <1>9, <1>10, <1>12, <1>14, <1>15, <1>16, BegunKeeps DEF DeriveInv
<1>18. DeriveSteps(t)'
  <2>1. \A m \in DOMAIN rest : \E insts \in SUBSET Instruments : rest[m].about = Derive!topics(insts)
    <3>1. SUFFICES ASSUME NEW m \in DOMAIN rest
                   PROVE  \E insts \in SUBSET Instruments : rest[m].about = Derive!topics(insts)
      OBVIOUS
    <3>2. m + 1 \in DOMAIN jobs[t] /\ jobs[t][m + 1] = rest[m] /\ jobs[t][m + 1].op = "activate"
      BY <1>3, <1>6
    <3>. QED  BY <3>2 DEF DeriveInv, DeriveSteps
  <2>2. \A n \in DOMAIN steps : n > 1 => steps[n].op = "activate"
    BY <1>12
  <2>. QED  BY <1>11, <1>12, <2>1, <2>2 DEF DeriveSteps
<1>19. AdapterInv' /\ \A c \in Chains : Due(c)' = Due(c)
  BY <1>1, SameKeeps DEF AdapterInv
<1>20. ASSUME NEW i, Looks(t, i)
       PROVE  Looks(t, i)' \/ slim(i) \in planned'
  <2>1. PICK n \in DOMAIN jobs[t] : \/ jobs[t][n].op = "tickers" /\ i \in jobs[t][n].about
                                    \/ jobs[t][n].op = "activate" /\ slim(i) \in jobs[t][n].about
    BY <1>20 DEF Looks
  <2>2. CASE n = 1
    BY <1>1, <1>3, <1>7, <2>1, <2>2
  <2>3. CASE n # 1
    <3>1. n - 1 \in DOMAIN rest /\ rest[n - 1] = jobs[t][n] /\ rest[n - 1].op = "activate"
      BY <1>3, <1>6, <2>1, <2>3
    <3>2. Len(p) + (n - 1) \in DOMAIN steps /\ steps[Len(p) + (n - 1)] = jobs[t][n]
      BY <1>9, <3>1
    <3>. QED  BY <1>11, <2>1, <3>1, <3>2 DEF Looks
  <2>. QED  BY <2>2, <2>3
<1>21. \A x : SubscribesBy(t, x)' => x \in planned'
  BY <1>1, <1>11, <1>12 DEF SubscribesBy
<1>22. \A c \in Chains : Asked(c)' => Asked(c) /\ Due(c)' = Due(c)
  BY <1>1, <1>19 DEF Asked
<1>23. UNCHANGED astray /\ planned \subseteq planned'
  BY <1>1
<1>24. DeriveInv'
  BY <1>11, <1>17, <1>18, <1>20, <1>21, <1>22, <1>23, DeriveKept
<1>. QED  BY <1>17, <1>19, <1>24

\* Refresh of Derive's client keeps its invariant.
LEMMA DeriveRefresh ==
  ASSUME FeedAssumption, AdapterInv, SocketInv, DeriveInv, Derive!Refresh
  PROVE  AdapterInv' /\ SocketInv' /\ DeriveInv'
<1>. DEFINE steps == <<[op |-> "instruments", about |-> {}]>>
<1>1. /\ Quiet /\ Idle(market) /\ Swept /\ Unlisted
      /\ planned' = planned \ Derive!topics(Expired)
      /\ jobs' = [jobs EXCEPT ![market] = steps]
      /\ UNCHANGED <<timerVars, socketVars, asked, channels, calling, added, astray>>
  BY DeriveSame DEF Derive!Refresh, Derive!Begin, Derive!Step, Derive!Swept, Swept, Derive!Unlisted, Unlisted,
     Derive!timerVars, timerVars, Derive!socketVars, socketVars
<1>2. JobTypes /\ JobInv /\ planned \subseteq Things /\ market # user /\ market \in Tasks
  BY TasksDiffer DEF DeriveInv, RpcInv, JobInv, JobTypes
<1>3. /\ steps \in Seq(JobStep) /\ Len(steps) = 1
      /\ \A n \in DOMAIN steps : steps[n].op = "instruments" /\ n = 1
  BY DEF JobStep, Ops
<1>. HIDE DEF steps
<1>4. calling[market] = "no" /\ \A x : ~ SubscribesBy(market, x)
  BY <1>1, <1>2 DEF JobInv, JobTypes, Pending, SubscribesBy, Idle
<1>5. /\ AdapterInv' /\ \A c \in Chains : Due(c)' = Due(c)
      /\ \A c \in Chains : \A i \in Due(c) : i \notin Expired
  BY <1>1, SweptKeeps
<1>6. requests' = requests /\ planned' \subseteq planned
  BY <1>1 DEF Unlisted
<1>7. SocketInv' /\ RpcInv'
  BY <1>1, <1>2, <1>3, <1>4, <1>6, BegunKeeps DEF DeriveInv
<1>8. jobs'[market] = steps /\ UNCHANGED calling /\ \A r \in Tasks \ {market} : jobs'[r] = jobs[r]
  BY <1>1, <1>2 DEF JobTypes
<1>9. DeriveSteps(market)' /\ \A x : ~ SubscribesBy(market, x)'
  BY <1>3, <1>8 DEF DeriveSteps, SubscribesBy
<1>10. \A i : ~ Looks(market, i)
  BY <1>1 DEF Looks, Idle
<1>11. \A c \in Chains : \A i \in Due(c) : slim(i) \in planned => slim(i) \in planned'
  BY <1>1, <1>5, DeriveThings
<1>12. \A c \in Chains : Asked(c)' => Asked(c)
  BY <1>6 DEF Asked
<1>13. UNCHANGED astray /\ \A r \in Tasks \ {market} : jobs'[r] = jobs[r] /\ calling'[r] = calling[r]
  BY <1>1, <1>8
<1>14. DeriveInv'
  BY <1>5, <1>7, <1>9, <1>10, <1>11, <1>12, <1>13, DeriveKept
<1>. QED  BY <1>5, <1>7, <1>14

\* The count of an instance is the count.
LEMMA DeriveCardinality ==
  ASSUME NEW S
  PROVE  Derive!Cardinality(S) = Cardinality(S)
BY DEF Derive!Cardinality, Cardinality

\* InstrumentsFetched of Derive's client keeps its invariant.
LEMMA DeriveFetched ==
  ASSUME FeedAssumption, AdapterInv, SocketInv, DeriveInv, Derive!InstrumentsFetched
  PROVE  AdapterInv' /\ SocketInv' /\ DeriveInv'
<1>. DEFINE new == IF calling[market] = "answered" THEN trading \ listed ELSE {}
            S == {chainOf[i] : i \in new}
<1>1. /\ ~ Idle(market) /\ First(market).op = "instruments"
      /\ calling[market] = "closed" \/ Quiet
      /\ listed' = listed \cup new
      /\ calling' = [calling EXCEPT ![market] = "no"]
      /\ UNCHANGED <<requests, matching, trading, ended, timerVars, socketVars, asked, planned, channels, added, astray>>
  BY DeriveSame DEF Derive!InstrumentsFetched, Settles, Derive!timerVars, timerVars, Derive!socketVars, socketVars
<1>2. /\ JobTypes /\ JobInv /\ planned \subseteq Things /\ market # user /\ market \in Tasks
      /\ new \subseteq Instruments /\ \A i \in new : i \in trading
  BY TasksDiffer DEF DeriveInv, RpcInv, JobInv, JobTypes, AdapterInv
<1>3. new # {} => Quiet
  BY <1>1
<1>4. PICK chains \in Derive!Orders(S) :
        jobs' = [jobs EXCEPT ![market] = [n \in DOMAIN chains |-> [op |-> "activate", about |-> Derive!topics(Of(chains[n], new))]]]
  BY DeriveSame DEF Derive!InstrumentsFetched, Derive!Begin, Derive!Step, Derive!Of, Of
<1>5. S \subseteq Chains /\ Cardinality(S) \in Nat
  <2>1. S \subseteq Chains
    BY <1>2 DEF FeedAssumption
  <2>. HIDE DEF S
  <2>2. IsFiniteSet(S)
    BY <2>1, FS_Subset DEF FeedAssumption
  <2>. QED  BY <2>1, <2>2, FS_CardinalityType
<1>6. chains \in [1..Cardinality(S) -> S] /\ S = {chains[n] : n \in DOMAIN chains}
  <2>. HIDE DEF S
  <2>. QED  BY <1>4, DeriveCardinality DEF Derive!Orders
<1>. DEFINE steps == [n \in DOMAIN chains |-> [op |-> "activate", about |-> Derive!topics(Of(chains[n], new))]]
<1>. HIDE DEF new
<1>7. /\ steps \in Seq(JobStep)
      /\ \A n \in DOMAIN steps : /\ steps[n].op = "activate"
                                 /\ steps[n].about = Derive!topics(Of(chains[n], new))
                                 /\ Of(chains[n], new) \in SUBSET Instruments
  <2>1. \A c : Of(c, new) \in SUBSET Instruments
    BY <1>2 DEF Of
  <2>2. \A c : [op |-> "activate", about |-> Derive!topics(Of(c, new))] \in JobStep
    BY <2>1, DeriveThings DEF JobStep, Ops
  <2>. DEFINE k == Cardinality(S)
  <2>. HIDE DEF S
  <2>3. k \in Nat /\ DOMAIN chains = 1..k
    BY <1>5, <1>6
  <2>. HIDE DEF k
  <2>4. DOMAIN steps = 1..k /\ \A n \in 1..k : steps[n] = [op |-> "activate", about |-> Derive!topics(Of(chains[n], new))]
    BY <2>3
  <2>5. steps \in [1..k -> JobStep]
    BY <2>2, <2>3
  <2>. HIDE DEF steps
  <2>. QED  BY <2>1, <2>3, <2>4, <2>5
<1>8. \A i \in new : \E n \in DOMAIN steps : slim(i) \in steps[n].about
  <2>1. SUFFICES ASSUME NEW i \in new
                 PROVE  \E n \in DOMAIN steps : slim(i) \in steps[n].about
    OBVIOUS
  <2>2. PICK n \in DOMAIN chains : chains[n] = chainOf[i]
    BY <1>6
  <2>3. i \in Of(chains[n], new)
    BY <2>2 DEF Of
  <2>. QED  BY <1>7, <2>3, DeriveThings
<1>9. jobs' = [jobs EXCEPT ![market] = steps]
  BY <1>4
<1>. HIDE DEF S, steps
<1>10. 1 \in DOMAIN jobs[market] /\ First(market) = jobs[market][1] /\ Len(jobs[market]) = 1
  BY <1>1, <1>2, FirstOfJob DEF JobInv, StepInv
<1>11. \A n \in DOMAIN jobs[market] : jobs[market][n].op = "instruments"
  BY <1>1, <1>2, <1>10 DEF JobTypes
<1>12. \A x : ~ SubscribesBy(market, x) /\ ~ Looks(market, x)
  BY <1>11 DEF SubscribesBy, Looks
<1>13. SocketInv' /\ RpcInv'
  BY <1>1, <1>2, <1>7, <1>9, <1>12, BegunKeeps DEF DeriveInv
<1>14. jobs'[market] = steps /\ \A r \in Tasks \ {market} : jobs'[r] = jobs[r] /\ calling'[r] = calling[r]
  BY <1>1, <1>2, <1>9 DEF JobTypes
<1>15. DeriveSteps(market)' /\ (\A x : ~ SubscribesBy(market, x)') /\ \A i \in new : Looks(market, i)'
  BY <1>7, <1>8, <1>14 DEF DeriveSteps, SubscribesBy, Looks
<1>16. new # {} => \A x : \A r \in Tasks : ~ SubscribesBy(r, x)'
  <2>1. new # {} => \A x : \A r \in Tasks : ~ SubscribesBy(r, x)
    BY <1>3, QuietSubscribesNot
  <2>. QED  BY <1>14, <1>15, <2>1 DEF SubscribesBy, Ahead, Pending
<1>17. AdapterInv' /\ \A c \in Chains : Due(c)' \subseteq Due(c) \cup new
  BY <1>1, <1>2, ListingKeeps DEF Unlisted
<1>18. \A c \in Chains : Asked(c)' => Asked(c)
  BY <1>1 DEF Asked
<1>19. ASSUME NEW c \in Chains, Asked(c)', NEW i \in Due(c)'
       PROVE  \/ /\ Asked(c) /\ i \in Due(c)
                 /\ slim(i) \in planned => slim(i) \in planned'
                 /\ Looks(market, i) => Looks(market, i)' \/ slim(i) \in planned'
                 /\ SubscribesBy(market, slim(i))' => slim(i) \in planned'
              \/ Looks(market, i)' /\ \A r \in Tasks : ~ SubscribesBy(r, slim(i))'
  <2>1. CASE i \in new
    BY <1>15, <1>16, <2>1
  <2>2. CASE i \notin new
    BY <1>1, <1>12, <1>15, <1>17, <1>18, <1>19, <2>2
  <2>. QED  BY <2>1, <2>2
<1>20. UNCHANGED astray
  BY <1>1
<1>21. DeriveInv'
  BY <1>13, <1>14, <1>15, <1>19, <1>20, DeriveKept
<1>. QED  BY <1>13, <1>17, <1>21

\* Activate of Derive's client keeps its invariant.
LEMMA DeriveActivate ==
  ASSUME FeedAssumption, AdapterInv, SocketInv, DeriveInv, Derive!Activate
  PROVE  AdapterInv' /\ SocketInv' /\ DeriveInv'
<1>. DEFINE insts == {topic[2] : topic \in First(market).about}
            wanted == \E i \in insts : Counted(chainOf[i])
            rest == Tail(jobs[market])
            p == IF wanted THEN <<[op |-> "tickers", about |-> insts]>> ELSE <<>>
            steps == p \o rest
<1>1. /\ Runs(market) /\ First(market).op = "activate"
      /\ jobs' = [jobs EXCEPT ![market] = steps]
      /\ UNCHANGED <<requests, matching, trading, ended, listed, timerVars, socketVars, asked, planned,
                     channels, calling, added, astray>>
  BY DeriveSame DEF Derive!Activate, Derive!Begin, Derive!Step, Derive!adapterVars,
     Derive!timerVars, timerVars, Derive!socketVars, socketVars
<1>2. /\ JobTypes /\ JobInv /\ planned \subseteq Things /\ market # user /\ market \in Tasks
      /\ ~ Idle(market) /\ calling[market] = "no"
  BY <1>1, TasksDiffer DEF DeriveInv, RpcInv, JobInv, JobTypes, Runs
<1>3. /\ 1 \in DOMAIN jobs[market] /\ First(market) = jobs[market][1] /\ rest \in Seq(JobStep)
      /\ \A n \in DOMAIN rest : n + 1 \in DOMAIN jobs[market] /\ rest[n] = jobs[market][n + 1]
      /\ \A n \in DOMAIN jobs[market] : n # 1 => n - 1 \in DOMAIN rest /\ rest[n - 1] = jobs[market][n]
      /\ jobs[market] \in Seq(JobStep)
  BY <1>2, FirstOfJob DEF JobTypes
<1>4. PICK those \in SUBSET Instruments : First(market).about = Derive!topics(those)
  BY <1>1, <1>3 DEF DeriveInv, DeriveSteps
<1>5. insts = those
  <2>1. \A i : slim(i)[2] = i
    BY DEF slim
  <2>2. insts = {topic[2] : topic \in {slim(i) : i \in those}}
    BY <1>4, DeriveThings
  <2>. HIDE DEF insts
  <2>. QED  BY <2>1, <2>2
<1>6. \A n \in DOMAIN rest : rest[n].op = "activate"
  BY <1>3 DEF DeriveInv, DeriveSteps
<1>. HIDE DEF insts, rest
<1>7. /\ p \in Seq(JobStep) /\ Len(p) <= 1
      /\ \A n \in DOMAIN p : n = 1 /\ p[n].op = "tickers" /\ p[n].about = insts
      /\ wanted => 1 \in DOMAIN p
  <2>1. [op |-> "tickers", about |-> insts] \in JobStep
    BY <1>5, DeriveThings DEF JobStep, Ops
  <2>2. CASE wanted
    <3>1. p = <<[op |-> "tickers", about |-> insts]>>
      BY <2>2
    <3>. HIDE DEF p
    <3>. QED  BY <2>1, <3>1
  <2>3. CASE ~ wanted
    <3>1. p = <<>>
      BY <2>3
    <3>. HIDE DEF p, wanted
    <3>. QED  BY <2>3, <3>1
  <2>. QED  BY <2>2, <2>3
<1>. HIDE DEF p
<1>8. /\ steps \in Seq(JobStep)
      /\ \A n \in DOMAIN p : n \in DOMAIN steps /\ steps[n] = p[n]
      /\ \A n \in DOMAIN rest : Len(p) + n \in DOMAIN steps /\ steps[Len(p) + n] = rest[n]
      /\ \A n \in DOMAIN steps : \/ n \in DOMAIN p /\ steps[n] = p[n]
                                 \/ n - Len(p) \in DOMAIN rest /\ steps[n] = rest[n - Len(p)]
  <2>1. p \in Seq(JobStep) /\ rest \in Seq(JobStep)
    BY <1>3, <1>7
  <2>. QED  BY <2>1, Joined
<1>. HIDE DEF steps
<1>9. jobs'[market] = steps /\ \A r \in Tasks \ {market} : jobs'[r] = jobs[r] /\ calling'[r] = calling[r]
  BY <1>1, <1>2 DEF JobTypes
<1>10. \A n \in DOMAIN steps : \/ n = 1 /\ steps[n].op = "tickers" /\ steps[n].about = insts
                               \/ steps[n].op = "activate" /\ \E m \in DOMAIN rest : steps[n] = rest[m]
  BY <1>6, <1>7, <1>8
<1>11. \A x : ~ SubscribesBy(market, x)
  <2>1. \A n \in DOMAIN jobs[market] : n = 1 \/ n > 1
    BY <1>3
  <2>. QED  BY <1>1, <1>3, <2>1 DEF DeriveInv, DeriveSteps, SubscribesBy
<1>12. SocketInv' /\ RpcInv'
  BY <1>1, <1>2, <1>8, <1>10, <1>11, BegunKeeps DEF DeriveInv
<1>13. DeriveSteps(market)'
  <2>1. \A m \in DOMAIN rest : \E some \in SUBSET Instruments : rest[m].about = Derive!topics(some)
    <3>1. SUFFICES ASSUME NEW m \in DOMAIN rest
                   PROVE  \E some \in SUBSET Instruments : rest[m].about = Derive!topics(some)
      OBVIOUS
    <3>2. m + 1 \in DOMAIN jobs[market] /\ jobs[market][m + 1] = rest[m] /\ jobs[market][m + 1].op = "activate"
      BY <1>3, <1>6
    <3>. QED  BY <3>2 DEF DeriveInv, DeriveSteps
  <2>2. \A n \in DOMAIN steps : n > 1 => steps[n].op = "activate"
    BY <1>10
  <2>. QED  BY <1>5, <1>9, <1>10, <2>1, <2>2 DEF DeriveSteps
<1>14. \A x : ~ SubscribesBy(market, x)'
  BY <1>9, <1>10 DEF SubscribesBy
<1>15. AdapterInv' /\ \A c \in Chains : Due(c)' = Due(c)
  BY <1>1, SameKeeps DEF AdapterInv
<1>16. ASSUME NEW c \in Chains, Asked(c), NEW i \in Due(c), Looks(market, i)
       PROVE  Looks(market, i)'
  <2>1. PICK n \in DOMAIN jobs[market] : \/ jobs[market][n].op = "tickers" /\ i \in jobs[market][n].about
                                         \/ jobs[market][n].op = "activate" /\ slim(i) \in jobs[market][n].about
    BY <1>16 DEF Looks
  <2>2. CASE n = 1
    <3>1. i \in insts
      BY <1>1, <1>3, <1>4, <1>5, <2>1, <2>2, DeriveThings
    <3>2. chainOf[i] = c /\ Counted(c)
      BY <1>16 DEF Due, Of, AdapterInv, Asked, Counted
    <3>3. 1 \in DOMAIN p
      BY <1>7, <3>1, <3>2
    <3>. QED  BY <1>7, <1>8, <1>9, <3>1, <3>3 DEF Looks
  <2>3. CASE n # 1
    <3>1. n - 1 \in DOMAIN rest /\ rest[n - 1] = jobs[market][n]
      BY <1>3, <2>3
    <3>2. Len(p) + (n - 1) \in DOMAIN steps /\ steps[Len(p) + (n - 1)] = jobs[market][n]
      BY <1>8, <3>1
    <3>. QED  BY <1>9, <2>1, <3>2 DEF Looks
  <2>. QED  BY <2>2, <2>3
<1>17. \A c \in Chains : Asked(c)' => Asked(c)
  BY <1>1 DEF Asked
<1>18. UNCHANGED <<astray, planned>>
  BY <1>1
<1>19. DeriveInv'
  BY <1>9, <1>12, <1>13, <1>14, <1>15, <1>16, <1>17, <1>18, DeriveKept
<1>. QED  BY <1>12, <1>15, <1>19

\* A step of the transport, or a call that reads.
LEMMA DeriveFramed ==
  ASSUME FeedAssumption, DeriveInv, RpcInv', Framed
  PROVE  DeriveInv'
<1>1. JobInv
  BY DEF DeriveInv, RpcInv
<1>2. ASSUME NEW t \in {user, market}, ~ Idle(t), jobs'[t] = Tail(jobs[t])
      PROVE  /\ \A n \in DOMAIN jobs'[t] : n + 1 \in DOMAIN jobs[t] /\ jobs'[t][n] = jobs[t][n + 1] /\ n + 1 > 1
             /\ \A n \in DOMAIN jobs[t] : n = 1 \/ (n - 1 \in DOMAIN jobs'[t] /\ jobs'[t][n - 1] = jobs[t][n])
             /\ First(t) = jobs[t][1] /\ 1 \in DOMAIN jobs[t]
  <2>1. jobs[t] \in Seq(JobStep) /\ jobs[t] # <<>>
    BY <1>1, <1>2, TasksDiffer DEF JobInv, JobTypes, Idle
  <2>. QED  BY <1>2, <2>1 DEF First
<1>3. ASSUME NEW t \in {user, market}
      PROVE  DeriveSteps(t)'
  <2>1. DeriveSteps(t)
    BY DEF DeriveInv
  <2>2. CASE jobs'[t] = jobs[t]
    BY <2>1, <2>2 DEF DeriveSteps
  <2>3. CASE ~ Idle(t) /\ jobs'[t] = Tail(jobs[t])
    <3>1. ASSUME NEW n \in DOMAIN jobs'[t]
          PROVE  n + 1 \in DOMAIN jobs[t] /\ jobs'[t][n] = jobs[t][n + 1] /\ n + 1 > 1
      BY <1>2, <2>3
    <3>2. ASSUME NEW n \in DOMAIN jobs'[t]
          PROVE  jobs'[t][n].op = "activate" /\ \E insts \in SUBSET Instruments : jobs'[t][n].about = Derive!topics(insts)
      BY <2>1, <3>1 DEF DeriveSteps
    <3>. QED  BY <3>2 DEF DeriveSteps
  <2>4. CASE jobs'[t] = <<>>
    BY <2>4 DEF DeriveSteps
  <2>. QED  BY <2>2, <2>3, <2>4 DEF Framed, TakesSteps
<1>4. ASSUME NEW t \in {user, market}, NEW i, Looks(t, i)
      PROVE  Looks(t, i)' \/ slim(i) \in astray'
  <2>1. PICK n \in DOMAIN jobs[t] : \/ jobs[t][n].op = "tickers" /\ i \in jobs[t][n].about
                                    \/ jobs[t][n].op = "activate" /\ slim(i) \in jobs[t][n].about
    BY <1>4 DEF Looks
  <2>2. CASE jobs'[t] = jobs[t]
    BY <1>4, <2>2 DEF Looks
  <2>3. CASE ~ Idle(t) /\ First(t).op \in {"subscribe", "unsubscribe"} /\ jobs'[t] = Tail(jobs[t])
    <3>1. n = 1 \/ (n - 1 \in DOMAIN jobs'[t] /\ jobs'[t][n - 1] = jobs[t][n])
      BY <1>2, <2>3
    <3>2. n # 1
      BY <1>2, <2>1, <2>3
    <3>. QED  BY <2>1, <3>1, <3>2 DEF Looks
  <2>4. CASE ~ Idle(t) /\ First(t).op = "subscribe" /\ Left(t, "activate") \subseteq astray'
    <3>1. jobs[t] \in Seq(JobStep) /\ First(t) = jobs[t][1]
      BY <1>1, TasksDiffer DEF JobInv, JobTypes, First
    <3>2. n # 1 /\ n > 1
      BY <2>1, <2>4, <3>1
    <3>3. jobs[t][n].op = "activate" /\ slim(i) \in jobs[t][n].about
      BY <2>1, <3>2 DEF DeriveInv, DeriveSteps
    <3>4. slim(i) \in Left(t, "activate")
      BY <3>3 DEF Left
    <3>. QED  BY <2>4, <3>4
  <2>. QED  BY <2>2, <2>3, <2>4 DEF Framed, TakesSteps
<1>5. ASSUME NEW c \in Chains, Asked(c)', NEW i \in Due(c)'
      PROVE  /\ slim(i) \in planned' \cup astray' \/ \E t \in {user, market} : Looks(t, i)'
             /\ ToSubscribe(slim(i))' => slim(i) \in planned'
  <2>1. Asked(c) /\ i \in Due(c)
    BY <1>5 DEF Framed, Asked
  <2>2. /\ slim(i) \in planned \cup astray \/ \E t \in {user, market} : Looks(t, i)
        /\ ToSubscribe(slim(i)) => slim(i) \in planned
    BY <2>1 DEF DeriveInv
  <2>3. /\ planned' = planned /\ (ToSubscribe(slim(i))' => ToSubscribe(slim(i)))
        /\ slim(i) \in astray => slim(i) \in astray' \/ ToSubscribe(slim(i))
    BY DEF Framed
  <2>. QED  BY <1>4, <2>2, <2>3
<1>. QED  BY <1>3, <1>5 DEF DeriveInv

\* What Derive's client has of the transport is the transport.
LEMMA DeriveTransport ==
  ASSUME Derive!Transport
  PROVE  Transport
BY Zenon DEF Derive!Tasks, Derive!user, Derive!market, Derive!replay, Derive!Idle, Derive!First, Derive!Runs,
   Derive!Returns, Derive!Quiet, Derive!Asks, Derive!Left, Derive!Abort, Derive!Outcomes, Derive!Sent,
   Derive!CallSubscribe, Derive!CallUnsubscribe, Derive!CallReplay, Derive!Settles, Derive!SettleSubscribe,
   Derive!SettleUnsubscribe, Derive!SettleReplay, Derive!Opened, Derive!AllClosed, Derive!Failed,
   Derive!Closed, Derive!Reconnect, Derive!Market, Derive!Transport, Derive!Begin, Derive!Next1, Derive!Step,
   Derive!Just, Derive!Connected, Derive!Open, Derive!Opens, Derive!Fails, Derive!Drops, Derive!Rejects,
   Derive!Scheduled, Derive!Fault, Derive!Fire, Derive!Dial, Derive!CanDial, Derive!Lists, Derive!Expires,
   Derive!Of, Derive!adapterVars, Derive!timerVars, Derive!socketVars, Derive!rpcVars, Derive!Cardinality,
   Tasks, user, market, replay, Idle, First, Runs, Returns, Quiet, Asks, Left, Abort, Outcomes, Sent,
   CallSubscribe, CallUnsubscribe, CallReplay, Settles, SettleSubscribe, SettleUnsubscribe, SettleReplay,
   Opened, AllClosed, Failed, Closed, Reconnect, Market, Transport, Begin, Next1, Step, Just, Connected, Open,
   Opens, Fails, Drops, Rejects, Scheduled, Fault, Fire, Dial, CanDial, Lists, Expires, Of, adapterVars,
   timerVars, socketVars, rpcVars, Cardinality

\* What Derive's client reads, it reads as the transport has it.
LEMMA DeriveReads ==
  ASSUME NEW t, NEW op, Derive!CallRead(t, op)
  PROVE  CallRead(t, op)
BY Zenon DEF Derive!CallRead, CallRead, Derive!Runs, Runs, Derive!Idle, Idle, Derive!First, First,
   Derive!Sent, Sent, Derive!Outcomes, Outcomes, Derive!Asks, Asks, Derive!Connected, Connected, Derive!Open,
   Open, Derive!Fault, Fault, Derive!adapterVars, adapterVars, Derive!timerVars, timerVars, Derive!socketVars,
   socketVars

\* Every step of Derive's client keeps its invariant.
LEMMA DeriveStep ==
  ASSUME FeedAssumption, AdapterInv, SocketInv, DeriveInv, Derive!Next
  PROVE  AdapterInv' /\ SocketInv' /\ DeriveInv'
<1>1. CASE Derive!Transport
  <2>1. SocketInv' /\ RpcInv' /\ Framed
    BY <1>1, DeriveTransport, TransportKeeps, TransportFrames DEF DeriveInv
  <2>. QED  BY <2>1, DeriveFramed DEF Framed
<1>2. ASSUME NEW t \in {user, market}, NEW op \in {"tickers", "instruments", "details"}, Derive!CallRead(t, op)
      PROVE  AdapterInv' /\ SocketInv' /\ DeriveInv'
  <2>1. CallRead(t, op) /\ t \in Tasks
    BY <1>2, DeriveReads, TasksDiffer
  <2>2. SocketInv' /\ RpcInv' /\ Framed
    BY <2>1, CallReadKeeps, CallFrames DEF DeriveInv
  <2>. QED  BY <2>2, DeriveFramed DEF Framed
<1>. QED
  BY <1>1, <1>2, DeriveSame, DeriveSubscribe, DeriveRelease, DeriveReturn, DeriveTickers, DeriveRefresh,
     DeriveFetched, DeriveActivate DEF Derive!Next

\* Derive begins in a state of its invariant.
LEMMA DeriveFirst ==
  ASSUME FeedAssumption, Derive!Init
  PROVE  AdapterInv /\ SocketInv /\ DeriveInv
<1>1. AdapterInit /\ SocketInit /\ RpcInit
  BY Zenon DEF Derive!Init, Derive!AdapterInit, Derive!SocketInit, Derive!RpcInit, AdapterInit, SocketInit, RpcInit,
               Tasks, Derive!Tasks, user, market, replay, Derive!user, Derive!market, Derive!replay
<1>2. /\ planned = UNION {Derive!topics(Of(c, FirstListed)) : c \in Eager}
      /\ asked = [s \in Sockets |-> IF s = 1 THEN planned ELSE {}]
  BY DEF Derive!Init, Derive!Of, Of
<1>3. AdapterInv /\ SocketInv
  BY <1>1, <1>2 DEF AdapterInit, SocketInit, AdapterInv, SocketInv, FeedAssumption
<1>4. planned \subseteq Things /\ channels = planned /\ channels = asked[1]
  <2>1. \A c : Of(c, FirstListed) \in SUBSET Instruments
    BY DEF Of, FeedAssumption
  <2>2. planned \subseteq Things
    BY <1>2, <2>1, DeriveThings
  <2>. QED  BY <1>1, <1>2, <2>2 DEF RpcInit, FeedAssumption
<1>5. \A t \in Tasks : Idle(t) /\ calling[t] = "no" /\ added[t] = {} /\ jobs[t] = <<>>
  BY <1>1 DEF RpcInit, Idle
<1>6. JobInv
  <2>1. JobTypes
    BY <1>1, <1>4 DEF JobTypes, RpcInit
  <2>2. AddedInv /\ ReplayInv /\ StepInv
    BY <1>5, TasksDiffer DEF AddedInv, ReplayInv, StepInv
  <2>. QED  BY <1>5, <2>1, <2>2, TasksDiffer DEF JobInv, Pending
<1>7. PlannedIsKept
  BY <1>4 DEF PlannedIsKept
<1>8. ChannelIsStreamed
  BY <1>1, <1>4, TasksDiffer DEF ChannelIsStreamed, SeenTo, SocketInit
<1>9. \A c \in Chains : ~ Asked(c)
  BY <1>1 DEF AdapterInit, Asked
<1>. QED  BY <1>3, <1>5, <1>6, <1>7, <1>8, <1>9, TasksDiffer DEF DeriveInv, DeriveSteps, RpcInv

-------------------------------------------------------------------------------
(***************************************************************************)
(* The five clients together.                                              *)
(***************************************************************************)

\* A venue begins in a state of the invariant.
LEMMA FirstInv ==
  ASSUME FeedAssumption, FeedInit
  PROVE  Inv
<1>1. CASE venue = "binance" /\ Binance!Init /\ NoCalls
  BY <1>1, BinanceFirst DEF Inv, NoCalls, Idle
<1>2. CASE venue = "okx" /\ Okx!Init /\ NoCalls
  BY <1>2, OkxFirst DEF Inv, NoCalls, Idle
<1>3. CASE venue = "bybit" /\ Bybit!Init /\ NoCalls
  BY <1>3, BybitFirst DEF Inv, NoCalls, Idle
<1>4. CASE venue = "deribit" /\ Deribit!Init
  BY <1>4, DeribitFirst DEF Inv
<1>5. CASE venue = "derive" /\ Derive!Init
  BY <1>5, DeriveFirst DEF Inv
<1>. QED  BY <1>1, <1>2, <1>3, <1>4, <1>5 DEF FeedInit

\* A step in which no variable changes.
LEMMA StutterInv ==
  ASSUME FeedAssumption, Inv, UNCHANGED feedVars
  PROVE  Inv'
<1>1. UNCHANGED <<venue, requests, matching, trading, ended, listed>>
  BY DEF feedVars, vars, adapterVars
<1>2. UNCHANGED <<sock, ws, timer, strays, asked, planned, pending, answers, badAnswers>>
  BY DEF feedVars, vars, socketVars, timerVars, topicVars
<1>3. UNCHANGED <<channels, jobs, calling, added, astray>>
  BY DEF feedVars, vars, rpcVars
<1>4. (\A t : Idle(t)' = Idle(t)) /\ (\A c : Due(c)' = Due(c)) /\ Connected' = Connected
  BY <1>1, <1>2, <1>3 DEF Idle, Due, Of, Connected, Open
<1>5. AdapterInv' /\ SocketInv'
  BY <1>1, <1>2 DEF Inv, AdapterInv, SocketInv
<1>6. venue = "okx" => OkxInv'
  BY <1>1, <1>2, <1>4 DEF Inv, OkxInv, PlannedIsStreamed, OkxPlans
<1>7. venue = "bybit" => BybitInv'
  BY <1>1, <1>2, <1>4 DEF Inv, BybitInv, PlannedIsStreamed, Asked
<1>8. venue = "binance" => BinanceInv'
  <2>1. AnswersInv => AnswersInv'
    BY <1>2, <1>3 DEF AnswersInv, Open
  <2>2. TrackedInv => TrackedInv'
    BY <1>2, <1>3, <1>4 DEF TrackedInv, Tracked
  <2>3. HolderInv => HolderInv'
    BY <1>1, <1>2, <1>3, <1>4 DEF HolderInv, Tracked, MarkSwept, Of
  <2>. QED  BY <2>1, <2>2, <2>3 DEF Inv, BinanceInv
<1>9. RpcInv => RpcInv'
  <2>1. JobInv => JobInv'
    BY <1>1, <1>2, <1>3 DEF JobInv, JobTypes, AddedInv, ReplayInv, StepInv, Idle, Pending, First, Free, Open
  <2>2. PlannedIsKept => PlannedIsKept'
    BY <1>2, <1>3 DEF PlannedIsKept, ToSubscribe, SubscribesBy, Ahead, Pending
  <2>3. ChannelIsStreamed => ChannelIsStreamed'
    BY <1>2, <1>3, <1>4
       DEF ChannelIsStreamed, Steady, SeenTo, ReplaysBy, LeavesBy, Idle, Pending, First
  <2>. QED  BY <2>1, <2>2, <2>3 DEF RpcInv
<1>10. venue = "deribit" => DeribitInv'
  BY <1>1, <1>2, <1>3, <1>4, <1>9 DEF Inv, DeribitInv, Details, DeribitMarks, Asked
<1>11. venue = "derive" => DeriveInv'
  BY <1>1, <1>2, <1>3, <1>4, <1>9
     DEF Inv, DeriveInv, DeriveSteps, Asked, Looks, ToSubscribe, SubscribesBy, Ahead, Pending
<1>. QED  BY <1>1, <1>4, <1>5, <1>6, <1>7, <1>8, <1>10, <1>11 DEF Inv

\* Every step of every client keeps the invariant.
LEMMA NextInv ==
  ASSUME FeedAssumption, Inv, FeedNext
  PROVE  Inv'
<1>1. UNCHANGED venue
  BY DEF FeedNext
<1>2. CASE venue = "binance" /\ Binance!Next /\ UNCHANGED <<callVars, badAnswers>>
  <2>1. (AdapterInv /\ SocketInv /\ BinanceInv)'
    BY <1>1, <1>2, BinanceStep DEF Inv
  <2>2. \A t \in Tasks : Idle(t)'
    BY <1>2 DEF Inv, callVars, Idle
  <2>. QED  BY <1>1, <1>2, <2>1, <2>2 DEF Inv
<1>3. CASE venue = "okx" /\ Okx!Next /\ UNCHANGED <<rpcVars, topicVars>>
  <2>1. (AdapterInv /\ SocketInv /\ OkxInv)'
    BY <1>3, OkxStep DEF Inv
  <2>2. \A t \in Tasks : Idle(t)'
    BY <1>3 DEF Inv, rpcVars, Idle
  <2>. QED  BY <1>1, <1>3, <2>1, <2>2 DEF Inv
<1>4. CASE venue = "bybit" /\ Bybit!Next /\ UNCHANGED <<rpcVars, pending, answers, refreshing>>
  <2>1. (AdapterInv /\ SocketInv /\ BybitInv)'
    BY <1>4, BybitStep DEF Inv
  <2>2. \A t \in Tasks : Idle(t)'
    BY <1>4 DEF Inv, rpcVars, Idle
  <2>. QED  BY <1>1, <1>4, <2>1, <2>2 DEF Inv
<1>5. CASE venue = "deribit" /\ Deribit!Next
  <2>1. AdapterInv' /\ SocketInv' /\ DeribitInv'
    BY <1>5, DeribitStep DEF Inv
  <2>. QED  BY <1>1, <1>5, <2>1 DEF Inv
<1>6. CASE venue = "derive" /\ Derive!Next
  <2>1. AdapterInv' /\ SocketInv' /\ DeriveInv'
    BY <1>6, DeriveStep DEF Inv
  <2>. QED  BY <1>1, <1>6, <2>1 DEF Inv
<1>. QED  BY <1>2, <1>3, <1>4, <1>5, <1>6 DEF FeedNext

\* Every state of every client satisfies the invariant.
LEMMA Invariance == FeedSpec => []Inv
<1>1. FeedInit => Inv
  BY FirstInv, FeedAssumption
<1>2. Inv /\ [FeedNext]_feedVars => Inv'
  BY NextInv, StutterInv, FeedAssumption
<1>. QED  BY <1>1, <1>2, PTL DEF FeedSpec

-------------------------------------------------------------------------------
(***************************************************************************)
(* What the invariant means for a holder.                                  *)
(***************************************************************************)

\* What the holder of a chain should see is what its request stands for.
LEMMA WantedIsDue ==
  ASSUME FeedAssumption, AdapterInv, NEW c \in Chains
  PROVE  \A i \in Wanted(c) : i \in Due(c) /\ i \in Instruments /\ chainOf[i] = c
BY DEF Wanted, Due, Of, AdapterInv

\* Without a job under way nothing is still to be subscribed to.
LEMMA IdleIsDone ==
  ASSUME RpcInv, \A t \in Tasks : Idle(t)
  PROVE  /\ planned \subseteq channels \cup astray
         /\ \A i : \A t \in Tasks : ~ Looks(t, i)
<1>1. \A t \in Tasks : DOMAIN jobs[t] = {}
  BY DEF Idle
<1>2. \A x : ~ ToSubscribe(x)
  BY <1>1 DEF ToSubscribe, SubscribesBy
<1>3. planned \subseteq channels \cup astray
  BY <1>2 DEF RpcInv, PlannedIsKept
<1>. QED  BY <1>1, <1>3 DEF Looks

\* Whoever holds a chain of OKX has what it needs.
LEMMA OkxNeeds ==
  ASSUME FeedAssumption, AdapterInv, OkxInv, venue = "okx",
         NEW c \in Chains, requests[c] = "held", NEW need \in Needs(c)
  PROVE  need \cap Replayed # {}
<1>1. PICK topic \in Okx!ChainArgs(c, Wanted(c)) : need = {topic}
  BY DEF Needs
<1>2. topic \in planned
  BY <1>1, WantedIsDue DEF Okx!ChainArgs, Okx!PerInstrument, Okx!family, OkxInv, OkxPlans
<1>. QED  BY <1>1, <1>2 DEF Replayed

\* Whoever holds a chain of Bybit has what it needs.
LEMMA BybitNeeds ==
  ASSUME FeedAssumption, AdapterInv, BybitInv, venue = "bybit", badAnswers = 0,
         NEW c \in Chains, requests[c] = "held", NEW need \in Needs(c)
  PROVE  need \cap Replayed # {}
<1>1. PICK topic \in Bybit!topics(Wanted(c)) : need = {topic}
  BY DEF Needs
<1>2. topic \in planned
  BY <1>1, WantedIsDue DEF Bybit!topics, BybitInv, Asked
<1>. QED  BY <1>1, <1>2 DEF Replayed

\* Whoever holds a chain of Binance has what it needs.
LEMMA BinanceNeeds ==
  ASSUME FeedAssumption, AdapterInv, BinanceInv, venue = "binance",
         NEW c \in Chains, requests[c] = "held", NEW need \in Needs(c)
  PROVE  need \cap (Replayed \cup astray) # {} \/ (MarkSwept(c) /\ need = {Binance!mark(baseOf[c])})
<1>1. Replayed = Tracked
  BY DEF Replayed, Tracked
<1>2. CASE need = {Binance!mark(baseOf[c])}
  BY <1>1, <1>2 DEF BinanceInv, HolderInv
<1>3. CASE \E i \in Wanted(c) : need = {Binance!oi(chainOf[i])}
  <2>1. Due(c) # {} /\ need = {Binance!oi(c)}
    BY <1>3, WantedIsDue
  <2>. QED  BY <1>1, <2>1 DEF BinanceInv, HolderInv
<1>. QED  BY <1>2, <1>3 DEF Needs

\* Whoever holds a chain of Deribit has what it needs.
LEMMA DeribitNeeds ==
  ASSUME FeedAssumption, AdapterInv, DeribitInv, venue = "deribit", \A t \in Tasks : Idle(t),
         NEW c \in Chains, requests[c] = "held", NEW need \in Needs(c)
  PROVE  need \cap (Replayed \cup astray) # {}
<1>1. planned \subseteq Replayed \cup astray
  BY IdleIsDone DEF DeribitInv, Replayed
<1>2. DeribitMarks(c)
  BY DEF DeribitInv, Asked
<1>3. CASE need = {Deribit!index(baseOf[c])}
  BY <1>1, <1>2, <1>3 DEF DeribitMarks
<1>4. CASE \E i \in Wanted(c) : need = Deribit!Tickers({i})
  <2>1. PICK i \in Due(c) : need = Deribit!Tickers({i})
    BY <1>4, WantedIsDue
  <2>2. Deribit!ticker(i, "agg2") \in need /\ Deribit!ticker(i, "100ms") \in need
    BY <2>1 DEF Deribit!Tickers
  <2>. QED  BY <1>1, <1>2, <2>2 DEF DeribitMarks
<1>. QED  BY <1>3, <1>4 DEF Needs

\* Whoever holds a chain of Derive has what it needs.
LEMMA DeriveNeeds ==
  ASSUME FeedAssumption, AdapterInv, DeriveInv, venue = "derive", \A t \in Tasks : Idle(t),
         NEW c \in Chains, requests[c] = "held", NEW need \in Needs(c)
  PROVE  need \cap (Replayed \cup astray) # {}
<1>1. planned \subseteq Replayed \cup astray
  BY IdleIsDone DEF DeriveInv, Replayed
<1>2. PICK i \in Wanted(c) : need = {slim(i)}
  BY DEF Needs, Derive!topics, slim
<1>3. slim(i) \in planned \cup astray
  BY <1>2, WantedIsDue, IdleIsDone DEF DeriveInv, Asked, Tasks
<1>. QED  BY <1>1, <1>2, <1>3

\* Whoever holds a chain of any venue has what it needs among what a reconnect
\* would ask for: subscribeChain, unsubscribeChain, the listings and sweeps of the
\* five ws-clients, and both transports' reconnects, in any order.
THEOREM HolderIsReplayed == FeedSpec => []HeldIsReplayed
<1>1. Inv => HeldIsReplayed
  <2>1. SUFFICES ASSUME Inv, badAnswers = 0, \A t \in Tasks : Idle(t),
                        NEW c \in Chains, requests[c] = "held", NEW need \in Needs(c)
                 PROVE  \/ need \cap (Replayed \cup astray) # {}
                        \/ MarkSwept(c) /\ need = {Binance!mark(baseOf[c])}
    BY DEF HeldIsReplayed
  <2>. QED
    BY <2>1, FeedAssumption, OkxNeeds, BybitNeeds, BinanceNeeds, DeribitNeeds, DeriveNeeds DEF Inv
<1>. QED  BY <1>1, Invariance, PTL

\* An open current socket streams all that would be asked for after a reconnect:
\* ensureConnected, the replay of TopicWsClient and the resubscription of
\* JsonRpcWsClient send nothing to a closed or an older socket and take it for done.
THEOREM ReplayIsStreamed == FeedSpec => []ReplayedIsStreamed
<1>1. Inv => ReplayedIsStreamed
  <2>1. SUFFICES ASSUME Inv, Connected, venue \in {"deribit", "derive"} => Still
                 PROVE  Replayed \subseteq asked[ws] \cup astray
    BY DEF ReplayedIsStreamed
  <2>2. CASE venue \in {"okx", "bybit"}
    BY <2>1, <2>2 DEF Inv, OkxInv, BybitInv, PlannedIsStreamed, Replayed
  <2>3. CASE venue = "binance"
    BY <2>1, <2>3 DEF Inv, BinanceInv, TrackedInv, Tracked, Replayed
  <2>4. CASE venue \in {"deribit", "derive"}
    <3>1. RpcInv /\ Still
      BY <2>1, <2>4 DEF Inv, DeribitInv, DeriveInv
    <3>2. Steady
      BY <2>1, <3>1 DEF Still, Steady
    <3>3. \A t \in Tasks : DOMAIN jobs[t] = {} /\ added[t] = {}
      BY <3>1 DEF RpcInv, JobInv, AddedInv, Still, Idle
    <3>4. \A x : \A t \in Tasks : SeenTo(t, x) => x \in asked[ws]
      BY <3>1, <3>3 DEF SeenTo, ReplaysBy, LeavesBy, Still
    <3>5. channels \subseteq asked[ws]
      BY <3>1, <3>2, <3>4 DEF RpcInv, ChannelIsStreamed
    <3>. QED  BY <2>4, <3>5 DEF Replayed
  <2>. QED  BY <2>1, <2>2, <2>3, <2>4 DEF Inv
<1>. QED  BY <1>1, Invariance, PTL
===============================================================================
