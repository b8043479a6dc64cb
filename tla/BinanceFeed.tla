----------------------------- MODULE BinanceFeed -----------------------------
(***************************************************************************)
(* BinanceWsAdapter and its planner over TopicWsClient.  A stream is the   *)
(* mark prices of an underlying, the open interest of a chain, or the new  *)
(* listings.  `planned` is subscribedStreams; a stream is `pending` until  *)
(* Binance has answered the request for it.                                *)
(***************************************************************************)
EXTENDS VenueFeed, Sequences

CONSTANT MaxAwaited   \* bound on requests that wait for their answer

VARIABLES
  pending,    \* pendingSubscribeStreams
  answers,    \* per socket: the answers on their way, [streams, accepted]
  refreshing, \* whether an exchangeInfo request of a reconnect is under way
  astray      \* streams that were refused, or stopped before their answer came

vars == <<adapterVars, timerVars, socketVars, faults, asked, planned,
          pending, answers, refreshing, astray>>

mark(b) == <<"mark", b>>
oi(c)   == <<"oi", c>>
symbols == <<"symbols">>

tracked == planned \cup pending

OiStreams(insts) == {oi(chainOf[i]) : i \in insts}

InitialStreams(insts) ==
  {mark(baseOf[chainOf[i]]) : i \in insts} \cup {symbols} \cup OiStreams(insts)

ChainStreams(c, insts) == {mark(baseOf[c])} \cup OiStreams(insts)

\* connectAndSubscribe has sent the first request; its answer is on its way.
Init ==
  /\ AdapterInit
  /\ SocketInit
  /\ planned = {}
  /\ pending = InitialStreams(FirstListed)
  /\ asked = [s \in Sockets |-> IF s = 1 THEN pending ELSE {}]
  /\ answers = [s \in Sockets |->
                 IF s = 1 THEN <<[streams |-> pending, accepted |-> TRUE]>> ELSE <<>>]
  /\ refreshing = FALSE
  /\ astray = {}

\* A SUBSCRIBE for the streams, if the socket is open; Binance may refuse it.
SendSubscribe(streams) ==
  IF streams = {} \/ ~ Sending
  THEN UNCHANGED <<asked, answers, faults, astray>>
  ELSE \E accepted \in BOOLEAN :
         /\ IF accepted THEN UNCHANGED faults ELSE Fault
         /\ answers' = [answers EXCEPT ![ws'] =
                          Append(@, [streams |-> streams, accepted |-> accepted])]
         /\ IF accepted THEN Asking(streams) ELSE UNCHANGED asked
         /\ astray' = IF accepted THEN astray \ streams ELSE astray \cup streams

Room == Connected => Len(answers[ws]) < MaxAwaited

Subscribe(c) ==
  LET insts == Of(c, listed)
      new == ChainStreams(c, insts) \ tracked
  IN  /\ Free /\ Room
      /\ requests[c] = "idle"
      /\ SetRequest(c, "held")
      /\ matching' = [matching EXCEPT ![c] = insts]
      /\ pending' = pending \cup new
      /\ UNCHANGED <<trading, ended, listed, timerVars, socketVars, planned, refreshing>>
      /\ SendSubscribe(new)

Stopped(c) ==
  (OiStreams(matching[c]) \cup IF LastOf(c) THEN {mark(baseOf[c])} ELSE {}) \cap tracked

\* Only streams that were confirmed are taken back at the exchange, and nothing
\* happens while the socket is closed.
Release(c) ==
  /\ Free
  /\ requests[c] = "held"
  /\ SetRequest(c, "idle")
  /\ matching' = [matching EXCEPT ![c] = {}]
  /\ UNCHANGED <<trading, ended, listed, timerVars, socketVars, answers, refreshing, faults>>
  /\ IF Connected
     THEN /\ planned' = planned \ Stopped(c)
          /\ pending' = pending \ Stopped(c)
          /\ Dropping(Stopped(c) \cap planned)
          /\ astray' = astray \cup
               (Stopped(c) \cap planned \cap UNION {answers[ws][n].streams : n \in DOMAIN answers[ws]})
     ELSE UNCHANGED <<planned, pending, asked, astray>>

\* {result: null, id}: the streams are confirmed, also those no longer tracked.
Confirmed(s) ==
  /\ Open(s) /\ answers[s] # <<>> /\ Head(answers[s]).accepted
  /\ answers' = [answers EXCEPT ![s] = Tail(@)]
  /\ planned' = planned \cup Head(answers[s]).streams
  /\ pending' = pending \ Head(answers[s]).streams
  /\ UNCHANGED <<adapterVars, timerVars, socketVars, faults, asked, refreshing, astray>>

\* {code, msg, id}: the streams of the request are given up, also if a later
\* request for them is under way.
Refused(s) ==
  /\ Open(s) /\ answers[s] # <<>> /\ ~ Head(answers[s]).accepted
  /\ answers' = [answers EXCEPT ![s] = Tail(@)]
  /\ pending' = pending \ Head(answers[s]).streams
  /\ astray' = astray \cup Head(answers[s]).streams
  /\ UNCHANGED <<adapterVars, timerVars, socketVars, faults, asked, planned, refreshing>>

\* {code, msg} without an id: every pending stream is given up, and later
\* answers are answers to nothing.
RefusedAll(s) ==
  /\ Open(s) /\ answers[s] # <<>> /\ ~ Head(answers[s]).accepted
  /\ pending' = {}
  /\ astray' = astray \cup pending
  /\ answers' = [r \in Sockets |->
       LET rest == IF r = s THEN Tail(answers[s]) ELSE answers[r]
       IN  [n \in DOMAIN rest |-> [rest[n] EXCEPT !.streams = {}]]]
  /\ UNCHANGED <<adapterVars, timerVars, socketVars, faults, asked, planned, refreshing>>

\* handleNewSymbol
NewSymbol(i) ==
  /\ i \in trading \ listed
  /\ Room
  /\ \E s \in Sockets : Open(s) /\ symbols \in asked[s]
  /\ listed' = listed \cup {i}
  /\ pending' = pending \cup (OiStreams({i}) \ tracked)
  /\ UNCHANGED <<requests, matching, trading, ended, timerVars, socketVars, planned, refreshing>>
  /\ SendSubscribe(OiStreams({i}) \ tracked)

\* sweepExpiredState: the initial streams of the removed instruments are
\* untracked, their underlying's mark prices and the listings with them.
SweptStreams == IF Expired = {} THEN {} ELSE InitialStreams(Expired)

Untrack(streams) ==
  /\ planned' = planned \ streams
  /\ pending' = pending \ streams

\* The five-minute ticker snapshot begins with a sweep.
Sweep ==
  /\ Expired # {}
  /\ Swept
  /\ Untrack(SweptStreams)
  /\ Unlisted
  /\ UNCHANGED <<timerVars, socketVars, faults, asked, answers, refreshing, astray>>

\* 'open': what is tracked is asked for again, then the refresh begins with a
\* sweep and a request.  (The replay is sent on the client's current socket.)
Opened(s) ==
  /\ Opens(s)
  /\ SendSubscribe(tracked)
  /\ Swept
  /\ Untrack(SweptStreams)
  /\ refreshing' = TRUE
  /\ Unlisted

\* The answer of exchangeInfo: new instruments, their streams put among the
\* confirmed ones at once; or no answer.
Refreshed(answered) ==
  LET new == trading \ listed
      streams == OiStreams(new) \ planned
  IN  /\ refreshing /\ Room
      /\ refreshing' = FALSE
      /\ UNCHANGED <<timerVars, socketVars, pending>>
      /\ Unlisted
      /\ IF answered
         THEN /\ listed' = listed \cup new
              /\ planned' = planned \cup streams
              /\ SendSubscribe(streams)
         ELSE UNCHANGED <<listed, planned, asked, answers, faults, astray>>

Failed(s) ==
  /\ Fails(s)
  /\ UNCHANGED <<adapterVars, planned, pending, answers, refreshing, astray>>

Closed(s) ==
  /\ Drops(s)
  /\ Scheduled(1)
  /\ answers' = [answers EXCEPT ![s] = <<>>]
  /\ UNCHANGED <<adapterVars, planned, pending, refreshing, astray>>

\* connect, unless the current socket is open already.
Reconnect ==
  /\ Fire
  /\ IF Connected THEN UNCHANGED socketVars ELSE Dial("timer")
  /\ UNCHANGED <<adapterVars, asked, planned, pending, answers, refreshing, astray>>

Market ==
  /\ \/ \E i \in Instruments : Lists(i)
     \/ \E c \in Chains : Expires(c)
  /\ UNCHANGED <<timerVars, socketVars, asked, planned, pending, answers, refreshing, astray>>

Next ==
  \/ Market
  \/ Sweep
  \/ Reconnect
  \/ \E c \in Chains : Subscribe(c) \/ Release(c)
  \/ \E i \in Instruments : NewSymbol(i)
  \/ \E answered \in BOOLEAN : Refreshed(answered)
  \/ \E s \in Sockets : \/ Confirmed(s) \/ Refused(s) \/ RefusedAll(s)
                        \/ Opened(s) \/ Failed(s) \/ Closed(s)
==============================================================================
