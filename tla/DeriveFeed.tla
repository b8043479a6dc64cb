------------------------------ MODULE DeriveFeed ------------------------------
(***************************************************************************)
(* DeriveWsAdapter and its planner.  `planned` is subscribedTickers.  A    *)
(* chain's tickers are read before it is subscribed to, and the plan is    *)
(* made after that await.                                                  *)
(***************************************************************************)
EXTENDS RpcFeed

topics(insts) == {<<"ticker_slim", i>> : i \in insts}

Init ==
  /\ AdapterInit
  /\ SocketInit
  /\ planned = UNION {topics(Of(c, FirstListed)) : c \in Eager}
  /\ asked = [s \in Sockets |-> IF s = 1 THEN planned ELSE {}]
  /\ RpcInit

Subscribe(c) ==
  LET insts == Of(c, listed)
  IN  /\ Quiet /\ Free
      /\ requests[c] = "idle"
      /\ matching' = [matching EXCEPT ![c] = insts]
      /\ SetRequest(c, "subscribing")
      /\ Begin(user, <<Step("tickers", insts)>>)
      /\ UNCHANGED <<trading, ended, listed, timerVars, socketVars, faults, asked, planned,
                     channels, calling, added, astray>>

\* get_tickers is settled, well or badly: what is not marked yet is marked and
\* subscribed to.
TickersFetched(t) ==
  LET new == topics(First(t).about) \ planned
  IN  /\ Settles(t) /\ First(t).op = "tickers"
      /\ planned' = planned \cup new
      /\ Begin(t, Just("subscribe", new) \o Tail(jobs[t]))
      /\ calling' = [calling EXCEPT ![t] = "no"]
      /\ UNCHANGED <<adapterVars, timerVars, socketVars, faults, asked, channels, added, astray>>

Release(c) ==
  /\ Quiet /\ Free
  /\ requests[c] = "held"
  /\ SetRequest(c, "releasing")
  /\ Begin(user, Just("unsubscribe", topics(matching[c]) \cap planned))
  /\ UNCHANGED <<matching, trading, ended, listed, timerVars, socketVars, faults, asked, planned,
                 channels, calling, added, astray>>

\* The marks go when the channels have been given back.
Return(c) ==
  /\ Returns(c)
  /\ SetRequest(c, IF requests[c] = "subscribing" THEN "held" ELSE "idle")
  /\ matching' = IF requests[c] = "releasing" THEN [matching EXCEPT ![c] = {}] ELSE matching
  /\ planned' = IF requests[c] = "releasing" THEN planned \ topics(matching[c]) ELSE planned
  /\ UNCHANGED <<trading, ended, listed, timerVars, socketVars, faults, asked, rpcVars>>

\* refreshInstruments, every ten minutes: a sweep, then get_instruments.
Refresh ==
  /\ Quiet /\ Idle(market)
  /\ Expired # {} \/ trading # listed
  /\ Swept
  /\ Unlisted
  /\ planned' = planned \ topics(Expired)
  /\ Begin(market, <<Step("instruments", {})>>)
  /\ UNCHANGED <<timerVars, socketVars, faults, asked, channels, calling, added, astray>>

\* The elements of a set, one after the other.
Orders(S) == {order \in [1..Cardinality(S) -> S] : S = {order[n] : n \in DOMAIN order}}

\* The answer registers the new instruments and goes on with their chains, in the
\* order the answer has them.
InstrumentsFetched ==
  LET new == IF calling[market] = "answered" THEN trading \ listed ELSE {}
  IN  /\ Settles(market) /\ First(market).op = "instruments"
      /\ listed' = listed \cup new
      /\ \E chains \in Orders({chainOf[i] : i \in new}) :
           Begin(market, [n \in DOMAIN chains |-> Step("activate", topics(Of(chains[n], new)))])
      /\ calling' = [calling EXCEPT ![market] = "no"]
      /\ UNCHANGED <<requests, matching, trading, ended, timerVars, socketVars, faults, asked, planned,
                     channels, added, astray>>

\* activateRefreshedInstruments: a chain is only looked at if somebody holds it.
\* A subscription that fails leaves the loop, and the chains after it with it.
Activate ==
  LET insts == {topic[2] : topic \in First(market).about}
      wanted == \E i \in insts : Counted(chainOf[i])
  IN  /\ Runs(market) /\ First(market).op = "activate"
      /\ Begin(market, (IF wanted THEN <<Step("tickers", insts)>> ELSE <<>>) \o Tail(jobs[market]))
      /\ UNCHANGED <<adapterVars, timerVars, socketVars, faults, asked, planned,
                     channels, calling, added, astray>>

Next ==
  \/ Transport
  \/ \E c \in Chains : Subscribe(c) \/ Release(c) \/ Return(c)
  \/ \E t \in {user, market} : CallRead(t, "tickers") \/ TickersFetched(t)
  \/ Refresh
  \/ CallRead(market, "instruments")
  \/ InstrumentsFetched
  \/ Activate
==============================================================================
