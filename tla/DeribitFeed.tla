----------------------------- MODULE DeribitFeed -----------------------------
(***************************************************************************)
(* DeribitWsAdapter and its planner.  `planned` holds the two channels of  *)
(* an index (one element, they come and go together) and each ticker with  *)
(* its interval: agg2 for what boot and listings subscribe to, 100ms for   *)
(* the chains somebody looks at.                                           *)
(***************************************************************************)
EXTENDS RpcFeed

index(b)       == <<"index", b>>
ticker(i, ivl) == <<"ticker", i, ivl>>
lifecycle      == <<"instrument.state">>

Tickers(insts) == {ticker(i, ivl) : i \in insts, ivl \in {"agg2", "100ms"}}

\* buildDeribitSubscriptionPlan: an interval replaces a slower one.
Better(ivl, i) ==
  /\ ticker(i, "100ms") \notin planned
  /\ ivl = "agg2" => ticker(i, "agg2") \notin planned

Upgraded(insts, ivl) == {i \in insts : Better(ivl, i)}

PlanFor(b, insts, ivl) ==
  planned' = (planned \ Tickers(Upgraded(insts, ivl)))
               \cup {index(b)} \cup {ticker(i, ivl) : i \in Upgraded(insts, ivl)}

PlanSteps(b, insts, ivl) ==
  Just("subscribe", {index(b)} \ planned)
    \o Just("unsubscribe", Tickers(Upgraded(insts, ivl)) \cap planned)
    \o Just("subscribe", {ticker(i, ivl) : i \in Upgraded(insts, ivl)})

\* At boot every expiry is subscribed to, whoever looks at it.
Init ==
  /\ AdapterInit
  /\ SocketInit
  /\ planned = UNION {{index(baseOf[chainOf[i]]), ticker(i, "agg2")} : i \in FirstListed}
  /\ asked = [s \in Sockets |-> IF s = 1 THEN planned \cup {lifecycle} ELSE {}]
  /\ RpcInit

Subscribe(c) ==
  LET insts == Of(c, listed)
  IN  /\ Quiet /\ Free
      /\ requests[c] = "idle"
      /\ matching' = [matching EXCEPT ![c] = insts]
      /\ SetRequest(c, "subscribing")
      /\ PlanFor(baseOf[c], insts, "100ms")
      /\ Begin(user, PlanSteps(baseOf[c], insts, "100ms"))
      /\ UNCHANGED <<trading, ended, listed, timerVars, socketVars, faults, asked,
                     channels, calling, added, astray>>

\* A released ticker is not put back to agg2.
Release(c) ==
  LET mine == Tickers(matching[c]) \cup IF LastOf(c) THEN {index(baseOf[c])} ELSE {}
  IN  /\ Quiet /\ Free
      /\ requests[c] = "held"
      /\ SetRequest(c, "releasing")
      /\ planned' = planned \ mine
      /\ Begin(user, Just("unsubscribe", mine \cap planned))
      /\ UNCHANGED <<matching, trading, ended, listed, timerVars, socketVars, faults, asked,
                     channels, calling, added, astray>>

Return(c) ==
  /\ Returns(c)
  /\ SetRequest(c, IF requests[c] = "subscribing" THEN "held" ELSE "idle")
  /\ matching' = IF requests[c] = "releasing" THEN [matching EXCEPT ![c] = {}] ELSE matching
  /\ UNCHANGED <<trading, ended, listed, timerVars, socketVars, faults, asked, planned, rpcVars>>

\* A flush of instrument.state finds new instruments: their details are asked
\* for first.  One flush at a time.
Pushes == \E s \in Sockets : Open(s) /\ lifecycle \in asked[s]

InstrumentOpened(i) ==
  /\ Quiet /\ Idle(market) /\ Pushes
  /\ i \in trading \ listed
  /\ Begin(market, <<Step("details", {i})>>)
  /\ UNCHANGED <<adapterVars, timerVars, socketVars, faults, asked, planned,
                 channels, calling, added, astray>>

\* The details register the instrument and plan it; without them it is dropped.
DetailsFetched ==
  LET insts == First(market).about
      b == CHOOSE x \in {baseOf[chainOf[i]] : i \in insts} : TRUE
  IN  /\ Settles(market) /\ First(market).op = "details"
      /\ calling' = [calling EXCEPT ![market] = "no"]
      /\ UNCHANGED <<requests, matching, trading, ended, timerVars, socketVars, faults, asked,
                     channels, added, astray>>
      /\ IF calling[market] = "answered"
         THEN /\ listed' = listed \cup insts
              /\ PlanFor(b, insts, "agg2")
              /\ Begin(market, PlanSteps(b, insts, "agg2"))
         ELSE Begin(market, <<>>) /\ UNCHANGED <<listed, planned>>

\* A flush finds delivered instruments.
InstrumentsDelivered ==
  /\ Quiet /\ Idle(market) /\ Pushes
  /\ Expired # {}
  /\ Swept
  /\ Unlisted
  /\ planned' = planned \ Tickers(Expired)
  /\ Begin(market, Just("unsubscribe", Tickers(Expired) \cap planned))
  /\ UNCHANGED <<timerVars, socketVars, faults, asked, channels, calling, added, astray>>

Next ==
  \/ Transport
  \/ \E c \in Chains : Subscribe(c) \/ Release(c) \/ Return(c)
  \/ \E i \in Instruments : InstrumentOpened(i)
  \/ InstrumentsDelivered
  \/ CallRead(market, "details")
  \/ DetailsFetched
==============================================================================
