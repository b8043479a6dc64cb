------------------------------- MODULE OkxFeed -------------------------------
(***************************************************************************)
(* OkxWsAdapter and its planner over TopicWsClient.  The planner's three   *)
(* sets are one: `planned` holds a family's greeks and an instrument's     *)
(* ticker and mark price.  OKX's answers to requests are ignored.          *)
(***************************************************************************)
EXTENDS VenueFeed

vars == <<adapterVars, timerVars, socketVars, faults, asked, planned>>

family(b)  == <<"opt-summary", b>>
news       == <<"instruments">>
PerInstrument(insts) == {<<"tickers", i>> : i \in insts} \cup {<<"mark-price", i>> : i \in insts}

ChainArgs(c, insts) == {family(baseOf[c])} \cup PerInstrument(insts)

\* loadMarkets has subscribed to the nearest expiry, which opened the socket.
Init ==
  /\ AdapterInit
  /\ SocketInit
  /\ planned = UNION {ChainArgs(c, Of(c, FirstListed)) : c \in Eager}
  /\ asked = [s \in Sockets |-> IF s = 1 THEN planned \cup {news} ELSE {}]

\* ensureConnected dials unless the current socket is open, even when one is
\* on its way; the plan is made after the await.
Subscribe(c) ==
  LET insts == Of(c, listed)
  IN  /\ Free
      /\ requests[c] = "idle"
      /\ matching' = [matching EXCEPT ![c] = insts]
      /\ UNCHANGED <<trading, ended, listed, timerVars, faults>>
      /\ IF Connected
         THEN /\ UNCHANGED socketVars
              /\ SetRequest(c, "held")
              /\ planned' = planned \cup ChainArgs(c, insts)
              /\ Asking(ChainArgs(c, insts) \ planned)
         ELSE /\ Dial("call")
              /\ SetRequest(c, "subscribing")
              /\ UNCHANGED <<planned, asked>>

Release(c) ==
  LET args == PerInstrument(matching[c]) \cup IF LastOf(c) THEN {family(baseOf[c])} ELSE {}
  IN  /\ Free
      /\ requests[c] = "held"
      /\ SetRequest(c, "idle")
      /\ matching' = [matching EXCEPT ![c] = {}]
      /\ UNCHANGED <<trading, ended, listed, timerVars, socketVars, faults>>
      /\ IF Connected
         THEN planned' = planned \ args /\ Dropping(args \cap planned)
         ELSE UNCHANGED <<planned, asked>>

\* 'open': replay, then onOpen, then the call that awaited this socket goes on.
Opened(s) ==
  LET waiting == {c \in Chains : opener[s] = "call" /\ requests[c] = "subscribing"}
      args == UNION {ChainArgs(c, matching[c]) : c \in waiting}
  IN  /\ Opens(s)
      /\ planned' = planned \cup args
      /\ Asking(planned \cup {news} \cup args)
      /\ requests' = [c \in Chains |-> IF c \in waiting THEN "held" ELSE requests[c]]
      /\ UNCHANGED <<matching, trading, ended, listed, faults>>

\* The call that awaited this socket is rejected, or is never heard of again
\* when another socket is open by now.
Failed(s) ==
  /\ Fails(s)
  /\ requests' = [c \in Chains |->
       IF opener[s] = "call" /\ requests[c] = "subscribing" /\ Rejects THEN "stuck" ELSE requests[c]]
  /\ UNCHANGED <<matching, trading, ended, listed, planned>>

Closed(s) ==
  /\ Drops(s)
  /\ Scheduled(1)
  /\ UNCHANGED <<adapterVars, planned>>

Reconnect ==
  /\ Fire
  /\ IF Connected THEN UNCHANGED socketVars ELSE Dial("timer")
  /\ UNCHANGED <<adapterVars, asked, planned>>

\* handleWsInstruments
NewInstrument(i) ==
  /\ i \in trading \ listed
  /\ \E s \in Sockets : Open(s) /\ news \in asked[s]
  /\ listed' = listed \cup {i}
  /\ UNCHANGED <<requests, matching, trading, ended, timerVars, socketVars, faults>>
  /\ planned' = planned \cup PerInstrument({i})
  /\ Asking(PerInstrument({i}) \ planned)

\* refreshOi and refreshMarkPrice begin with a sweep, which tells OKX nothing.
Sweep ==
  /\ Expired # {}
  /\ Swept
  /\ Unlisted
  /\ planned' = planned \ PerInstrument(Expired)
  /\ UNCHANGED <<timerVars, socketVars, faults, asked>>

Market ==
  /\ \/ \E i \in Instruments : Lists(i)
     \/ \E c \in Chains : Expires(c)
  /\ UNCHANGED <<timerVars, socketVars, asked, planned>>

Next ==
  \/ Market
  \/ Sweep
  \/ Reconnect
  \/ \E c \in Chains : Subscribe(c) \/ Release(c)
  \/ \E i \in Instruments : NewInstrument(i)
  \/ \E s \in Sockets : Opened(s) \/ Failed(s) \/ Closed(s)
==============================================================================
