------------------------------ MODULE BybitFeed ------------------------------
(***************************************************************************)
(* BybitWsAdapter and its planner over TopicWsClient.  `planned` is        *)
(* subscribedTopics.  Bybit has no channel for listings: the instruments   *)
(* are read again every ten minutes, one underlying (baseCoin) after the   *)
(* other; the model takes the answers of one refresh together.             *)
(***************************************************************************)
EXTENDS VenueFeed

CONSTANT MaxBadAnswers   \* bound on instrument pages with a retCode other than 0

VARIABLE badAnswers

vars == <<adapterVars, timerVars, socketVars, faults, asked, planned, badAnswers>>

topics(insts) == {<<"tickers", i>> : i \in insts}

Init ==
  /\ AdapterInit
  /\ SocketInit
  /\ planned = UNION {topics(Of(c, FirstListed)) : c \in Eager}
  /\ asked = [s \in Sockets |-> IF s = 1 THEN planned ELSE {}]
  /\ badAnswers = 0

\* The topics are marked before ensureConnected is awaited; a chain whose topics
\* are all marked needs no connection.
Subscribe(c) ==
  LET insts == Of(c, listed)
      new == topics(insts) \ planned
  IN  /\ Free
      /\ requests[c] = "idle"
      /\ matching' = [matching EXCEPT ![c] = insts]
      /\ planned' = planned \cup new
      /\ UNCHANGED <<trading, ended, listed, timerVars, faults, badAnswers>>
      /\ IF new = {} \/ Connected
         THEN /\ UNCHANGED socketVars
              /\ SetRequest(c, "held")
              /\ Asking(new)
         ELSE /\ Dial("call")
              /\ SetRequest(c, "subscribing")
              /\ UNCHANGED asked

Release(c) ==
  /\ Free
  /\ requests[c] = "held"
  /\ SetRequest(c, "idle")
  /\ matching' = [matching EXCEPT ![c] = {}]
  /\ UNCHANGED <<trading, ended, listed, timerVars, socketVars, faults, badAnswers>>
  /\ IF Connected
     THEN /\ planned' = planned \ topics(matching[c])
          /\ Dropping(topics(matching[c]) \cap planned)
     ELSE UNCHANGED <<planned, asked>>

\* 'open': replay; the call that awaited this socket then asks once more for
\* its topics, expired or not.
Opened(s) ==
  LET waiting == {c \in Chains : opener[s] = "call" /\ requests[c] = "subscribing"}
  IN  /\ Opens(s)
      /\ Asking(planned \cup UNION {topics(matching[c]) : c \in waiting})
      /\ requests' = [c \in Chains |-> IF c \in waiting THEN "held" ELSE requests[c]]
      /\ UNCHANGED <<matching, trading, ended, listed, faults, planned, badAnswers>>

Failed(s) ==
  /\ Fails(s)
  /\ requests' = [c \in Chains |->
       IF opener[s] = "call" /\ requests[c] = "subscribing" /\ Rejects THEN "stuck" ELSE requests[c]]
  /\ UNCHANGED <<matching, trading, ended, listed, planned, badAnswers>>

\* Mutant: a lost connection is not replaced.
ClosedForGood(s) ==
  /\ Drops(s)
  /\ UNCHANGED <<timerVars, adapterVars, planned, badAnswers>>

Closed(s) ==
  /\ Drops(s)
  /\ Scheduled(1)
  /\ UNCHANGED <<adapterVars, planned, badAnswers>>

Reconnect ==
  /\ Fire
  /\ IF Connected THEN UNCHANGED socketVars ELSE Dial("timer")
  /\ UNCHANGED <<adapterVars, asked, planned, badAnswers>>

\* The instruments of an underlying that refreshInstruments takes for active:
\* what Bybit lists, all it knows if the request failed, none if the answer
\* was an error.
Active(answer, b) ==
  LET mine(insts) == {i \in insts : baseOf[chainOf[i]] = b}
  IN  CASE answer = "listed" -> mine(trading)
        [] answer = "failed" -> mine(listed)
        [] answer = "error"  -> {}

Refresh ==
  \E answer \in [{baseOf[c] : c \in Chains} -> {"listed", "failed", "error"}] :
    LET bad == {b \in DOMAIN answer : answer[b] = "error"}
        active == UNION {Active(answer[b], b) : b \in DOMAIN answer}
        gone == listed \ active
        new == active \ listed
    IN  /\ badAnswers + Cardinality(bad) <= MaxBadAnswers
        /\ badAnswers' = badAnswers + Cardinality(bad)
        /\ gone \cup new # {}
        /\ listed' = (listed \ gone) \cup new
        /\ planned' = (planned \ topics(gone)) \cup topics(new)
        /\ asked' = IF Connected
                    THEN [asked EXCEPT ![ws] = (@ \ (topics(gone) \cap planned)) \cup topics(new)]
                    ELSE asked
        /\ UNCHANGED <<requests, matching, trading, ended, timerVars, socketVars, faults>>

Market ==
  /\ \/ \E i \in Instruments : Lists(i)
     \/ \E c \in Chains : Expires(c)
  /\ UNCHANGED <<timerVars, socketVars, asked, planned, badAnswers>>

Next ==
  \/ Market
  \/ Refresh
  \/ Reconnect
  \/ \E c \in Chains : Subscribe(c) \/ Release(c)
  \/ \E s \in Sockets : Opened(s) \/ Failed(s) \/ Closed(s)
==============================================================================
