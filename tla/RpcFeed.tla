------------------------------- MODULE RpcFeed -------------------------------
(***************************************************************************)
(* JsonRpcWsClient, below the clients of Deribit and Derive.  A job is an  *)
(* async function that awaits one RPC after the other: the coordinator's   *)
(* subscribe or release (user), what a listing or a refresh sets off     *)
(* (market), and the resubscription after a socket has opened (the       *)
(* socket's own number).  A step of a job is one RPC with what it is for.  *)
(*                                                                         *)
(* The exchange does what it is asked when it is asked, and its answer     *)
(* comes later, in any order.  A request may be refused, or done without   *)
(* an answer in time.  What follows a settled await runs before the next   *)
(* event: events need every job to be Quiet.                               *)
(***************************************************************************)
EXTENDS VenueFeed, Sequences

CONSTANT BatchSize   \* resubscribeBatchSize

VARIABLES
  channels,   \* subscribedChannels
  jobs,       \* per task: the steps that are left
  calling,    \* per task: the pending call of its first step, "no" if none
  added,      \* per task: the channels its pending subscribe has added
  astray      \* channels a settled job left out that nothing will ask for again

rpcVars == <<channels, jobs, calling, added, astray>>
vars == <<adapterVars, timerVars, socketVars, faults, asked, planned, rpcVars>>

user == <<"user">>
market == <<"market">>
replay(s) == <<"replay", s>>

Tasks == {user, market} \cup {replay(s) : s \in Sockets}

Step(op, about) == [op |-> op, about |-> about]

\* A step, if it has something to do.
Just(op, about) == IF about = {} THEN <<>> ELSE <<Step(op, about)>>

Idle(t)  == jobs[t] = <<>>
First(t) == jobs[t][1]
Runs(t) == ~ Idle(t) /\ calling[t] = "no"

\* The coordinator's call for chain c has come to its end.
Returns(c) == requests[c] \in {"subscribing", "releasing"} /\ Idle(user)

Quiet ==
  /\ \A t \in Tasks : Idle(t) \/ calling[t] \in {"answered", "refused", "late"}
  /\ \A c \in Chains : ~ Returns(c)

RpcInit ==
  /\ channels = asked[1]
  /\ jobs = [t \in Tasks |-> <<>>]
  /\ calling = [t \in Tasks |-> "no"]
  /\ added = [t \in Tasks |-> {}]
  /\ astray = {}

Begin(t, steps) == jobs' = [jobs EXCEPT ![t] = steps]

Next1(t) == /\ jobs' = [jobs EXCEPT ![t] = Tail(@)]
            /\ calling' = [calling EXCEPT ![t] = "no"]

Asks(op) == op \in {"subscribe", "replay"}

\* What the steps of job t that are left are about, those of kind op.
Left(t, op) == UNION {jobs[t][n].about : n \in {m \in DOMAIN jobs[t] : jobs[t][m].op = op}}

\* An exception leaves the job.  What it would still have subscribed to is
\* marked by the planner, or is no longer new, and so is astray; a resubscription
\* is scheduled again.
Abort(t) ==
  /\ jobs' = [jobs EXCEPT ![t] = <<>>]
  /\ calling' = [calling EXCEPT ![t] = "no"]
  /\ astray' = astray \cup (Left(t, "subscribe") \ channels') \cup Left(t, "activate")
  /\ requests' = IF t = user
                 THEN [c \in Chains |-> IF requests[c] = "subscribing" THEN "stuck" ELSE requests[c]]
                 ELSE requests
  /\ IF t \notin {user, market}
     THEN /\ timer' = TRUE
          /\ strays' = strays + IF timer THEN 1 ELSE 0
          /\ attempts' = IF attempts < MaxAttempts THEN attempts + 1 ELSE MaxAttempts
          /\ reported' = IF attempts < MaxAttempts THEN reported ELSE "down"
     ELSE UNCHANGED timerVars

\* call: the request is sent and its answer awaited.  (A read that is late is as
\* good as refused, an unsubscribe that is late as good as answered.)
Outcomes(op) == {"answered", "refused"} \cup IF Asks(op) THEN {"late"} ELSE {}

Sent(t, op, about) ==
  \E outcome \in Outcomes(op) :
    /\ IF outcome = "answered" THEN UNCHANGED faults ELSE Fault
    /\ calling' = [calling EXCEPT ![t] = outcome]
    /\ asked' = CASE outcome # "refused" /\ Asks(op) -> [asked EXCEPT ![ws] = @ \cup about]
                  [] outcome # "refused" /\ op = "unsubscribe" -> [asked EXCEPT ![ws] = @ \ about]
                  [] OTHER -> asked

\* subscribe: the channels are added before the call, which throws when the
\* socket is not open; then they are taken out again.
CallSubscribe(t) ==
  LET about == First(t).about
  IN  /\ Runs(t) /\ First(t).op = "subscribe"
      /\ UNCHANGED <<matching, trading, ended, listed, socketVars, planned>>
      /\ IF Connected
         THEN /\ channels' = channels \cup about
              /\ added' = [added EXCEPT ![t] = about \ channels]
              /\ astray' = astray \ about
              /\ Sent(t, "subscribe", about)
              /\ UNCHANGED <<requests, timerVars, jobs>>
         ELSE /\ UNCHANGED <<channels, added, faults, asked>>
              /\ Abort(t)

\* unsubscribe: returns without a word when the socket is not open.
CallUnsubscribe(t) ==
  /\ Runs(t) /\ First(t).op = "unsubscribe"
  /\ UNCHANGED <<adapterVars, timerVars, socketVars, planned, channels, added, astray>>
  /\ IF Connected
     THEN Sent(t, "unsubscribe", First(t).about) /\ UNCHANGED jobs
     ELSE Next1(t) /\ UNCHANGED <<asked, faults>>

\* A batch of resubscribe.
CallReplay(t) ==
  /\ Runs(t) /\ First(t).op = "replay"
  /\ UNCHANGED <<matching, trading, ended, listed, socketVars, planned, channels, added>>
  /\ IF Connected
     THEN Sent(t, "replay", First(t).about) /\ UNCHANGED <<requests, timerVars, jobs, astray>>
     ELSE Abort(t) /\ UNCHANGED <<asked, faults>>

\* A call that only reads.
CallRead(t, op) ==
  /\ Runs(t) /\ First(t).op = op
  /\ UNCHANGED <<adapterVars, timerVars, socketVars, planned, channels, added, astray, jobs>>
  /\ IF Connected
     THEN Sent(t, op, First(t).about)
     ELSE calling' = [calling EXCEPT ![t] = "closed"] /\ UNCHANGED <<asked, faults>>

\* The pending call of task t settles: its answer or its timeout comes, or the
\* close handler has rejected it.
Settles(t) ==
  /\ ~ Idle(t)
  /\ calling[t] = "closed" \/ (calling[t] # "no" /\ Quiet)

\* Channels that were added are taken back on an error, but not when the
\* connection closed: then the next resubscription asks for them.
SettleSubscribe(t) ==
  /\ Settles(t) /\ First(t).op = "subscribe"
  /\ UNCHANGED <<matching, trading, ended, listed, socketVars, faults, asked, planned>>
  /\ added' = [added EXCEPT ![t] = {}]
  /\ channels' = IF calling[t] \in {"refused", "late"} THEN channels \ added[t] ELSE channels
  /\ IF calling[t] = "answered"
     THEN Next1(t) /\ UNCHANGED <<requests, timerVars, astray>>
     ELSE Abort(t)

\* The channels are forgotten after the await, whatever came of it, and whoever
\* has subscribed to them meanwhile.
SettleUnsubscribe(t) ==
  /\ Settles(t) /\ First(t).op = "unsubscribe"
  /\ channels' = channels \ First(t).about
  /\ astray' = astray \cup (First(t).about \cap planned)
  /\ Next1(t)
  /\ UNCHANGED <<adapterVars, timerVars, socketVars, faults, asked, planned, added>>

SettleReplay(t) ==
  /\ Settles(t) /\ First(t).op = "replay"
  /\ UNCHANGED <<matching, trading, ended, listed, socketVars, faults, asked, planned, channels, added>>
  /\ IF calling[t] = "answered"
     THEN Next1(t) /\ UNCHANGED <<requests, timerVars, astray>>
     ELSE Abort(t)

\* Mutant: nothing is subscribed to again.
OpenedForgets(s) ==
  /\ Quiet
  /\ Opens(s)
  /\ UNCHANGED <<adapterVars, faults, asked, planned, rpcVars>>

\* 'open': the timer that dialled goes on to resubscribe, a batch at a time.
Opened(s) ==
  /\ Quiet
  /\ Opens(s)
  /\ IF Cardinality(channels) <= BatchSize
     THEN Begin(replay(s), Just("replay", channels))
     ELSE \E batch \in SUBSET channels :
            /\ Cardinality(batch) = BatchSize
            /\ Begin(replay(s), <<Step("replay", batch), Step("replay", channels \ batch)>>)
  /\ UNCHANGED <<adapterVars, faults, asked, planned, channels, calling, added, astray>>

\* 'close', of any socket of the client: cleanup rejects every pending call.
AllClosed ==
  calling' = [t \in Tasks |-> IF ~ Idle(t) THEN "closed" ELSE "no"]

Failed(s) ==
  /\ Quiet
  /\ Fails(s)
  /\ AllClosed
  /\ UNCHANGED <<adapterVars, planned, channels, jobs, added, astray>>

Closed(s) ==
  /\ Quiet
  /\ Drops(s)
  /\ Scheduled(1)
  /\ AllClosed
  /\ UNCHANGED <<adapterVars, planned, channels, jobs, added, astray>>

\* connect, even when the current socket is open.
Reconnect ==
  /\ Quiet
  /\ Fire
  /\ Dial("timer")
  /\ UNCHANGED <<adapterVars, asked, planned, rpcVars>>

Market ==
  /\ Quiet
  /\ \/ \E i \in Instruments : Lists(i)
     \/ \E c \in Chains : Expires(c)
  /\ UNCHANGED <<timerVars, socketVars, asked, planned, rpcVars>>

Transport ==
  \/ \E t \in Tasks : \/ CallSubscribe(t) \/ CallUnsubscribe(t) \/ CallReplay(t)
                      \/ SettleSubscribe(t) \/ SettleUnsubscribe(t) \/ SettleReplay(t)
  \/ \E s \in Sockets : Opened(s) \/ Failed(s) \/ Closed(s)
  \/ Reconnect
  \/ Market
==============================================================================
