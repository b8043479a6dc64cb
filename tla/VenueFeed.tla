------------------------------ MODULE VenueFeed ------------------------------
(***************************************************************************)
(* What the five venue clients have in common: the requests and the        *)
(* instruments of SdkBaseAdapter, and the sockets and reconnect timers of  *)
(* the two transports, TopicWsClient and JsonRpcWsClient.  It has no       *)
(* next-state relation: a client's actions are put together from it.       *)
(*                                                                         *)
(* The coordinator runs the calls of a venue one at a time, so at most one *)
(* request is being subscribed or released.  A request whose subscription  *)
(* was rejected keeps its count and is never subscribed again: "stuck".    *)
(***************************************************************************)
EXTENDS Naturals, FiniteSets

CONSTANTS
  Instruments,      \* the options of the venue, listed now or later
  Chains,           \* underlying and expiry
  chainOf,          \* the chain of an instrument
  baseOf,           \* the underlying of a chain
  FirstListed,      \* the instruments listed at boot
  Eager,            \* the chains subscribed to at boot: the nearest expiries
  Sockets,          \* bound: 1..n, the sockets that exist at one time
  MaxAttempts,      \* maxReconnectAttempts
  MaxFaults         \* bound on attempts that fail, connections that close,
                    \* requests that are refused and chains that expire, together

ASSUME FeedAssumption ==
  /\ IsFiniteSet(Instruments) /\ IsFiniteSet(Chains)
  /\ chainOf \in [Instruments -> Chains]
  /\ FirstListed \subseteq Instruments
  /\ Eager \subseteq Chains
  /\ 1 \in Sockets /\ Sockets \subseteq Nat
  /\ MaxAttempts \in Nat /\ MaxFaults \in Nat

VARIABLES
  requests,   \* per chain: "idle", "subscribing", "held", "releasing" or "stuck"
  matching,   \* per chain: the instruments its subscription was asked for
  trading,    \* the instruments that trade at the exchange
  ended,      \* the chains whose expiry has passed
  listed,     \* the adapter's instrumentMap
  sock,       \* per socket: "none", "connecting" or "open"
  opener,     \* per socket: who called connect, a "timer" or a "call"
  ws,         \* the client's current socket, alive or not
  timer,      \* whether the timer that reconnectTimer names is running
  strays,     \* running reconnect timers that reconnectTimer no longer names
  attempts,   \* reconnectAttempts
  reported,   \* the last status given to onStatusChange
  asked,      \* per socket: what the exchange streams on it
  planned,    \* what the planner has marked as subscribed
  faults      \* how many of MaxFaults have happened

adapterVars == <<requests, matching, trading, ended, listed>>
timerVars   == <<timer, strays, attempts, reported>>
socketVars  == <<sock, opener, ws>>

Of(c, insts) == {i \in insts : chainOf[i] = c}

Open(s) == sock[s] = "open"
Connected == Open(ws)

\* Nobody's subscribe or release is under way: the coordinator's turn is free.
Free == \A c \in Chains : requests[c] \notin {"subscribing", "releasing"}

\* requestRefCounts has an entry for the chain.
Counted(c) == requests[c] \in {"subscribing", "held", "stuck"}

\* Mutant: every release takes the underlying's streams along.
LastOfAlways(c) == TRUE

\* activeRequestsForUnderlying, once chain c is no longer counted.
LastOf(c) == \A d \in Chains \ {c} : baseOf[d] = baseOf[c] => ~ Counted(d)

AdapterInit ==
  /\ requests = [c \in Chains |-> "idle"]
  /\ matching = [c \in Chains |-> {}]
  /\ trading = FirstListed
  /\ ended = {}
  /\ listed = FirstListed

\* At the end of loadMarkets the first socket is open.
SocketInit ==
  /\ sock = [s \in Sockets |-> IF s = 1 THEN "open" ELSE "none"]
  /\ opener = [s \in Sockets |-> "call"]
  /\ ws = 1
  /\ timer = FALSE
  /\ strays = 0
  /\ attempts = 0
  /\ reported = "connected"
  /\ faults = 0

(***************************************************************************)
(* The transports.                                                         *)
(***************************************************************************)

\* `this.ws = new WebSocket(url)`, whatever the socket before it is doing.
\* The model takes the first free socket.
CanDial == \E s \in Sockets : sock[s] = "none"

Dial(who) ==
  LET s == CHOOSE n \in Sockets : sock[n] = "none" /\ \A m \in Sockets : sock[m] = "none" => n <= m
  IN  /\ CanDial
      /\ ws' = s
      /\ sock' = [sock EXCEPT ![s] = "connecting"]
      /\ opener' = [opener EXCEPT ![s] = who]

\* A reconnect timer fires: the one reconnectTimer names, or one it forgot.
Fire ==
  /\ \/ timer /\ timer' = FALSE /\ UNCHANGED strays
     \/ strays > 0 /\ strays' = strays - 1 /\ UNCHANGED timer
  /\ UNCHANGED <<attempts, reported, faults>>

\* scheduleReconnect, called n times in a row after cleanup has cleared the
\* named timer: the last call's timer is the named one, the others are strays.
Scheduled(n) ==
  /\ timer' = TRUE
  /\ strays' = strays + n - 1
  /\ attempts' = IF attempts + n < MaxAttempts THEN attempts + n ELSE MaxAttempts
  /\ reported' = IF attempts + n > MaxAttempts THEN "down" ELSE "reconnecting"

Fault == faults < MaxFaults /\ faults' = faults + 1

Opens(s) ==
  /\ sock[s] = "connecting"
  /\ sock' = [sock EXCEPT ![s] = "open"]
  /\ attempts' = 0
  /\ reported' = "connected"
  /\ UNCHANGED <<opener, ws, timer, strays>>

\* An attempt fails: 'error', then 'close'.  The promise of connect is rejected
\* unless the client's current socket is open; a timer that awaits it then
\* schedules again, after the close handler has.
Rejects == ~ Connected

Fails(s) ==
  /\ sock[s] = "connecting"
  /\ Fault
  /\ sock' = [sock EXCEPT ![s] = "none"]
  /\ asked' = [asked EXCEPT ![s] = {}]
  /\ Scheduled(IF opener[s] = "timer" /\ Rejects THEN 2 ELSE 1)
  /\ UNCHANGED <<opener, ws>>

Drops(s) ==
  /\ Open(s)
  /\ Fault
  /\ sock' = [sock EXCEPT ![s] = "none"]
  /\ asked' = [asked EXCEPT ![s] = {}]
  /\ UNCHANGED <<opener, ws>>

\* What send does: nothing unless the current socket is open.  A socket that
\* opens in this step is open for what its handler sends.
Sending == sock'[ws'] = "open"

Asking(streams) ==
  asked' = IF Sending THEN [asked EXCEPT ![ws'] = @ \cup streams] ELSE asked

Dropping(streams) ==
  asked' = IF Sending THEN [asked EXCEPT ![ws'] = @ \ streams] ELSE asked

(***************************************************************************)
(* The exchange lists an instrument, and a chain expires.                  *)
(***************************************************************************)
Lists(i) ==
  /\ i \notin trading
  /\ chainOf[i] \notin ended
  /\ trading' = trading \cup {i}
  /\ UNCHANGED <<requests, matching, ended, listed, faults>>

Expires(c) ==
  /\ c \notin ended
  /\ Fault
  /\ ended' = ended \cup {c}
  /\ trading' = trading \ Of(c, trading)
  /\ UNCHANGED <<requests, matching, listed>>

\* sweepExpiredInstruments
Expired == {i \in listed : chainOf[i] \in ended}

Swept == listed' = listed \ Expired

Unlisted == UNCHANGED <<requests, matching, trading, ended>>

SetRequest(c, state) == requests' = [requests EXCEPT ![c] = state]

\* What a user of chain c should see: its instruments that trade and that the
\* adapter knew when it was asked, or has learnt of since.
Wanted(c) == Of(c, trading \cap (matching[c] \cup listed))
==============================================================================
