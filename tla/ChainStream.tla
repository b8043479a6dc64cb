----------------------------- MODULE ChainStream -----------------------------
(***************************************************************************)
(* From a browser to the registry: the hook useChainWs                     *)
(* (packages/web/src/hooks/useChainWs.ts), the WebSockets it opens one     *)
(* after the other, the route /ws/chain                                    *)
(* (packages/server/src/routes/ws-chain.ts) with its ChainStreamSession    *)
(* per subscription (chain-stream-session.ts), and the REST query of the   *)
(* same chain (web features/chain/queries.ts, server routes/chains.ts),    *)
(* over ChainRuntimeRegistry.                                              *)
(*                                                                         *)
(* A subscription id is used once and belongs to one session; its request  *)
(* is wants[i].  A chain is known by the runtime that published it and its *)
(* sequence number; a patch is no good for a chain that misses one before. *)
(***************************************************************************)
EXTENDS ChainRuntimeRegistry, Sequences

CONSTANTS Sockets,   \* bound: the WebSockets the browser can open
          NoSocket, NoSub,
          Live,      \* activeRequest: the request less the venues the server
                     \* has not loaded, which stay the same while it serves
          MaxSeq     \* bound: the events a runtime publishes

ASSUME StreamAssumption ==
  /\ NoSocket \notin Sockets /\ NoSub \notin Users /\ MaxSeq \in Nat \ {0}
  /\ Live \in [Keys -> Keys]

\* A user is a subscription id or a REST request.
Subs == Users        \* bound: the subscriptions and the requests

VARIABLES
  want,       \* the hook's parameters; NoKey: not enabled
  sock,       \* wsRef
  clientEnd,  \* [Sockets -> unused, connecting, open or closed]
  timer,      \* reconnectRef
  activeSub,  \* activeSubIdRef
  shown,      \* [Keys -> what the query cache holds]
  up, down,   \* [Sockets -> Seq]: messages on their way
  broken,     \* the sockets the network has dropped
  serverEnd,  \* [Sockets -> none, open, closing or closed]
  session,    \* [Sockets -> Subs \cup {NoSub}]: the route's session
  latest,     \* [Sockets -> Subs \cup {NoSub}]: whose version is subscribeVersion
  socketOf,   \* [Subs -> Sockets \cup {NoSocket}]
  stage,      \* [Subs -> how far its handleSubscribe is]
  closed,     \* the sessions that are disposed
  answers,    \* the REST responses on their way
  seq         \* [Runtimes -> Nat]

hookVars == <<want, sock, timer, activeSub>>
socketVars == <<clientEnd, up, down, broken, serverEnd>>
routeVars == <<session, latest, socketOf, stage, closed, answers>>
streamVars == <<vars, hookVars, shown, socketVars, routeVars, seq>>

Chain(r, n) == [engine |-> r, seq |-> n]
NoChain == Chain(NoRuntime, 0)
Chains == {NoChain} \cup {Chain(r, n) : r \in Runtimes, n \in 1..MaxSeq}

\* What the cache holds: what the last chain or patch put there was of, where
\* the last whole chain came from, and whether every patch since fitted.
Nothing == [of |-> NoSub, chain |-> NoChain, base |-> "none", whole |-> TRUE]
Shown == [of : Users \cup {NoSub}, chain : Chains, base : {"none", "stream", "rest"},
          whole : BOOLEAN]
Frame == [kind : {"snapshot", "delta"}, of : Subs, chain : Chains \ {NoChain}]

TypeOK ==
  /\ RegistryTypeOK
  /\ want \in Keys \cup {NoKey} /\ sock \in Sockets \cup {NoSocket}
  /\ timer \in BOOLEAN /\ activeSub \in Subs \cup {NoSub}
  /\ shown \in [Keys -> Shown]
  /\ clientEnd \in [Sockets -> {"unused", "connecting", "open", "closed"}]
  /\ up \in [Sockets -> Seq(Subs)] /\ down \in [Sockets -> Seq(Frame)]
  /\ broken \subseteq Sockets
  /\ serverEnd \in [Sockets -> {"none", "open", "closing", "closed"}]
  /\ session \in [Sockets -> Subs \cup {NoSub}]
  /\ latest \in [Sockets -> Subs \cup {NoSub}]
  /\ socketOf \in [Subs -> Sockets \cup {NoSocket}]
  /\ stage \in [Users -> {"unsent", "sent", "handling", "acquiring", "open", "fetching", "ended"}]
  /\ closed \subseteq Subs
  /\ answers \subseteq [of : Users, chain : Chains]
  /\ seq \in [Runtimes -> 0..MaxSeq]

Init ==
  /\ RegistryInit
  /\ want = NoKey /\ sock = NoSocket /\ timer = FALSE /\ activeSub = NoSub
  /\ shown = [k \in Keys |-> Nothing]
  /\ clientEnd = [s \in Sockets |-> "unused"]
  /\ up = [s \in Sockets |-> <<>>] /\ down = [s \in Sockets |-> <<>>]
  /\ broken = {}
  /\ serverEnd = [s \in Sockets |-> "none"]
  /\ session = [s \in Sockets |-> NoSub] /\ latest = [s \in Sockets |-> NoSub]
  /\ socketOf = [i \in Subs |-> NoSocket]
  /\ stage = [i \in Users |-> "unsent"]
  /\ closed = {} /\ answers = {}
  /\ seq = [r \in Runtimes |-> 0]
-----------------------------------------------------------------------------
(* The hook *)

\* connect: a new WebSocket, when the last one is neither open nor connecting.
Connect(s) == clientEnd[s] = "unused" /\ sock' = s

\* sendSubscribe: a new subscription id for the current parameters.
SendSubscribe(s, key) ==
  \E i \in Subs :
    /\ stage[i] = "unsent"
    /\ wants' = [wants EXCEPT ![i] = key]
    /\ activeSub' = i
    /\ stage' = [stage EXCEPT ![i] = "sent"]
    /\ socketOf' = [socketOf EXCEPT ![i] = s]
    /\ up' = IF s \in broken THEN up ELSE [up EXCEPT ![s] = Append(@, i)]

Closing(ends) == IF sock = NoSocket THEN ends ELSE [ends EXCEPT ![sock] = "closed"]

\* Another underlying or expiry: disconnect, then connect.
Navigate(key) ==
  /\ want # key
  /\ want' = key /\ activeSub' = NoSub /\ timer' = FALSE
  /\ \E s \in Sockets :
       /\ Connect(s)
       /\ clientEnd' = [Closing(clientEnd) EXCEPT ![s] = "connecting"]
  /\ UNCHANGED <<vars, shown, up, down, broken, serverEnd, routeVars, seq>>

\* Other venues: subscribe again on the same socket, when there is one.
SwitchVenues(key) ==
  /\ want # key /\ want # NoKey
  /\ want' = key
  /\ IF sock # NoSocket /\ clientEnd[sock] = "open"
     THEN SendSubscribe(sock, key)
     ELSE UNCHANGED <<activeSub, wants, stage, socketOf, up>>
  /\ UNCHANGED <<registryVars, call, engine, sock, timer, shown, clientEnd, down, broken, serverEnd,
                 session, latest, closed, answers, seq>>

\* disconnect: the component is unmounted or not enabled.
Disable ==
  /\ want # NoKey
  /\ want' = NoKey /\ activeSub' = NoSub /\ timer' = FALSE
  /\ clientEnd' = Closing(clientEnd) /\ sock' = NoSocket
  /\ UNCHANGED <<vars, shown, up, down, broken, serverEnd, routeVars, seq>>

\* The connection is made: onopen, and the route's handler on the other end,
\* which closes at once while the server is bootstrapping.
Opened(s) ==
  /\ clientEnd[s] = "connecting"
  /\ clientEnd' = [clientEnd EXCEPT ![s] = "open"]
  /\ \E end \in {"open", "closed"} : serverEnd' = [serverEnd EXCEPT ![s] = end]
  /\ SendSubscribe(s, want)
  /\ UNCHANGED <<registryVars, call, engine, want, sock, timer, shown, down, broken, session, latest,
                 closed, answers, seq>>

\* onclose: the connection failed, was dropped, or was closed from the other
\* end.
OnClose(s) ==
  /\ s = sock
  /\ \/ clientEnd[s] = "connecting"
     \/ clientEnd[s] = "open" /\ s \in broken
     \/ clientEnd[s] = "open" /\ serverEnd[s] \in {"closing", "closed"} /\ down[s] = <<>>
  /\ clientEnd' = [clientEnd EXCEPT ![s] = "closed"]
  /\ sock' = NoSocket /\ timer' = TRUE
  /\ UNCHANGED <<vars, want, activeSub, shown, up, down, broken, serverEnd, routeVars, seq>>

\* The timer of scheduleReconnect.
Reconnect ==
  /\ timer
  /\ timer' = FALSE
  /\ \E s \in Sockets :
       Connect(s) /\ clientEnd' = [clientEnd EXCEPT ![s] = "connecting"]
  /\ UNCHANGED <<vars, want, activeSub, shown, up, down, broken, serverEnd, routeVars, seq>>

\* Mutant: frames of any subscription are taken.
GateOpen(f) == TRUE

\* handleMessage drops what is not of the active subscription.
Gate(f) == f.of = activeSub

Whole(i, chain, base) == [of |-> i, chain |-> chain, base |-> base, whole |-> TRUE]

\* A patch holds whole strikes: it fits a chain of its runtime that misses no
\* patch before it, and one that already has it.
Fits(old, chain) == old.chain.engine = chain.engine /\ old.chain.seq + 1 >= chain.seq

\* The cache after a snapshot, or after a patch of what it holds.
Patched(old, f) ==
  IF f.kind = "snapshot" THEN Whole(f.of, f.chain, "stream")
  ELSE IF old.base = "none" THEN old
  ELSE [of |-> f.of, chain |-> f.chain, base |-> old.base,
        whole |-> old.whole /\ Fits(old, f.chain)]

\* onmessage, on the socket that is still ours.  The cache key is the request
\* the frame carries, its runtime's activeRequest, and not the one subscribed
\* with.
Deliver(s) ==
  /\ s = sock /\ clientEnd[s] = "open"
  /\ down[s] # <<>>
  /\ LET f == Head(down[s])
     IN shown' = IF Gate(f) THEN [shown EXCEPT ![Live[wants[f.of]]] = Patched(@, f)]
                  ELSE shown
  /\ down' = [down EXCEPT ![s] = Tail(@)]
  /\ UNCHANGED <<vars, hookVars, clientEnd, up, broken, serverEnd, routeVars, seq>>

\* The network drops a connection, with everything on its way.
Break(s) ==
  /\ clientEnd[s] = "open" /\ serverEnd[s] = "open" /\ s \notin broken
  /\ broken' = broken \cup {s}
  /\ up' = [up EXCEPT ![s] = <<>>] /\ down' = [down EXCEPT ![s] = <<>>]
  /\ UNCHANGED <<vars, hookVars, shown, clientEnd, serverEnd, routeVars, seq>>
-----------------------------------------------------------------------------
(* The route and its sessions *)

\* Session i (if any) is disposed, with the handle it has, if it has one.
DisposeSession(i) ==
  /\ closed' = IF i = NoSub THEN closed ELSE closed \cup {i}
  /\ IF i # NoSub /\ i \notin closed /\ call[i] = "holding"
     THEN GiveBack(i) /\ EndUse(i)
     ELSE UNCHANGED <<refCount, stale, userVars>>
  /\ UNCHANGED <<entries, runtimeKey, life, readied, disposing, cleanups, shutDown>>

\* handleSubscribe up to its first await; a closing socket still delivers.
Receive(s) ==
  /\ serverEnd[s] \in {"open", "closing"} /\ up[s] # <<>>
  /\ up' = [up EXCEPT ![s] = Tail(@)]
  /\ LET i == Head(up[s])
     IN /\ latest' = [latest EXCEPT ![s] = i]
        /\ stage' = [stage EXCEPT ![i] = "handling"]
  /\ session' = [session EXCEPT ![s] = NoSub]
  /\ DisposeSession(session[s])
  /\ UNCHANGED <<hookVars, shown, clientEnd, down, broken, serverEnd, socketOf,
                 answers, seq>>

\* A later message or the close of the socket has changed subscribeVersion.
Superseded(i) == latest[socketOf[i]] # i

\* handleSubscribe goes on: the session is made, and asks the registry.
Continue(i) ==
  /\ stage[i] = "handling"
  /\ IF Superseded(i)
     THEN /\ stage' = [stage EXCEPT ![i] = "ended"]
          /\ UNCHANGED <<vars, session>>
     ELSE /\ stage' = [stage EXCEPT ![i] = "acquiring"]
          /\ session' = [session EXCEPT ![socketOf[i]] = i]
          /\ BeginAcquire(i, wants[i])
  /\ UNCHANGED <<hookVars, shown, socketVars, latest, socketOf, closed, answers, seq>>

\* Frames only go out on a socket that is open.
CanSend(s) == serverEnd[s] = "open" /\ s \notin broken

Frames(i, kind, chain) == <<[kind |-> kind, of |-> i, chain |-> chain]>>

\* Mutant: who subscribes is only sent what is published from then on.
HasSnapshotNever(r) == FALSE

\* currentSnapshot # null: initialize has built it, and dispose not cleared it.
HasSnapshot(r) == seq[r] > 0 /\ (life[r] = "live" \/ r \in disposing)

\* Mutant: the handle that came after dispose is kept.
LateKept(i) == FALSE

\* The session was disposed while it waited for the runtime.
Late(i) == i \in closed

\* subscribe, when acquire returns: a disposed session gives the handle back;
\* otherwise the session is attached and sends the runtime's snapshot.
Subscribed(i) ==
  /\ stage[i] = "acquiring" /\ CanReturn(i)
  /\ LET r == engine[i]
     IN IF Late(i)
        THEN /\ stage' = [stage EXCEPT ![i] = "ended"]
             /\ GiveBack(i) /\ EndUse(i)
             /\ UNCHANGED <<entries, runtimeKey, life, readied, disposing, cleanups, shutDown,
                            down>>
        ELSE /\ stage' = [stage EXCEPT ![i] = "open"]
             /\ call' = [call EXCEPT ![i] = "holding"]
             /\ down' = IF HasSnapshot(r) /\ CanSend(socketOf[i])
                  THEN [down EXCEPT ![socketOf[i]] =
                          @ \o Frames(i, "snapshot", Chain(r, seq[r]))]
                  ELSE down
             /\ UNCHANGED <<registryVars, wants, engine>>
  /\ UNCHANGED <<hookVars, shown, clientEnd, up, broken, serverEnd, session, latest,
                 socketOf, closed, answers, seq>>

\* The same, when what the session before it sent still fills the socket's
\* buffer: the snapshot is not sent, and the session ends.
SubscribedSlow(i) ==
  /\ stage[i] = "acquiring" /\ CanReturn(i) /\ ~ Late(i)
  /\ HasSnapshot(engine[i]) /\ serverEnd[socketOf[i]] = "open"
  /\ serverEnd' = [serverEnd EXCEPT ![socketOf[i]] = "closing"]
  /\ stage' = [stage EXCEPT ![i] = "ended"]
  /\ closed' = closed \cup {i}
  /\ GiveBack(i) /\ EndUse(i)
  /\ UNCHANGED <<entries, runtimeKey, life, readied, disposing, cleanups, shutDown, hookVars,
                 shown, clientEnd, up, down, broken, session, latest, socketOf, answers, seq>>

\* The sessions runtime r publishes to.  (Nothing is awaited between attaching
\* the session and `initialized`: bufferedEvents stays empty.)
Attached(r) == {i \in Subs : stage[i] = "open" /\ i \notin closed /\ engine[i] = r}

\* A runtime publishes a patch or a new snapshot.
Publish(r, kind) ==
  /\ life[r] = "live" /\ r \in readied /\ seq[r] < MaxSeq
  /\ seq' = [seq EXCEPT ![r] = @ + 1]
  /\ down' = [s \in Sockets |->
       LET I == {i \in Attached(r) : socketOf[i] = s}
       IN IF I # {} /\ CanSend(s)
          THEN down[s] \o Frames(CHOOSE i \in I : TRUE, kind, Chain(r, seq[r] + 1))
          ELSE down[s]]
  /\ UNCHANGED <<vars, hookVars, shown, clientEnd, up, broken, serverEnd, routeVars>>

\* An event finds the socket's buffer full: the session ends and closes it.
SlowClient(i) ==
  /\ i \in Attached(engine[i])
  /\ serverEnd[socketOf[i]] = "open"
  /\ serverEnd' = [serverEnd EXCEPT ![socketOf[i]] = "closing"]
  /\ DisposeSession(i)
  /\ UNCHANGED <<hookVars, shown, clientEnd, up, down, broken, session, latest,
                 socketOf, stage, answers, seq>>

\* The socket's close event at the server.
ServerClosed(s) ==
  /\ serverEnd[s] \in {"open", "closing"}
  /\ \/ s \in broken
     \/ clientEnd[s] = "closed" /\ (up[s] = <<>> \/ serverEnd[s] = "closing")
  /\ serverEnd' = [serverEnd EXCEPT ![s] = "closed"]
  /\ latest' = [latest EXCEPT ![s] = NoSub]
  /\ session' = [session EXCEPT ![s] = NoSub]
  /\ DisposeSession(session[s])
  /\ UNCHANGED <<hookVars, shown, clientEnd, up, down, broken, socketOf, stage,
                 answers, seq>>

\* The registry and its runtimes; a first snapshot is built by initialize.
Registry ==
  /\ RegistryStep
  /\ seq' = [r \in Runtimes |->
       IF r \in readied' \ readied /\ life[r] = "live" THEN 1 ELSE seq[r]]
  /\ UNCHANGED <<hookVars, shown, socketVars, routeVars>>
-----------------------------------------------------------------------------
(* The REST query of the chain *)

\* useChainQuery asks (on mount, focus or interval), and the request reaches
\* the registry.
FetchChain(i) ==
  /\ stage[i] = "unsent" /\ want # NoKey
  /\ stage' = [stage EXCEPT ![i] = "fetching"]
  /\ BeginAcquire(i, want)
  /\ UNCHANGED <<hookVars, shown, socketVars, session, latest, socketOf, closed,
                 answers, seq>>

\* The runtime is ready: its chain is the answer (an empty one, when it was
\* disposed meanwhile), and the runtime is given back.
Answer(i) ==
  /\ stage[i] = "fetching" /\ CanReturn(i)
  /\ stage' = [stage EXCEPT ![i] = "ended"]
  /\ LET r == engine[i]
     IN answers' = answers \cup
          {[of |-> i, chain |-> IF HasSnapshot(r) THEN Chain(r, seq[r]) ELSE NoChain]}
  /\ GiveBack(i) /\ EndUse(i)
  /\ UNCHANGED <<entries, runtimeKey, life, readied, disposing, cleanups, shutDown, hookVars,
                 shown, socketVars, session, latest, socketOf, closed, seq>>

\* The answer arrives, and takes the place of what the cache holds under the
\* key the query asked with, every venue of it.
Answered(a) ==
  /\ answers' = answers \ {a}
  /\ shown' = [shown EXCEPT ![wants[a.of]] = Whole(a.of, a.chain, "rest")]
  /\ UNCHANGED <<vars, hookVars, socketVars, session, latest, socketOf, stage, closed, seq>>
-----------------------------------------------------------------------------
Hook ==
  \/ \E key \in Keys : Navigate(key) \/ SwitchVenues(key)
  \/ Disable \/ Reconnect
  \/ \E s \in Sockets : Opened(s) \/ OnClose(s) \/ Deliver(s) \/ Break(s)

Route ==
  \/ \E s \in Sockets : Receive(s) \/ ServerClosed(s)
  \/ \E i \in Subs : Continue(i) \/ Subscribed(i) \/ SubscribedSlow(i) \/ SlowClient(i)
  \/ \E r \in Runtimes, kind \in {"snapshot", "delta"} : Publish(r, kind)

Rest ==
  \/ \E i \in Users : FetchChain(i) \/ Answer(i)
  \/ \E a \in answers : Answered(a)

StreamNext == Hook \/ Route \/ Rest \/ Registry

StreamSpec == Init /\ [][StreamNext]_streamVars
-----------------------------------------------------------------------------
(* Properties *)

\* As long as the chain in the cache came from the stream, it is one that its
\* runtime published: no patch was applied to anything but the chain just
\* before it, across resubscriptions, reconnects and runtimes.
StreamShownWhole == \A k \in Keys : shown[k].base = "stream" => shown[k].whole

\* The stream only writes the chain the browser wants, under the venues of it
\* that the server has loaded: nothing that was on its way for what it has left
\* reaches the cache.  (With a venue that is not loaded this is not the key the
\* page reads, which then only the REST query fills.)
StreamShowsWanted == [][
  \A k \in Keys : shown'[k] # shown[k] /\ shown'[k].base = "stream"
    => want \in Keys /\ k = Live[want]]_streamVars

\* When the sockets are closed at the server and no call is in progress, no
\* runtime is held: a subscription superseded, closed or dropped at any of its
\* awaits has given back what it got.
NothingLeaked ==
  (/\ \A s \in Sockets : serverEnd[s] \in {"none", "closed"}
   /\ \A i \in Users : stage[i] \notin {"handling", "acquiring", "fetching"})
  => \A i \in Users : call[i] = "none"
=============================================================================
