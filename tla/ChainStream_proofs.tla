-------------------------- MODULE ChainStream_proofs --------------------------
(* Proofs about ChainStream and the registry below it: what the stream shows  *)
(* is whole and wanted, what it holds is given back, and no disposed runtime   *)
(* is handed out.                                                              *)
EXTENDS ChainStream, SequenceTheorems, TLAPS

(*****************************************************************************)
(* The registry.  A runtime is in the entry of its own key only, so that     *)
(* whoever disposes it and deletes that entry has deleted all there is of it. *)
(*****************************************************************************)
\* A cleanup's list has runtimes only, and each knows its key.
IInv ==
  /\ RegistryTypeOK
  /\ EntriesAreLive
  /\ \A c \in cleanups : \A r \in c.rest : runtimeKey[r] # NoKey

\* Every variable has its type, and no entry has a runtime, when the server starts.
LEMMA InitIInv == RegistryInit => IInv
<1> SUFFICES ASSUME RegistryInit PROVE IInv
  OBVIOUS
<1>1. RegistryTypeOK
  BY DEF RegistryInit, RegistryTypeOK
<1>2. EntriesAreLive
  BY DEF RegistryInit, EntriesAreLive
<1>3. QED
  BY <1>1, <1>2 DEF RegistryInit, IInv

\* acquire gives an entry a runtime that is its own: the one there is, or a new one.
LEMMA BeginAcquireIInv ==
  ASSUME IInv, NEW u \in Users, NEW k \in Keys, BeginAcquire(u, k)
  PROVE  IInv'
<1>1. PICK r \in Runtimes :
        /\ IF entries[k] = NoRuntime THEN life[r] = "unused" ELSE r = entries[k]
        /\ entries' = [entries EXCEPT ![k] = r]
        /\ runtimeKey' = [runtimeKey EXCEPT ![r] = k]
        /\ life' = [life EXCEPT ![r] = IF @ = "unused" THEN "live" ELSE @]
        /\ refCount' = [refCount EXCEPT ![r] = @ + 1]
        /\ stale' = stale \ {r}
        /\ wants' = [wants EXCEPT ![u] = k]
        /\ call' = [call EXCEPT ![u] = "acquiring"]
        /\ engine' = [engine EXCEPT ![u] = r]
        /\ UNCHANGED <<readied, disposing, cleanups, shutDown>>
  BY DEF BeginAcquire
<1>2. RegistryTypeOK'
  BY <1>1 DEF IInv, RegistryTypeOK
<1>3. \A j \in Keys \ {k} : entries[j] # r
  BY <1>1, NoneAssumption DEF IInv, RegistryTypeOK, EntriesAreLive
<1>4. EntriesAreLive'
  BY <1>1, <1>3, NoneAssumption DEF IInv, RegistryTypeOK, EntriesAreLive
<1>5. (\A c \in cleanups : \A s \in c.rest : runtimeKey[s] # NoKey)'
  BY <1>1, NoneAssumption DEF IInv, RegistryTypeOK, Cleanup
<1>6. QED
  BY <1>2, <1>4, <1>5 DEF IInv

\* The types are kept, and no live runtime stays behind, when a runtime of a
\* cleanup's list is disposed.
LEMMA DisposeStaleKeeps ==
  ASSUME IInv, NEW r \in Runtimes, runtimeKey[r] # NoKey, DisposeStale(r),
         UNCHANGED runtimeKey
  PROVE  /\ entries' \in [Keys -> Runtimes \cup {NoRuntime}]
         /\ life' \in [Runtimes -> {"unused", "live", "disposed"}]
         /\ disposing' \subseteq Runtimes
         /\ Awaited(r) \in Runtimes \cup {NoRuntime}
         /\ EntriesAreLive'
<1>1. runtimeKey[r] \in Keys
  BY DEF IInv, RegistryTypeOK
<1>2. \A k \in Keys : entries'[k] # NoRuntime => entries'[k] # r /\ entries'[k] = entries[k]
  BY <1>1, NoneAssumption DEF IInv, RegistryTypeOK, EntriesAreLive, DisposeStale
<1>3. EntriesAreLive'
  BY <1>2, NoneAssumption DEF IInv, RegistryTypeOK, EntriesAreLive, DisposeStale
<1>4. QED
  BY <1>1, <1>3 DEF IInv, RegistryTypeOK, DisposeStale, Awaited

\* The list is of entries, and an entry's runtime has its key.
LEMMA StartCleanupIInv ==
  ASSUME IInv, StartCleanup
  PROVE  IInv'
<1>1. PICK r \in StaleEntries :
        /\ DisposeStale(r)
        /\ cleanups' = cleanups \cup {[awaiting |-> Awaited(r), rest |-> StaleEntries \ {r}]}
        /\ UNCHANGED <<runtimeKey, refCount, stale, readied, shutDown, userVars>>
  BY DEF StartCleanup
<1>2. \A s \in StaleEntries : s \in Runtimes /\ runtimeKey[s] # NoKey
  BY NoneAssumption DEF StaleEntries, IInv, RegistryTypeOK, EntriesAreLive
<1>3. /\ entries' \in [Keys -> Runtimes \cup {NoRuntime}]
      /\ life' \in [Runtimes -> {"unused", "live", "disposed"}]
      /\ disposing' \subseteq Runtimes
      /\ Awaited(r) \in Runtimes \cup {NoRuntime}
      /\ EntriesAreLive'
  BY <1>1, <1>2, DisposeStaleKeeps
<1>4. cleanups' \subseteq Cleanup
  BY <1>1, <1>2, <1>3 DEF IInv, RegistryTypeOK, Cleanup
<1>5. RegistryTypeOK'
  BY <1>1, <1>3, <1>4 DEF IInv, RegistryTypeOK, userVars
<1>6. (\A c \in cleanups : \A s \in c.rest : runtimeKey[s] # NoKey)'
  BY <1>1, <1>2 DEF IInv
<1>7. QED
  BY <1>3, <1>5, <1>6 DEF IInv

\* The list may be old: a runtime of it may be disposed already, and its entry be
\* another's, which is then deleted.
LEMMA NextCleanupIInv ==
  ASSUME IInv, NEW c \in cleanups, NextCleanup(c)
  PROVE  IInv'
<1>1. PICK r \in c.rest :
        /\ DisposeStale(r)
        /\ cleanups' = (cleanups \ {c}) \cup {[awaiting |-> Awaited(r), rest |-> c.rest \ {r}]}
        /\ UNCHANGED <<runtimeKey, refCount, stale, readied, shutDown, userVars>>
  BY DEF NextCleanup
<1>2. c \in Cleanup /\ r \in Runtimes /\ runtimeKey[r] # NoKey
  BY <1>1 DEF IInv, RegistryTypeOK, Cleanup
<1>3. /\ entries' \in [Keys -> Runtimes \cup {NoRuntime}]
      /\ life' \in [Runtimes -> {"unused", "live", "disposed"}]
      /\ disposing' \subseteq Runtimes
      /\ Awaited(r) \in Runtimes \cup {NoRuntime}
      /\ EntriesAreLive'
  BY <1>1, <1>2, DisposeStaleKeeps
<1>4. cleanups' \subseteq Cleanup
  BY <1>1, <1>2, <1>3 DEF IInv, RegistryTypeOK, Cleanup
<1>5. RegistryTypeOK'
  BY <1>1, <1>3, <1>4 DEF IInv, RegistryTypeOK, userVars
<1>6. (\A d \in cleanups : \A s \in d.rest : runtimeKey[s] # NoKey)'
  BY <1>1 DEF IInv
<1>7. QED
  BY <1>3, <1>5, <1>6 DEF IInv

\* A release counts down in an entry, which keeps its runtime.
LEMMA GiveBackIInv ==
  ASSUME IInv, NEW u \in Users, GiveBack(u), EndUse(u),
         UNCHANGED <<entries, runtimeKey, life, readied, disposing, cleanups, shutDown>>
  PROVE  IInv'
<1>1. refCount' \in [Runtimes -> Nat] /\ stale' \subseteq Runtimes
  <2>1. CASE entries[wants[u]] = NoRuntime
    BY <2>1 DEF GiveBack, IInv, RegistryTypeOK
  <2>2. CASE entries[wants[u]] # NoRuntime
    <3>1. /\ refCount' = [refCount EXCEPT ![entries[wants[u]]] = IF @ > 0 THEN @ - 1 ELSE 0]
          /\ stale' = stale \ {entries[wants[u]]}
      BY <2>2 DEF GiveBack
    <3>2. refCount \in [Runtimes -> Nat] /\ stale \subseteq Runtimes
      BY DEF IInv, RegistryTypeOK
    <3>3. \A n \in Nat : (IF n > 0 THEN n - 1 ELSE 0) \in Nat
      OBVIOUS
    <3>4. refCount' \in [Runtimes -> Nat]
      BY <3>1, <3>2, <3>3, Zenon
    <3>5. QED
      BY <3>1, <3>2, <3>4
  <2>3. QED
    BY <2>1, <2>2
<1>2. RegistryTypeOK'
  BY <1>1 DEF EndUse, IInv, RegistryTypeOK
<1>3. QED
  BY <1>2 DEF IInv, EntriesAreLive

\* The registry's own steps: nothing but cleanup gives an entry up or disposes a runtime.
LEMMA RegistryStepIInv ==
  ASSUME IInv, RegistryStep
  PROVE  IInv'
<1>1. CASE \E r \in Runtimes : RuntimeReady(r) \/ RuntimeDisposed(r) \/ GrowStale(r)
  BY <1>1 DEF RuntimeReady, RuntimeDisposed, GrowStale, userVars, IInv, RegistryTypeOK,
              EntriesAreLive
<1>2. CASE StartCleanup
  BY <1>2, StartCleanupIInv
<1>3. CASE \E c \in cleanups : NextCleanup(c)
  BY <1>3, NextCleanupIInv
<1>4. CASE \E c \in cleanups : EndCleanup(c)
  BY <1>4 DEF EndCleanup, userVars, IInv, RegistryTypeOK, EntriesAreLive
<1>5. QED
  BY <1>1, <1>2, <1>3, <1>4 DEF RegistryStep

\* Nothing else gives an entry a runtime or disposes one, except the closing of the
\* server, which deletes every entry.
LEMMA NextIInv == IInv /\ [Next]_vars => IInv'
<1> SUFFICES ASSUME IInv, [Next]_vars PROVE IInv'
  OBVIOUS
<1>1. CASE UNCHANGED vars
  BY <1>1 DEF vars, registryVars, userVars, IInv, RegistryTypeOK, EntriesAreLive
<1>2. CASE RegistryStep
  BY <1>2, RegistryStepIInv
<1>3. CASE Shutdown
  BY <1>3, NoneAssumption DEF Shutdown, userVars, IInv, RegistryTypeOK, EntriesAreLive
<1>4. CASE \E u \in Users : Acquire(u)
  BY <1>4, BeginAcquireIInv DEF Acquire
<1>5. CASE \E u \in Users : Acquired(u)
  BY <1>5 DEF Acquired, registryVars, IInv, RegistryTypeOK, EntriesAreLive
<1>6. CASE \E u \in Users : Release(u)
  BY <1>6, GiveBackIInv DEF Release
<1>7. QED
  BY <1>1, <1>2, <1>3, <1>4, <1>5, <1>6 DEF Next

\* The inductive invariant of the registry, for every number of chains, runtimes
\* and users (acquire, the handle's release, cleanup and dispose).
THEOREM Invariance == Spec => []IInv
<1>1. IInv /\ [Next]_vars => IInv'
  BY NextIInv
<1>2. QED
  BY InitIInv, <1>1, PTL DEF Spec

\* A runtime that has been disposed is in no entry: acquire does not hand it out.
THEOREM DisposedIsNotHandedOut == Spec => []EntriesAreLive
<1>1. IInv => EntriesAreLive
  BY DEF IInv
<1>2. QED
  BY Invariance, <1>1, PTL

(*****************************************************************************)
(* The stream.                                                               *)
(*****************************************************************************)
\* The hook has one live socket, and on an open one subscribes to what it wants.
HookInv ==
  /\ \A s \in Sockets : clientEnd[s] \in {"connecting", "open"} => s = sock
  /\ timer => sock = NoSocket
  /\ want = NoKey => sock = NoSocket /\ ~timer
  /\ \A s \in Sockets : clientEnd[s] = "open" => activeSub # NoSub /\ wants[activeSub] = want
  /\ activeSub # NoSub => stage[activeSub] # "unsent"

\* What the server has of a socket it has only while the socket is there.
SocketInv ==
  \A s \in Sockets :
    /\ clientEnd[s] \in {"unused", "connecting"} => serverEnd[s] = "none"
    /\ serverEnd[s] \in {"none", "closed"} => latest[s] = NoSub /\ session[s] = NoSub
    /\ serverEnd[s] = "none" => down[s] = <<>>

\* A runtime is held by the session of its socket, or by a call that will end.
SubInv ==
  \A i \in Users :
    /\ stage[i] # "unsent" => wants[i] \in Keys
    /\ stage[i] \in {"sent", "handling", "acquiring", "open"} => socketOf[i] \in Sockets
    /\ call[i] = "acquiring" <=> stage[i] \in {"acquiring", "fetching"}
    /\ call[i] = "holding" <=> stage[i] = "open" /\ i \notin closed
    /\ call[i] # "none" => engine[i] \in Runtimes
    /\ call[i] = "holding" => engine[i] \in readied
    /\ stage[i] \in {"acquiring", "open"} /\ i \notin closed => session[socketOf[i]] = i

\* The session and the last message of a socket are of subscriptions sent on it.
RouteInv ==
  \A s \in Sockets :
    /\ session[s] # NoSub =>
         socketOf[session[s]] = s /\ stage[session[s]] \in {"acquiring", "open", "ended"}
    /\ latest[s] # NoSub =>
         /\ stage[latest[s]] \notin {"unsent", "sent"}
         /\ stage[latest[s]] = "handling" => session[s] = NoSub

\* A message on its way up has not been received, and is on its way once.
UpInv ==
  \A s \in Sockets : \A p \in DOMAIN up[s] :
    /\ stage[up[s][p]] = "sent" /\ socketOf[up[s][p]] = s
    /\ \A q \in DOMAIN up[s] : p # q => up[s][p] # up[s][q]

\* A live runtime that is ready has published a first snapshot.
RuntimeInv ==
  \A r \in readied : life[r] # "unused" /\ (life[r] = "live" => seq[r] > 0)

\* Frame f comes right after frame e.
After(e, f) ==
  f.of = e.of /\ f.chain.engine = e.chain.engine /\ f.chain.seq = e.chain.seq + 1

\* The cache, when it has the stream's chain, has the one before chain f.
BeforeFrame(f) ==
  shown[Live[wants[f.of]]].base = "stream" =>
    /\ f.chain.engine = shown[Live[wants[f.of]]].chain.engine
    /\ f.chain.seq = shown[Live[wants[f.of]]].chain.seq + 1

\* The cache, when it has the stream's chain, has the newest of i's runtime.
UpToDate(i) ==
  shown[Live[wants[i]]].base = "stream" =>
    shown[Live[wants[i]]].chain = Chain(engine[i], seq[engine[i]])

\* Each patch on its way down comes right after the frame before it, or after what
\* the cache has.
FollowsInv ==
  \A s \in Sockets : \A p \in DOMAIN down[s] :
    /\ stage[down[s][p].of] # "unsent" /\ socketOf[down[s][p].of] = s
    /\ down[s][p].kind = "delta" =>
         IF p > 1 THEN After(down[s][p - 1], down[s][p])
         ELSE down[s][p].of = activeSub => BeforeFrame(down[s][p])

\* The last frame sent to whoever holds a runtime is of its newest chain; when it
\* has arrived, the cache has that chain.
NewestInv ==
  \A s \in Sockets : \A i \in Users :
    call[i] = "holding" /\ socketOf[i] = s /\ CanSend(s) /\ life[engine[i]] = "live" =>
      IF down[s] # <<>>
      THEN /\ down[s][Len(down[s])].of = i
           /\ down[s][Len(down[s])].chain = Chain(engine[i], seq[engine[i]])
      ELSE i = activeSub => UpToDate(i)

StreamInv ==
  /\ TypeOK /\ IInv
  /\ HookInv /\ SocketInv /\ SubInv /\ RouteInv /\ UpInv /\ RuntimeInv
  /\ FollowsInv /\ NewestInv
  /\ StreamShownWhole
-----------------------------------------------------------------------------
(* What the actions of the registry and of the session do to what is used here *)

\* Nothing of the registry changes.
LEMMA SameRegistry == IInv /\ UNCHANGED vars => IInv'
BY DEF vars, registryVars, userVars, IInv, RegistryTypeOK, EntriesAreLive

\* acquire changes the user's own record, and no runtime but one that is unused.
LEMMA BeginAcquireDoes ==
  ASSUME IInv, NEW u \in Users, NEW k \in Keys, BeginAcquire(u, k)
  PROVE  /\ wants' = [wants EXCEPT ![u] = k]
         /\ call' = [call EXCEPT ![u] = "acquiring"]
         /\ engine'[u] \in Runtimes
         /\ \A i \in Users \ {u} : engine'[i] = engine[i]
         /\ readied' = readied /\ disposing' = disposing
         /\ \A r \in Runtimes : life[r] # "unused" => life'[r] = life[r]
BY DEF BeginAcquire, IInv, RegistryTypeOK

\* A release ends the user's own use.
LEMMA EndUseDoes ==
  ASSUME IInv, NEW u \in Users, EndUse(u)
  PROVE  /\ wants' = wants
         /\ call'[u] = "none"
         /\ \A i \in Users \ {u} : call'[i] = call[i] /\ engine'[i] = engine[i]
BY DEF EndUse, IInv, RegistryTypeOK

\* A disposed session no longer holds a runtime; all else stays as it is.
LEMMA DisposeSessionDoes ==
  ASSUME IInv, NEW i \in Users \cup {NoSub}, NoSub \notin Users, DisposeSession(i)
  PROVE  /\ IInv'
         /\ closed' = IF i = NoSub THEN closed ELSE closed \cup {i}
         /\ wants' = wants
         /\ \A j \in Users \ {i} : call'[j] = call[j] /\ engine'[j] = engine[j]
         /\ i # NoSub /\ i \notin closed /\ call[i] = "holding" => call'[i] = "none"
         /\ i # NoSub /\ (i \in closed \/ call[i] # "holding") =>
              call'[i] = call[i] /\ engine'[i] = engine[i]
         /\ readied' = readied /\ disposing' = disposing /\ life' = life
<1>1. CASE i # NoSub /\ i \notin closed /\ call[i] = "holding"
  <2>1. i \in Users
    BY <1>1
  <2>2. GiveBack(i) /\ EndUse(i)
    BY <1>1 DEF DisposeSession
  <2>3. UNCHANGED <<entries, runtimeKey, life, readied, disposing, cleanups, shutDown>>
    BY DEF DisposeSession
  <2>4. IInv'
    BY <2>1, <2>2, <2>3, GiveBackIInv
  <2>5. QED
    BY <1>1, <2>1, <2>2, <2>3, <2>4, EndUseDoes DEF DisposeSession
<1>2. CASE ~(i # NoSub /\ i \notin closed /\ call[i] = "holding")
  <2>1. UNCHANGED vars
    BY <1>2 DEF DisposeSession, vars, registryVars, userVars
  <2>2. QED
    BY <1>2, <2>1, SameRegistry DEF DisposeSession, vars, registryVars, userVars
<1>3. QED
  BY <1>1, <1>2

\* The registry's own steps: no user's, no runtime comes to life, and those that are
\* ready stay so.
LEMMA RegistryStepDoes ==
  ASSUME IInv, RegistryStep
  PROVE  /\ IInv'
         /\ UNCHANGED userVars
         /\ readied \subseteq readied'
         /\ \A r \in Runtimes : /\ life'[r] = "live" => life[r] = "live"
                                /\ life[r] # "unused" => life'[r] # "unused"
                                /\ r \in readied' \ readied => life'[r] = life[r] /\ life[r] # "unused"
<1>1. IInv'
  BY RegistryStepIInv
<1>2. life \in [Runtimes -> {"unused", "live", "disposed"}]
  BY DEF IInv, RegistryTypeOK
<1>3. CASE \E r \in Runtimes : RuntimeReady(r) \/ RuntimeDisposed(r) \/ GrowStale(r)
  BY <1>1, <1>2, <1>3 DEF RuntimeReady, RuntimeDisposed, GrowStale
<1>4. CASE StartCleanup
  BY <1>1, <1>2, <1>4 DEF StartCleanup, DisposeStale
<1>5. CASE \E c \in cleanups : NextCleanup(c)
  BY <1>1, <1>2, <1>5 DEF NextCleanup, DisposeStale
<1>6. CASE \E c \in cleanups : EndCleanup(c)
  BY <1>1, <1>2, <1>6 DEF EndCleanup
<1>7. QED
  BY <1>3, <1>4, <1>5, <1>6 DEF RegistryStep

\* The actions that leave the registry and its users as they are.
Elsewhere ==
  \/ \E key \in Keys : Navigate(key)
  \/ Disable \/ Reconnect
  \/ \E s \in Sockets : OnClose(s) \/ Deliver(s) \/ Break(s)
  \/ \E r \in Runtimes, kind \in {"snapshot", "delta"} : Publish(r, kind)
  \/ \E a \in answers : Answered(a)
  \/ UNCHANGED streamVars

\* The actions that send a subscription.
Subscribes ==
  \/ \E key \in Keys : SwitchVenues(key)
  \/ \E s \in Sockets : Opened(s)

\* The actions, by what they do to the registry.
LEMMA Actions ==
  ASSUME [StreamNext]_streamVars
  PROVE  \/ Elsewhere \/ Subscribes
         \/ \E s \in Sockets : Receive(s) \/ ServerClosed(s)
         \/ \E i \in Subs : Continue(i) \/ Subscribed(i) \/ SubscribedSlow(i) \/ SlowClient(i)
         \/ \E i \in Users : FetchChain(i) \/ Answer(i)
         \/ Registry
BY DEF StreamNext, Hook, Route, Rest, Elsewhere, Subscribes

\* Whoever subscribes only changes the request of its new subscription.
LEMMA SubscribesDoes ==
  ASSUME TypeOK, HookInv, Subscribes
  PROVE  /\ UNCHANGED <<registryVars, call, engine, shown, down, broken, session, latest,
                        closed, answers, seq, sock, timer>>
         /\ \/ UNCHANGED <<activeSub, wants, stage, socketOf, up, clientEnd, serverEnd>>
               /\ \E key \in Keys : want' = key
               /\ \A s \in Sockets : clientEnd[s] # "open"
            \/ \E i \in Users : \E s \in Sockets :
                 /\ stage[i] = "unsent" /\ s = sock
                 /\ want' \in Keys /\ wants' = [wants EXCEPT ![i] = want']
                 /\ activeSub' = i
                 /\ stage' = [stage EXCEPT ![i] = "sent"]
                 /\ socketOf' = [socketOf EXCEPT ![i] = s]
                 /\ up' = IF s \in broken THEN up ELSE [up EXCEPT ![s] = Append(@, i)]
                 /\ clientEnd' = [clientEnd EXCEPT ![s] = "open"]
                 /\ \/ clientEnd[s] = "open" /\ UNCHANGED serverEnd
                    \/ /\ clientEnd[s] = "connecting"
                       /\ \E end \in {"open", "closed"} :
                            serverEnd' = [serverEnd EXCEPT ![s] = end]
<1>1. CASE \E key \in Keys : SwitchVenues(key)
  <2>1. PICK key \in Keys : SwitchVenues(key)
    BY <1>1
  <2>2. CASE sock # NoSocket /\ clientEnd[sock] = "open"
    <3>1. sock \in Sockets /\ clientEnd = [clientEnd EXCEPT ![sock] = "open"]
      BY <2>2 DEF TypeOK
    <3>2. QED
      BY <2>1, <2>2, <3>1 DEF SwitchVenues, SendSubscribe, Subs
  <2>3. CASE ~(sock # NoSocket /\ clientEnd[sock] = "open")
    <3>1. \A s \in Sockets : clientEnd[s] # "open"
      BY <2>3, StreamAssumption DEF HookInv
    <3>2. QED
      BY <2>1, <2>3, <3>1 DEF SwitchVenues
  <2>4. QED
    BY <2>2, <2>3
<1>2. CASE \E s \in Sockets : Opened(s)
  <2>1. PICK s \in Sockets : Opened(s)
    BY <1>2
  <2>2. s = sock /\ want \in Keys /\ want' = want
    BY <2>1, StreamAssumption DEF Opened, HookInv, TypeOK
  <2>3. PICK i \in Users :
          /\ stage[i] = "unsent" /\ wants' = [wants EXCEPT ![i] = want]
          /\ activeSub' = i
          /\ stage' = [stage EXCEPT ![i] = "sent"]
          /\ socketOf' = [socketOf EXCEPT ![i] = s]
          /\ up' = IF s \in broken THEN up ELSE [up EXCEPT ![s] = Append(@, i)]
    BY <2>1 DEF Opened, SendSubscribe, Subs
  <2>4. QED
    BY <2>1, <2>2, <2>3 DEF Opened
<1>3. QED
  BY <1>1, <1>2 DEF Subscribes

\* The registry's invariant is kept by every step here.
LEMMA StepIInv ==
  ASSUME TypeOK, IInv, HookInv, SubInv, [StreamNext]_streamVars
  PROVE  IInv'
<1> USE DEF Subs
<1>1. CASE Elsewhere
  <2>1. UNCHANGED vars
    BY <1>1 DEF Elsewhere, Navigate, Disable, Reconnect, OnClose, Deliver, Break, Publish,
                Answered, streamVars
  <2>2. QED
    BY <2>1, SameRegistry
<1>2. CASE Subscribes
  <2>1. UNCHANGED <<registryVars, call, engine>>
    BY <1>2, SubscribesDoes
  <2>2. wants' \in [Users -> Keys \cup {NoKey}]
    BY <1>2, SubscribesDoes DEF TypeOK, RegistryTypeOK
  <2>3. QED
    BY <2>1, <2>2 DEF registryVars, IInv, RegistryTypeOK, EntriesAreLive
<1>3. CASE \E s \in Sockets : Receive(s) \/ ServerClosed(s)
  <2>1. PICK s \in Sockets : DisposeSession(session[s])
    BY <1>3 DEF Receive, ServerClosed
  <2>2. QED
    BY <2>1, DisposeSessionDoes, StreamAssumption DEF TypeOK
<1>4. ASSUME NEW i \in Users, Continue(i) PROVE IInv'
  <2>1. CASE Superseded(i)
    BY <1>4, <2>1, SameRegistry DEF Continue
  <2>2. CASE ~Superseded(i)
    <3>1. BeginAcquire(i, wants[i])
      BY <1>4, <2>2 DEF Continue
    <3>2. wants[i] \in Keys
      BY <1>4 DEF Continue, SubInv
    <3>3. QED
      BY <3>1, <3>2, BeginAcquireIInv
  <2>3. QED
    BY <2>1, <2>2
<1>5. ASSUME NEW i \in Users, Subscribed(i) PROVE IInv'
  <2>1. CASE Late(i)
    BY <1>5, <2>1, GiveBackIInv DEF Subscribed
  <2>2. CASE ~Late(i)
    BY <1>5, <2>2 DEF Subscribed, registryVars, IInv, RegistryTypeOK, EntriesAreLive
  <2>3. QED
    BY <2>1, <2>2
<1>6. ASSUME NEW i \in Users, SubscribedSlow(i) \/ Answer(i) PROVE IInv'
  <2>1. GiveBack(i) /\ EndUse(i)
    BY <1>6 DEF SubscribedSlow, Answer
  <2>2. UNCHANGED <<entries, runtimeKey, life, readied, disposing, cleanups, shutDown>>
    BY <1>6 DEF SubscribedSlow, Answer
  <2>3. QED
    BY <2>1, <2>2, GiveBackIInv
<1>7. ASSUME NEW i \in Users, SlowClient(i) PROVE IInv'
  BY <1>7, DisposeSessionDoes, StreamAssumption DEF SlowClient
<1>8. ASSUME NEW i \in Users, FetchChain(i) PROVE IInv'
  BY <1>8, BeginAcquireIInv DEF FetchChain, TypeOK
<1>9. CASE Registry
  BY <1>9, RegistryStepIInv DEF Registry
<1>10. QED
  BY <1>1, <1>2, <1>3, <1>4, <1>5, <1>6, <1>7, <1>8, <1>9, Actions

\* A frame of a chain of a runtime is a frame.
LEMMA FrameType ==
  ASSUME NEW i \in Users, NEW kind \in {"snapshot", "delta"}, NEW r \in Runtimes,
         NEW n \in 1..MaxSeq, NEW d \in Seq(Frame)
  PROVE  /\ [kind |-> kind, of |-> i, chain |-> Chain(r, n)] \in Frame
         /\ d \o Frames(i, kind, Chain(r, n)) \in Seq(Frame)
<1>1. Chain(r, n) \in Chains \ {NoChain}
  BY NoneAssumption DEF Chains, NoChain, Chain
<1>2. [kind |-> kind, of |-> i, chain |-> Chain(r, n)] \in Frame
  BY <1>1 DEF Frame, Subs
<1>3. QED
  BY <1>2 DEF Frames

\* A patch or a snapshot leaves the cache with what it can hold.
LEMMA PatchedType ==
  ASSUME NEW old \in Shown, NEW f \in Frame
  PROVE  Patched(old, f) \in Shown
BY DEF Patched, Shown, Whole, Frame, Fits, Subs

\* Every variable has its type, after each of the steps.
LEMMA StepTypeOK ==
  ASSUME TypeOK, IInv, HookInv, SubInv, [StreamNext]_streamVars
  PROVE  TypeOK'
<1> USE DEF Subs
<1>1. RegistryTypeOK'
  BY StepIInv DEF IInv
<1>2. CASE Elsewhere
  <2>1. CASE \E key \in Keys : Navigate(key)
    BY <1>1, <2>1 DEF Navigate, Connect, Closing, TypeOK, routeVars
  <2>2. CASE Disable
    BY <1>1, <2>2 DEF Disable, Closing, TypeOK, routeVars
  <2>3. CASE Reconnect
    BY <1>1, <2>3 DEF Reconnect, Connect, TypeOK, routeVars
  <2>4. CASE \E s \in Sockets : OnClose(s)
    BY <1>1, <2>4 DEF OnClose, TypeOK, routeVars
  <2>5. ASSUME NEW s \in Sockets, Deliver(s) PROVE TypeOK'
    <3>1. down[s] \in Seq(Frame) /\ down[s] # <<>>
      BY <2>5 DEF Deliver, TypeOK
    <3>2. Head(down[s]) \in Frame /\ Tail(down[s]) \in Seq(Frame)
      BY <3>1
    <3>3. wants[Head(down[s]).of] \in Keys => Live[wants[Head(down[s]).of]] \in Keys
      BY StreamAssumption
    <3>4. shown' \in [Keys -> Shown]
      BY <2>5, <3>2, <3>3, PatchedType, NoneAssumption DEF Deliver, TypeOK
    <3>5. down' \in [Sockets -> Seq(Frame)]
      BY <2>5, <3>2 DEF Deliver, TypeOK
    <3>6. QED
      BY <1>1, <2>5, <3>4, <3>5 DEF Deliver, TypeOK, hookVars, routeVars
  <2>6. CASE \E s \in Sockets : Break(s)
    BY <1>1, <2>6 DEF Break, TypeOK, hookVars, routeVars
  <2>7. ASSUME NEW r \in Runtimes, NEW kind \in {"snapshot", "delta"}, Publish(r, kind)
        PROVE TypeOK'
    <3>1. seq[r] + 1 \in 1..MaxSeq
      BY <2>7, StreamAssumption DEF Publish, TypeOK
    <3>2. seq' \in [Runtimes -> 0..MaxSeq]
      BY <2>7, <3>1 DEF Publish, TypeOK
    <3>3. \A s \in Sockets : down'[s] \in Seq(Frame)
      BY <2>7, <3>1, FrameType DEF Publish, TypeOK, Attached
    <3>4. down' \in [Sockets -> Seq(Frame)]
      BY <2>7, <3>3 DEF Publish
    <3>5. QED
      BY <1>1, <2>7, <3>2, <3>4 DEF Publish, TypeOK, hookVars, routeVars
  <2>8. ASSUME NEW a \in answers, Answered(a) PROVE TypeOK'
    <3>1. Whole(a.of, a.chain, "rest") \in Shown
      BY DEF TypeOK, Whole, Shown
    <3>2. shown' \in [Keys -> Shown]
      BY <2>8, <3>1 DEF Answered, TypeOK
    <3>3. QED
      BY <1>1, <2>8, <3>2 DEF Answered, TypeOK, hookVars, socketVars
  <2>9. CASE UNCHANGED streamVars
    BY <1>1, <2>9 DEF streamVars, TypeOK, hookVars, socketVars, routeVars
  <2>10. QED
    BY <1>2, <2>1, <2>2, <2>3, <2>4, <2>5, <2>6, <2>7, <2>8, <2>9 DEF Elsewhere
<1>3. CASE Subscribes
  <2>1. UNCHANGED <<shown, down, broken, session, latest, closed, answers, seq, sock, timer>>
    BY <1>3, SubscribesDoes
  <2>2. /\ want' \in Keys /\ activeSub' \in Subs \cup {NoSub}
        /\ clientEnd' \in [Sockets -> {"unused", "connecting", "open", "closed"}]
        /\ serverEnd' \in [Sockets -> {"none", "open", "closing", "closed"}]
        /\ socketOf' \in [Subs -> Sockets \cup {NoSocket}]
        /\ stage' \in [Users -> {"unsent", "sent", "handling", "acquiring", "open", "fetching",
                                 "ended"}]
        /\ up' \in [Sockets -> Seq(Subs)]
    <3>1. CASE /\ UNCHANGED <<activeSub, wants, stage, socketOf, up, clientEnd, serverEnd>>
               /\ \E key \in Keys : want' = key
      BY <3>1 DEF TypeOK
    <3>2. CASE ~(/\ UNCHANGED <<activeSub, wants, stage, socketOf, up, clientEnd, serverEnd>>
                 /\ \E key \in Keys : want' = key)
      <4>1. PICK i \in Users, s \in Sockets :
              /\ want' \in Keys /\ activeSub' = i
              /\ stage' = [stage EXCEPT ![i] = "sent"]
              /\ socketOf' = [socketOf EXCEPT ![i] = s]
              /\ up' = IF s \in broken THEN up ELSE [up EXCEPT ![s] = Append(@, i)]
              /\ clientEnd' = [clientEnd EXCEPT ![s] = "open"]
              /\ \/ UNCHANGED serverEnd
                 \/ \E end \in {"open", "closed"} :
                      serverEnd' = [serverEnd EXCEPT ![s] = end]
        BY <1>3, <3>2, SubscribesDoes
      <4>2. up' \in [Sockets -> Seq(Subs)]
        BY <4>1 DEF TypeOK
      <4>3. QED
        BY <4>1, <4>2 DEF TypeOK
    <3>3. QED
      BY <3>1, <3>2
  <2>3. QED
    BY <1>1, <2>1, <2>2 DEF TypeOK
<1>4. ASSUME NEW s \in Sockets, Receive(s) \/ ServerClosed(s) PROVE TypeOK'
  <2>1. closed' \subseteq Subs
    BY <1>4 DEF Receive, ServerClosed, DisposeSession, TypeOK
  <2>2. CASE Receive(s)
    <3>1. Head(up[s]) \in Users /\ Tail(up[s]) \in Seq(Users)
      BY <2>2 DEF Receive, TypeOK
    <3>2. QED
      BY <1>1, <2>1, <2>2, <3>1 DEF Receive, TypeOK, hookVars
  <2>3. CASE ServerClosed(s)
    BY <1>1, <2>1, <2>3 DEF ServerClosed, TypeOK, hookVars
  <2>4. QED
    BY <1>4, <2>2, <2>3
<1>5. ASSUME NEW i \in Users, Continue(i) PROVE TypeOK'
  BY <1>1, <1>5 DEF Continue, TypeOK, hookVars, socketVars
<1>6. ASSUME NEW i \in Users, Subscribed(i) PROVE TypeOK'
  <2>1. CASE Late(i)
    BY <1>1, <1>6, <2>1 DEF Subscribed, TypeOK, hookVars
  <2>2. CASE ~Late(i)
    <3>1. engine[i] \in readied /\ readied \subseteq Runtimes
      BY <1>6 DEF Subscribed, CanReturn, TypeOK, RegistryTypeOK
    <3>2. HasSnapshot(engine[i]) => seq[engine[i]] \in 1..MaxSeq
      BY <3>1, StreamAssumption DEF HasSnapshot, TypeOK
    <3>3. socketOf[i] \in Sockets
      BY <1>6 DEF Subscribed, SubInv
    <3>4. down' \in [Sockets -> Seq(Frame)]
      <4>1. CASE HasSnapshot(engine[i]) /\ CanSend(socketOf[i])
        <5>1. down' = [down EXCEPT ![socketOf[i]] =
                         @ \o Frames(i, "snapshot", Chain(engine[i], seq[engine[i]]))]
          BY <1>6, <2>2, <4>1 DEF Subscribed
        <5>2. down[socketOf[i]] \o Frames(i, "snapshot", Chain(engine[i], seq[engine[i]]))
                \in Seq(Frame)
          BY <3>1, <3>2, <3>3, <4>1, FrameType DEF TypeOK
        <5>3. QED
          BY <5>1, <5>2 DEF TypeOK
      <4>2. CASE ~(HasSnapshot(engine[i]) /\ CanSend(socketOf[i]))
        BY <1>6, <2>2, <4>2 DEF Subscribed, TypeOK
      <4>3. QED
        BY <4>1, <4>2
    <3>5. QED
      BY <1>1, <1>6, <2>2, <3>4 DEF Subscribed, TypeOK, hookVars
  <2>3. QED
    BY <2>1, <2>2
<1>7. ASSUME NEW i \in Users, SubscribedSlow(i) PROVE TypeOK'
  BY <1>1, <1>7 DEF SubscribedSlow, TypeOK, hookVars
<1>8. ASSUME NEW i \in Users, SlowClient(i) PROVE TypeOK'
  BY <1>1, <1>8 DEF SlowClient, DisposeSession, TypeOK, hookVars
<1>9. ASSUME NEW i \in Users, FetchChain(i) PROVE TypeOK'
  BY <1>1, <1>9 DEF FetchChain, TypeOK, hookVars, socketVars
<1>10. ASSUME NEW i \in Users, Answer(i) PROVE TypeOK'
  <2>1. engine[i] \in readied /\ readied \subseteq Runtimes
    BY <1>10 DEF Answer, CanReturn, TypeOK, RegistryTypeOK
  <2>2. (IF HasSnapshot(engine[i]) THEN Chain(engine[i], seq[engine[i]]) ELSE NoChain) \in Chains
    BY <2>1, StreamAssumption DEF HasSnapshot, TypeOK, Chains
  <2>3. answers' \subseteq [of : Users, chain : Chains]
    BY <1>10, <2>2 DEF Answer, TypeOK
  <2>4. QED
    BY <1>1, <1>10, <2>3 DEF Answer, TypeOK, hookVars, socketVars
<1>11. CASE Registry
  <2>1. seq' \in [Runtimes -> 0..MaxSeq]
    BY <1>11, StreamAssumption DEF Registry, TypeOK
  <2>2. QED
    BY <1>1, <1>11, <2>1 DEF Registry, TypeOK, hookVars, socketVars, routeVars
<1>12. QED
  BY <1>2, <1>3, <1>4, <1>5, <1>6, <1>7, <1>8, <1>9, <1>10, <1>11, Actions

\* A subscription that is sent, and a request that is made, keeps its socket and its key.
LEMMA SentStays ==
  ASSUME TypeOK, IInv, HookInv, SubInv, [StreamNext]_streamVars
  PROVE  \A j \in Users : stage[j] # "unsent" =>
           stage'[j] # "unsent" /\ socketOf'[j] = socketOf[j] /\ wants'[j] = wants[j]
<1> USE DEF Subs
<1> SUFFICES ASSUME NEW j \in Users, stage[j] # "unsent"
             PROVE  stage'[j] # "unsent" /\ socketOf'[j] = socketOf[j] /\ wants'[j] = wants[j]
  OBVIOUS
<1>1. CASE Elsewhere
  BY <1>1 DEF Elsewhere, Navigate, Disable, Reconnect, OnClose, Deliver, Break, Publish, Answered,
              streamVars, vars, userVars, routeVars
<1>2. CASE Subscribes
  BY <1>2, SubscribesDoes DEF TypeOK, RegistryTypeOK
<1>3. ASSUME NEW s \in Sockets, Receive(s) \/ ServerClosed(s)
      PROVE  stage'[j] # "unsent" /\ socketOf'[j] = socketOf[j] /\ wants'[j] = wants[j]
  <2>1. wants' = wants
    BY <1>3, DisposeSessionDoes, StreamAssumption DEF Receive, ServerClosed, TypeOK
  <2>2. QED
    BY <1>3, <2>1 DEF Receive, ServerClosed, TypeOK
<1>4. ASSUME NEW i \in Users, Continue(i)
      PROVE  stage'[j] # "unsent" /\ socketOf'[j] = socketOf[j] /\ wants'[j] = wants[j]
  <2>1. wants'[j] = wants[j]
    <3>1. CASE Superseded(i)
      BY <1>4, <3>1 DEF Continue, vars, userVars
    <3>2. CASE ~Superseded(i)
      <4>1. BeginAcquire(i, wants[i]) /\ wants[i] \in Keys
        BY <1>4, <3>2 DEF Continue, SubInv
      <4>2. QED
        BY <4>1, BeginAcquireDoes DEF TypeOK, RegistryTypeOK
    <3>3. QED
      BY <3>1, <3>2
  <2>2. QED
    BY <1>4, <2>1 DEF Continue, TypeOK
<1>5. ASSUME NEW i \in Users, Subscribed(i) \/ SubscribedSlow(i) \/ SlowClient(i) \/ Answer(i)
      PROVE  stage'[j] # "unsent" /\ socketOf'[j] = socketOf[j] /\ wants'[j] = wants[j]
  BY <1>5 DEF Subscribed, SubscribedSlow, SlowClient, Answer, DisposeSession, EndUse, userVars, TypeOK
<1>6. ASSUME NEW i \in Users, FetchChain(i)
      PROVE  stage'[j] # "unsent" /\ socketOf'[j] = socketOf[j] /\ wants'[j] = wants[j]
  <2>1. want \in Keys /\ BeginAcquire(i, want) /\ i # j
    BY <1>6 DEF FetchChain, TypeOK
  <2>2. QED
    BY <1>6, <2>1, BeginAcquireDoes DEF FetchChain, TypeOK, RegistryTypeOK
<1>7. CASE Registry
  BY <1>7, RegistryStepDoes DEF Registry, userVars, routeVars
<1>8. QED
  BY <1>1, <1>2, <1>3, <1>4, <1>5, <1>6, <1>7, Actions

\* The hook leaves the socket it had before it takes another one, and subscribes
\* again whenever it wants something else on the socket it has.
LEMMA StepHookInv ==
  ASSUME TypeOK, IInv, HookInv, SubInv, [StreamNext]_streamVars
  PROVE  HookInv'
<1> USE DEF Subs
<1>1. ASSUME UNCHANGED <<hookVars, clientEnd>> PROVE HookInv'
  BY <1>1, SentStays DEF HookInv, hookVars, TypeOK
<1>2. CASE Elsewhere
  <2>1. CASE \E key \in Keys : Navigate(key)
    <3>1. PICK key \in Keys : Navigate(key)
      BY <2>1
    <3>2. /\ timer' = FALSE /\ activeSub' = NoSub /\ want' \in Keys
      BY <3>1 DEF Navigate
    <3>3. PICK s \in Sockets :
            /\ sock' = s /\ clientEnd[s] = "unused"
            /\ clientEnd' = [Closing(clientEnd) EXCEPT ![s] = "connecting"]
      BY <3>1 DEF Navigate, Connect
    <3>4. \A t \in Sockets \ {s} : clientEnd'[t] \notin {"connecting", "open"}
      BY <3>3, StreamAssumption DEF Closing, HookInv, TypeOK
    <3>5. clientEnd'[s] = "connecting"
      BY <3>3 DEF Closing, TypeOK
    <3>6. QED
      BY <3>2, <3>3, <3>4, <3>5, NoneAssumption DEF HookInv
  <2>2. CASE Disable
    BY <2>2, StreamAssumption DEF Disable, Closing, HookInv, TypeOK
  <2>3. CASE Reconnect
    BY <2>3, StreamAssumption DEF Reconnect, Connect, HookInv, TypeOK, vars, userVars, routeVars
  <2>4. CASE \E s \in Sockets : OnClose(s)
    BY <2>4, StreamAssumption DEF OnClose, HookInv, TypeOK, vars, userVars, routeVars
  <2>5. CASE \/ \E s \in Sockets : Deliver(s) \/ Break(s)
             \/ \E r \in Runtimes, kind \in {"snapshot", "delta"} : Publish(r, kind)
             \/ \E a \in answers : Answered(a)
             \/ UNCHANGED streamVars
    BY <1>1, <2>5 DEF Deliver, Break, Publish, Answered, streamVars, hookVars, socketVars
  <2>6. QED
    BY <1>2, <2>1, <2>2, <2>3, <2>4, <2>5 DEF Elsewhere
<1>3. CASE Subscribes
  <2>1. UNCHANGED <<sock, timer>>
    BY <1>3, SubscribesDoes
  <2>2. CASE /\ UNCHANGED <<activeSub, wants, stage, clientEnd>>
             /\ \E key \in Keys : want' = key
             /\ \A s \in Sockets : clientEnd[s] # "open"
    BY <2>1, <2>2, NoneAssumption DEF HookInv
  <2>3. CASE ~(/\ UNCHANGED <<activeSub, wants, stage, clientEnd>>
               /\ \E key \in Keys : want' = key
               /\ \A s \in Sockets : clientEnd[s] # "open")
    <3>1. PICK i \in Users, s \in Sockets :
            /\ s = sock /\ want' \in Keys /\ wants' = [wants EXCEPT ![i] = want']
            /\ activeSub' = i /\ stage' = [stage EXCEPT ![i] = "sent"]
            /\ clientEnd' = [clientEnd EXCEPT ![s] = "open"]
      BY <1>3, <2>3, SubscribesDoes
    <3>2. QED
      BY <2>1, <3>1, NoneAssumption, StreamAssumption DEF HookInv, TypeOK, RegistryTypeOK
  <2>4. QED
    BY <2>2, <2>3
<1>4. CASE \/ \E s \in Sockets : Receive(s) \/ ServerClosed(s)
           \/ \E i \in Subs : Continue(i) \/ Subscribed(i) \/ SubscribedSlow(i) \/ SlowClient(i)
           \/ \E i \in Users : FetchChain(i) \/ Answer(i)
           \/ Registry
  BY <1>1, <1>4 DEF Receive, ServerClosed, Continue, Subscribed, SubscribedSlow, SlowClient,
                    FetchChain, Answer, Registry, socketVars
<1>5. QED
  BY <1>2, <1>3, <1>4, Actions

\* When acquire returns, the session holds the runtime, or was closed meanwhile.
LEMMA SubscribedDoes ==
  ASSUME TypeOK, SubInv, NEW i \in Users, Subscribed(i)
  PROVE  /\ socketOf[i] \in Sockets /\ engine[i] \in readied /\ engine[i] \in Runtimes
         /\ wants' = wants
         /\ \A j \in Users \ {i} :
              call'[j] = call[j] /\ engine'[j] = engine[j] /\ stage'[j] = stage[j]
         /\ UNCHANGED <<life, readied, disposing, closed>>
         /\ \/ i \in closed /\ call'[i] = "none" /\ stage'[i] = "ended" /\ down' = down
            \/ /\ i \notin closed /\ call'[i] = "holding" /\ stage'[i] = "open"
               /\ engine'[i] = engine[i]
               /\ \A s \in Sockets :
                    IF s = socketOf[i] /\ HasSnapshot(engine[i]) /\ CanSend(s)
                    THEN down'[s] = Append(down[s], [kind |-> "snapshot", of |-> i,
                                                    chain |-> Chain(engine[i], seq[engine[i]])])
                    ELSE down'[s] = down[s]
<1> USE DEF Subs
<1>1. socketOf[i] \in Sockets /\ engine[i] \in readied /\ engine[i] \in Runtimes
  BY DEF Subscribed, CanReturn, SubInv, TypeOK, RegistryTypeOK
<1>2. CASE i \in closed
  BY <1>1, <1>2 DEF Subscribed, Late, EndUse, TypeOK, RegistryTypeOK
<1>3. CASE i \notin closed
  <2>1. /\ stage' = [stage EXCEPT ![i] = "open"] /\ call' = [call EXCEPT ![i] = "holding"]
        /\ UNCHANGED <<registryVars, wants, engine, closed>>
    BY <1>3 DEF Subscribed, Late
  <2>2. ASSUME NEW s \in Sockets
        PROVE  IF s = socketOf[i] /\ HasSnapshot(engine[i]) /\ CanSend(s)
               THEN down'[s] = Append(down[s], [kind |-> "snapshot", of |-> i,
                                               chain |-> Chain(engine[i], seq[engine[i]])])
               ELSE down'[s] = down[s]
    <3>1. CASE HasSnapshot(engine[i]) /\ CanSend(socketOf[i])
      <4>1. down' = [down EXCEPT ![socketOf[i]] =
                       @ \o Frames(i, "snapshot", Chain(engine[i], seq[engine[i]]))]
        BY <1>3, <3>1 DEF Subscribed, Late
      <4>2. down \in [Sockets -> Seq(Frame)]
        BY DEF TypeOK
      <4>3. \A d \in Seq(Frame) : \A f : d \o <<f>> = Append(d, f)
        OBVIOUS
      <4>4. QED
        BY <1>1, <3>1, <4>1, <4>2, <4>3 DEF Frames
    <3>2. CASE ~(HasSnapshot(engine[i]) /\ CanSend(socketOf[i]))
      BY <1>3, <3>2 DEF Subscribed, Late
    <3>3. QED
      BY <3>1, <3>2
  <2>3. QED
    BY <1>1, <1>3, <2>1, <2>2 DEF registryVars, TypeOK, RegistryTypeOK
<1>4. QED
  BY <1>2, <1>3

\* The server has no more of a socket than there is.
LEMMA StepSocketInv ==
  ASSUME TypeOK, IInv, HookInv, SocketInv, SubInv, [StreamNext]_streamVars
  PROVE  SocketInv'
<1> USE DEF Subs
<1>1. CASE Elsewhere
  <2>1. CASE \E key \in Keys : Navigate(key)
    BY <2>1 DEF Navigate, Connect, Closing, SocketInv, TypeOK, routeVars
  <2>2. CASE Disable
    BY <2>2 DEF Disable, Closing, SocketInv, TypeOK, routeVars
  <2>3. CASE Reconnect
    BY <2>3 DEF Reconnect, Connect, SocketInv, TypeOK, routeVars
  <2>4. CASE \E s \in Sockets : OnClose(s) \/ Break(s)
    BY <2>4 DEF OnClose, Break, SocketInv, TypeOK, routeVars
  <2>5. CASE \E s \in Sockets : Deliver(s)
    BY <2>5 DEF Deliver, SocketInv, TypeOK, routeVars
  <2>6. CASE \E r \in Runtimes, kind \in {"snapshot", "delta"} : Publish(r, kind)
    BY <2>6 DEF Publish, CanSend, SocketInv, TypeOK, routeVars
  <2>7. CASE (\E a \in answers : Answered(a)) \/ UNCHANGED streamVars
    BY <2>7 DEF Answered, streamVars, socketVars, routeVars, SocketInv
  <2>8. QED
    BY <1>1, <2>1, <2>2, <2>3, <2>4, <2>5, <2>6, <2>7 DEF Elsewhere
<1>2. CASE Subscribes
  <2>1. UNCHANGED <<down, session, latest>>
    BY <1>2, SubscribesDoes
  <2>2. CASE UNCHANGED <<clientEnd, serverEnd>>
    BY <2>1, <2>2 DEF SocketInv
  <2>3. CASE ~UNCHANGED <<clientEnd, serverEnd>>
    <3>1. PICK s \in Sockets :
            /\ clientEnd' = [clientEnd EXCEPT ![s] = "open"]
            /\ \/ UNCHANGED serverEnd
               \/ /\ clientEnd[s] = "connecting"
                  /\ \E end \in {"open", "closed"} : serverEnd' = [serverEnd EXCEPT ![s] = end]
      BY <1>2, <2>3, SubscribesDoes
    <3>2. QED
      BY <2>1, <3>1 DEF SocketInv, TypeOK
  <2>4. QED
    BY <2>2, <2>3
<1>3. CASE \E s \in Sockets : Receive(s) \/ ServerClosed(s)
  BY <1>3 DEF Receive, ServerClosed, SocketInv, TypeOK
<1>4. CASE \E i \in Users : Continue(i)
  BY <1>4, StreamAssumption DEF Continue, Superseded, socketVars, SocketInv, SubInv, TypeOK
<1>5. ASSUME NEW i \in Users, Subscribed(i) PROVE SocketInv'
  <2>1. UNCHANGED <<clientEnd, serverEnd, session, latest>>
    BY <1>5 DEF Subscribed
  <2>2. \A s \in Sockets : serverEnd[s] = "none" => down'[s] = down[s]
    BY <1>5, SubscribedDoes DEF CanSend
  <2>3. QED
    BY <2>1, <2>2 DEF SocketInv
<1>6. CASE \E i \in Users : SubscribedSlow(i)
  BY <1>6 DEF SubscribedSlow, SocketInv, TypeOK
<1>7. CASE \E i \in Users : SlowClient(i)
  BY <1>7 DEF SlowClient, SocketInv, TypeOK
<1>8. CASE (\E i \in Users : FetchChain(i) \/ Answer(i)) \/ Registry
  BY <1>8 DEF FetchChain, Answer, Registry, socketVars, routeVars, SocketInv
<1>9. QED
  BY <1>1, <1>2, <1>3, <1>4, <1>5, <1>6, <1>7, <1>8, Actions

\* What a closing session gives back: no other session is touched.
LEMMA ClosedSession ==
  ASSUME TypeOK, IInv, SubInv, NEW d \in Users \cup {NoSub}, DisposeSession(d)
  PROVE  /\ wants' = wants /\ readied' = readied /\ life' = life /\ disposing' = disposing
         /\ closed' = closed \cup ({d} \cap Users)
         /\ \A j \in Users :
              IF j = d /\ call[j] = "holding" THEN call'[j] = "none"
              ELSE call'[j] = call[j] /\ engine'[j] = engine[j]
<1>1. NoSub \notin Users
  BY StreamAssumption
<1>2. \A j \in Users : call[j] = "holding" => j \notin closed
  BY DEF SubInv
<1>3. QED
  BY <1>1, <1>2, DisposeSessionDoes

\* A session holds its runtime until it is superseded, closed or dropped, and no longer.
LEMMA StepSubInv ==
  ASSUME TypeOK, IInv, HookInv, SocketInv, SubInv, RouteInv, UpInv, [StreamNext]_streamVars
  PROVE  SubInv'
<1> USE DEF Subs
<1>1. CASE Elsewhere
  BY <1>1 DEF Elsewhere, Navigate, Disable, Reconnect, OnClose, Deliver, Break, Publish, Answered,
              streamVars, vars, registryVars, userVars, routeVars, SubInv
<1>2. CASE Subscribes
  <2>1. UNCHANGED <<registryVars, call, engine, session, closed>>
    BY <1>2, SubscribesDoes
  <2>2. CASE UNCHANGED <<wants, stage, socketOf>>
    BY <2>1, <2>2 DEF SubInv, registryVars
  <2>3. CASE ~UNCHANGED <<wants, stage, socketOf>>
    <3>1. PICK i \in Users, s \in Sockets :
            /\ stage[i] = "unsent" /\ want' \in Keys /\ wants' = [wants EXCEPT ![i] = want']
            /\ stage' = [stage EXCEPT ![i] = "sent"]
            /\ socketOf' = [socketOf EXCEPT ![i] = s]
      BY <1>2, <2>3, SubscribesDoes
    <3>2. \A j \in Users \ {i} :
            stage'[j] = stage[j] /\ socketOf'[j] = socketOf[j] /\ wants'[j] = wants[j]
      BY <3>1 DEF TypeOK, RegistryTypeOK
    <3>3. stage'[i] = "sent" /\ socketOf'[i] = s /\ wants'[i] \in Keys
      BY <3>1 DEF TypeOK, RegistryTypeOK
    <3>4. QED
      BY <2>1, <3>1, <3>2, <3>3 DEF SubInv, registryVars
  <2>4. QED
    BY <2>2, <2>3
<1>3. ASSUME NEW s \in Sockets, Receive(s) \/ ServerClosed(s) PROVE SubInv'
  <2>1. DisposeSession(session[s]) /\ session[s] \in Users \cup {NoSub}
    BY <1>3 DEF Receive, ServerClosed, TypeOK
  <2>2. /\ wants' = wants /\ readied' = readied
        /\ closed' = closed \cup ({session[s]} \cap Users)
        /\ \A j \in Users :
             IF j = session[s] /\ call[j] = "holding" THEN call'[j] = "none"
             ELSE call'[j] = call[j] /\ engine'[j] = engine[j]
    BY <2>1, ClosedSession
  <2>3. session' = [session EXCEPT ![s] = NoSub] /\ socketOf' = socketOf
    BY <1>3 DEF Receive, ServerClosed
  <2>4. \A j \in Users :
          \/ stage'[j] = stage[j]
          \/ stage[j] = "sent" /\ stage'[j] = "handling"
    <3>1. CASE Receive(s)
      <4>1. Head(up[s]) \in Users /\ stage[Head(up[s])] = "sent"
        BY <3>1 DEF Receive, UpInv, TypeOK
      <4>2. QED
        BY <3>1, <4>1 DEF Receive, TypeOK
    <3>2. CASE ServerClosed(s)
      BY <3>2 DEF ServerClosed
    <3>3. QED
      BY <1>3, <3>1, <3>2
  <2>5. \A j \in Users : stage'[j] \in {"acquiring", "open"} /\ j \notin closed' =>
          session'[socketOf'[j]] = j
    BY <2>2, <2>3, <2>4 DEF SubInv, TypeOK
  <2>6. \A j \in Users : call'[j] = "holding" <=> stage'[j] = "open" /\ j \notin closed'
    BY <2>2, <2>4 DEF SubInv
  <2>7. \A j \in Users : call'[j] = "acquiring" <=> stage'[j] \in {"acquiring", "fetching"}
    BY <2>2, <2>4 DEF SubInv
  <2>8. QED
    BY <2>2, <2>3, <2>4, <2>5, <2>6, <2>7 DEF SubInv
<1>4. ASSUME NEW i \in Users, Continue(i) PROVE SubInv'
  <2>1. stage[i] = "handling" /\ UNCHANGED <<socketOf, closed>>
    BY <1>4 DEF Continue
  <2>2. CASE Superseded(i)
    <3>1. UNCHANGED <<vars, session>> /\ stage' = [stage EXCEPT ![i] = "ended"]
      BY <1>4, <2>2 DEF Continue
    <3>2. QED
      BY <2>1, <3>1 DEF SubInv, TypeOK, vars, registryVars, userVars
  <2>3. CASE ~Superseded(i)
    <3>1. /\ BeginAcquire(i, wants[i]) /\ stage' = [stage EXCEPT ![i] = "acquiring"]
          /\ session' = [session EXCEPT ![socketOf[i]] = i]
      BY <1>4, <2>3 DEF Continue
    <3>2. wants[i] \in Keys /\ socketOf[i] \in Sockets
      BY <2>1 DEF SubInv
    <3>3. session[socketOf[i]] = NoSub
      BY <2>1, <2>3, <3>2, StreamAssumption DEF Superseded, RouteInv
    <3>4. /\ wants' = wants /\ readied' = readied
          /\ call' = [call EXCEPT ![i] = "acquiring"] /\ engine'[i] \in Runtimes
          /\ \A j \in Users \ {i} : engine'[j] = engine[j]
      BY <3>1, <3>2, BeginAcquireDoes DEF TypeOK, RegistryTypeOK
    <3>5. \A j \in Users \ {i} : stage[j] \in {"acquiring", "open"} /\ j \notin closed =>
            socketOf[j] # socketOf[i]
      BY <3>3, StreamAssumption DEF SubInv
    <3>6. QED
      BY <2>1, <3>1, <3>2, <3>4, <3>5 DEF SubInv, TypeOK, RegistryTypeOK
  <2>4. QED
    BY <2>2, <2>3
<1>5. ASSUME NEW i \in Users, Subscribed(i) PROVE SubInv'
  <2>1. UNCHANGED <<socketOf, session, closed>> /\ stage[i] = "acquiring"
    BY <1>5 DEF Subscribed
  <2>2. /\ wants' = wants /\ readied' = readied
        /\ engine[i] \in readied /\ engine[i] \in Runtimes
        /\ \A j \in Users \ {i} :
             call'[j] = call[j] /\ engine'[j] = engine[j] /\ stage'[j] = stage[j]
        /\ \/ i \in closed /\ call'[i] = "none" /\ stage'[i] = "ended"
           \/ /\ i \notin closed /\ call'[i] = "holding" /\ stage'[i] = "open"
              /\ engine'[i] = engine[i]
    BY <1>5, SubscribedDoes
  <2>3. QED
    BY <2>1, <2>2 DEF SubInv
<1>6. ASSUME NEW i \in Users, SubscribedSlow(i) \/ Answer(i) PROVE SubInv'
  <2>1. EndUse(i) /\ UNCHANGED <<socketOf, session, readied>>
    BY <1>6 DEF SubscribedSlow, Answer
  <2>2. /\ wants' = wants /\ call'[i] = "none"
        /\ \A j \in Users \ {i} : call'[j] = call[j] /\ engine'[j] = engine[j]
    BY <2>1, EndUseDoes
  <2>3. /\ stage' = [stage EXCEPT ![i] = "ended"]
        /\ closed' = closed \/ closed' = closed \cup {i}
    BY <1>6 DEF SubscribedSlow, Answer
  <2>4. \A j \in Users : IF j = i THEN stage'[j] = "ended"
                          ELSE stage'[j] = stage[j] /\ (j \in closed' <=> j \in closed)
    BY <2>3 DEF TypeOK
  <2>5. stage[i] # "unsent"
    BY <1>6 DEF SubscribedSlow, Answer
  <2>6. QED
    BY <2>1, <2>2, <2>4, <2>5 DEF SubInv
<1>7. ASSUME NEW i \in Users, SlowClient(i) PROVE SubInv'
  <2>1. DisposeSession(i) /\ UNCHANGED <<socketOf, session, stage>>
    BY <1>7 DEF SlowClient
  <2>2. /\ wants' = wants /\ readied' = readied /\ closed' = closed \cup {i}
        /\ \A j \in Users :
             IF j = i /\ call[j] = "holding" THEN call'[j] = "none"
             ELSE call'[j] = call[j] /\ engine'[j] = engine[j]
    BY <2>1, ClosedSession
  <2>3. QED
    BY <2>1, <2>2 DEF SubInv
<1>8. ASSUME NEW i \in Users, FetchChain(i) PROVE SubInv'
  <2>1. /\ stage[i] = "unsent" /\ stage' = [stage EXCEPT ![i] = "fetching"]
        /\ want \in Keys /\ BeginAcquire(i, want)
        /\ UNCHANGED <<socketOf, session, closed>>
    BY <1>8 DEF FetchChain, TypeOK
  <2>2. /\ wants' = [wants EXCEPT ![i] = want] /\ readied' = readied
        /\ call' = [call EXCEPT ![i] = "acquiring"] /\ engine'[i] \in Runtimes
        /\ \A j \in Users \ {i} : engine'[j] = engine[j]
    BY <2>1, BeginAcquireDoes
  <2>3. QED
    BY <2>1, <2>2 DEF SubInv, TypeOK, RegistryTypeOK
<1>9. CASE Registry
  <2>1. UNCHANGED userVars /\ readied \subseteq readied'
    BY <1>9, RegistryStepDoes DEF Registry
  <2>2. QED
    BY <1>9, <2>1 DEF Registry, userVars, routeVars, SubInv
<1>10. QED
  BY <1>1, <1>2, <1>3, <1>4, <1>5, <1>6, <1>7, <1>8, <1>9, Actions

\* A session is of a subscription that was sent on its socket, and so is the last message.
LEMMA StepRouteInv ==
  ASSUME TypeOK, IInv, HookInv, SocketInv, SubInv, RouteInv, UpInv, [StreamNext]_streamVars
  PROVE  RouteInv'
<1> USE DEF Subs
<1>1. CASE Elsewhere
  BY <1>1 DEF Elsewhere, Navigate, Disable, Reconnect, OnClose, Deliver, Break, Publish, Answered,
              streamVars, routeVars, RouteInv
<1>2. CASE Subscribes
  <2>1. UNCHANGED <<session, latest>>
    BY <1>2, SubscribesDoes
  <2>2. CASE UNCHANGED <<stage, socketOf>>
    BY <2>1, <2>2 DEF RouteInv
  <2>3. CASE ~UNCHANGED <<stage, socketOf>>
    <3>1. PICK i \in Users, s \in Sockets :
            /\ stage[i] = "unsent" /\ stage' = [stage EXCEPT ![i] = "sent"]
            /\ socketOf' = [socketOf EXCEPT ![i] = s]
      BY <1>2, <2>3, SubscribesDoes
    <3>2. \A j \in Users \ {i} : stage'[j] = stage[j] /\ socketOf'[j] = socketOf[j]
      BY <3>1 DEF TypeOK
    <3>3. \A t \in Sockets : session[t] # i /\ latest[t] # i
      BY <3>1, StreamAssumption DEF RouteInv
    <3>4. QED
      BY <2>1, <3>2, <3>3 DEF RouteInv, TypeOK
  <2>4. QED
    BY <2>2, <2>3
<1>3. ASSUME NEW s \in Sockets, Receive(s) PROVE RouteInv'
  <2>1. Head(up[s]) \in Users /\ stage[Head(up[s])] = "sent"
    BY <1>3 DEF Receive, UpInv, TypeOK
  <2>2. /\ stage' = [stage EXCEPT ![Head(up[s])] = "handling"]
        /\ latest' = [latest EXCEPT ![s] = Head(up[s])]
        /\ session' = [session EXCEPT ![s] = NoSub] /\ socketOf' = socketOf
    BY <1>3 DEF Receive
  <2>3. \A t \in Sockets \ {s} : session[t] # Head(up[s]) /\ latest[t] # Head(up[s])
    BY <2>1, StreamAssumption DEF RouteInv
  <2>4. QED
    BY <2>1, <2>2, <2>3 DEF RouteInv, TypeOK
<1>4. ASSUME NEW s \in Sockets, ServerClosed(s) PROVE RouteInv'
  BY <1>4 DEF ServerClosed, RouteInv, TypeOK
<1>5. ASSUME NEW i \in Users, Continue(i) PROVE RouteInv'
  <2>1. stage[i] = "handling" /\ UNCHANGED <<socketOf, latest>> /\ socketOf[i] \in Sockets
    BY <1>5 DEF Continue, SubInv
  <2>2. \A t \in Sockets : session[t] # i
    BY <2>1, StreamAssumption DEF RouteInv
  <2>3. CASE Superseded(i)
    <3>1. session' = session /\ stage' = [stage EXCEPT ![i] = "ended"]
      BY <1>5, <2>3 DEF Continue
    <3>2. QED
      BY <2>1, <2>2, <3>1 DEF RouteInv, TypeOK
  <2>4. CASE ~Superseded(i)
    <3>1. /\ session' = [session EXCEPT ![socketOf[i]] = i]
          /\ stage' = [stage EXCEPT ![i] = "acquiring"]
      BY <1>5, <2>4 DEF Continue
    <3>2. latest[socketOf[i]] = i
      BY <2>4 DEF Superseded
    <3>3. QED
      BY <2>1, <2>2, <3>1, <3>2 DEF RouteInv, TypeOK
  <2>5. QED
    BY <2>3, <2>4
<1>6. ASSUME NEW i \in Users, Subscribed(i) \/ SubscribedSlow(i) PROVE RouteInv'
  <2>1. UNCHANGED <<socketOf, latest, session>> /\ stage[i] = "acquiring"
    BY <1>6 DEF Subscribed, SubscribedSlow
  <2>2. stage' = [stage EXCEPT ![i] = "open"] \/ stage' = [stage EXCEPT ![i] = "ended"]
    BY <1>6 DEF Subscribed, SubscribedSlow
  <2>3. \A j \in Users : IF j = i THEN stage'[j] \in {"open", "ended"} ELSE stage'[j] = stage[j]
    BY <2>2 DEF TypeOK
  <2>4. \A s \in Sockets : session[s] # NoSub => session[s] \in Users
    BY DEF TypeOK
  <2>5. \A s \in Sockets : latest[s] # NoSub => latest[s] \in Users
    BY DEF TypeOK
  <2>6. QED
    BY <2>1, <2>3, <2>4, <2>5 DEF RouteInv
<1>7. ASSUME NEW i \in Users, FetchChain(i) PROVE RouteInv'
  BY <1>7 DEF FetchChain, RouteInv, TypeOK
<1>8. ASSUME NEW i \in Users, Answer(i) PROVE RouteInv'
  BY <1>8 DEF Answer, RouteInv, TypeOK
<1>9. CASE Registry \/ \E i \in Users : SlowClient(i)
  BY <1>9 DEF Registry, SlowClient, routeVars, RouteInv
<1>10. QED
  BY <1>1, <1>2, <1>3, <1>4, <1>5, <1>6, <1>7, <1>8, <1>9, Actions

\* A subscription is sent once, and received once at most.
LEMMA StepUpInv ==
  ASSUME TypeOK, IInv, HookInv, SubInv, UpInv, [StreamNext]_streamVars
  PROVE  UpInv'
<1> USE DEF Subs
<1>1. ASSUME UNCHANGED <<up, socketOf>>, \A j \in Users : stage[j] = "sent" => stage'[j] = "sent"
      PROVE  UpInv'
  BY <1>1 DEF UpInv, TypeOK
<1>2. CASE Elsewhere
  <2>1. CASE \E s \in Sockets : Break(s)
    BY <2>1 DEF Break, routeVars, UpInv, TypeOK
  <2>2. CASE ~\E s \in Sockets : Break(s)
    BY <1>1, <1>2, <2>2 DEF Elsewhere, Navigate, Disable, Reconnect, OnClose, Deliver, Publish,
                            Answered, streamVars, routeVars, socketVars
  <2>3. QED
    BY <2>1, <2>2
<1>3. CASE Subscribes
  <2>1. CASE UNCHANGED <<stage, socketOf, up>>
    BY <1>1, <2>1
  <2>2. CASE ~UNCHANGED <<stage, socketOf, up>>
    <3>1. PICK i \in Users, s \in Sockets :
            /\ stage[i] = "unsent" /\ stage' = [stage EXCEPT ![i] = "sent"]
            /\ socketOf' = [socketOf EXCEPT ![i] = s]
            /\ up' = IF s \in broken THEN up ELSE [up EXCEPT ![s] = Append(@, i)]
      BY <1>3, <2>2, SubscribesDoes
    <3>2. \A t \in Sockets : \A p \in DOMAIN up[t] : up[t][p] # i /\ up[t][p] \in Users
      BY <3>1 DEF UpInv, TypeOK
    <3>3. \A j \in Users : IF j = i THEN stage'[j] = "sent" /\ socketOf'[j] = s
                            ELSE stage'[j] = stage[j] /\ socketOf'[j] = socketOf[j]
      BY <3>1 DEF TypeOK
    <3>4. CASE s \in broken
      BY <3>1, <3>2, <3>3, <3>4 DEF UpInv
    <3>5. CASE s \notin broken
      <4>1. \A t \in Sockets \ {s} : up'[t] = up[t]
        BY <3>1, <3>5 DEF TypeOK
      <4>2. /\ DOMAIN up'[s] = 1..(Len(up[s]) + 1) /\ up'[s][Len(up[s]) + 1] = i
            /\ \A p \in 1..Len(up[s]) : up'[s][p] = up[s][p]
        BY <3>1, <3>5 DEF TypeOK
      <4>3. DOMAIN up[s] = 1..Len(up[s]) /\ Len(up[s]) \in Nat
        BY DEF TypeOK
      <4>4. ASSUME NEW t \in Sockets, t # s, NEW p \in DOMAIN up'[t]
            PROVE  /\ stage'[up'[t][p]] = "sent" /\ socketOf'[up'[t][p]] = t
                   /\ \A q \in DOMAIN up'[t] : p # q => up'[t][p] # up'[t][q]
        BY <3>2, <3>3, <4>1, <4>4 DEF UpInv
      <4>5. ASSUME NEW p \in DOMAIN up'[s]
            PROVE  /\ stage'[up'[s][p]] = "sent" /\ socketOf'[up'[s][p]] = s
                   /\ \A q \in DOMAIN up'[s] : p # q => up'[s][p] # up'[s][q]
        <5>1. CASE p = Len(up[s]) + 1
          BY <3>1, <3>2, <3>3, <4>2, <4>3, <5>1
        <5>2. CASE p # Len(up[s]) + 1
          <6>1. p \in DOMAIN up[s] /\ up'[s][p] = up[s][p]
            BY <4>2, <4>3, <5>2
          <6>2. stage[up[s][p]] = "sent" /\ socketOf[up[s][p]] = s
            BY <6>1 DEF UpInv
          <6>3. ASSUME NEW q \in DOMAIN up'[s], p # q PROVE up'[s][p] # up'[s][q]
            <7>1. CASE q = Len(up[s]) + 1
              BY <3>2, <4>2, <6>1, <7>1
            <7>2. CASE q # Len(up[s]) + 1
              BY <4>2, <4>3, <6>1, <6>3, <7>2 DEF UpInv
            <7>3. QED
              BY <7>1, <7>2
          <6>4. QED
            BY <3>2, <3>3, <6>1, <6>2, <6>3
        <5>3. QED
          BY <5>1, <5>2
      <4>6. QED
        BY <4>4, <4>5 DEF UpInv
    <3>6. QED
      BY <3>4, <3>5
  <2>3. QED
    BY <2>1, <2>2
<1>4. ASSUME NEW s \in Sockets, Receive(s) PROVE UpInv'
  <2>1. up[s] \in Seq(Users) /\ up[s] # <<>>
    BY <1>4 DEF Receive, TypeOK
  <2>2. /\ up' = [up EXCEPT ![s] = Tail(@)] /\ socketOf' = socketOf
        /\ stage' = [stage EXCEPT ![up[s][1]] = "handling"]
    BY <1>4, <2>1 DEF Receive
  <2>3. /\ \A t \in Sockets \ {s} : up'[t] = up[t]
        /\ DOMAIN up'[s] = 1..(Len(up[s]) - 1) /\ DOMAIN up[s] = 1..Len(up[s])
        /\ Len(up[s]) \in Nat \ {0}
        /\ \A p \in 1..(Len(up[s]) - 1) : up'[s][p] = up[s][p + 1]
    BY <2>1, <2>2 DEF TypeOK
  <2>4. \A p \in 2..Len(up[s]) : up[s][p] # up[s][1]
    BY <2>3 DEF UpInv
  <2>5. \A t \in Sockets \ {s} : \A p \in DOMAIN up[t] : up[t][p] # up[s][1]
    BY <2>3 DEF UpInv
  <2>6. \A j \in Users : j # up[s][1] => stage'[j] = stage[j]
    BY <2>2 DEF TypeOK
  <2>7. \A t \in Sockets : \A p \in DOMAIN up[t] : up[t][p] \in Users
    BY DEF TypeOK
  <2>8. QED
    BY <2>2, <2>3, <2>4, <2>5, <2>6, <2>7 DEF UpInv
<1>5. CASE \/ \E s \in Sockets : ServerClosed(s)
           \/ \E i \in Users : SlowClient(i)
           \/ Registry
  BY <1>1, <1>5 DEF ServerClosed, SlowClient, Registry, socketVars, routeVars
<1>6. ASSUME NEW i \in Users, \/ Continue(i) \/ Subscribed(i) \/ SubscribedSlow(i)
                              \/ FetchChain(i) \/ Answer(i)
      PROVE  UpInv'
  <2>1. UNCHANGED <<up, socketOf>> /\ stage[i] # "sent"
    BY <1>6 DEF Continue, Subscribed, SubscribedSlow, FetchChain, Answer, socketVars
  <2>2. \A j \in Users \ {i} : stage'[j] = stage[j]
    BY <1>6 DEF Continue, Subscribed, SubscribedSlow, FetchChain, Answer, TypeOK
  <2>3. QED
    BY <1>1, <2>1, <2>2
<1>7. QED
  BY <1>2, <1>3, <1>4, <1>5, <1>6, Actions

\* A runtime that is ready has built its first snapshot, unless it was disposed before.
LEMMA StepRuntimeInv ==
  ASSUME TypeOK, IInv, HookInv, SubInv, RuntimeInv, [StreamNext]_streamVars
  PROVE  RuntimeInv'
<1> USE DEF Subs
<1>1. /\ readied \subseteq Runtimes /\ seq \in [Runtimes -> 0..MaxSeq]
      /\ life \in [Runtimes -> {"unused", "live", "disposed"}]
  BY DEF TypeOK, RegistryTypeOK
<1>2. ASSUME UNCHANGED <<life, readied, seq>> PROVE RuntimeInv'
  BY <1>2 DEF RuntimeInv
<1>3. ASSUME NEW u \in Users, NEW k \in Keys, BeginAcquire(u, k), UNCHANGED seq PROVE RuntimeInv'
  BY <1>1, <1>3, BeginAcquireDoes DEF RuntimeInv
<1>4. CASE Elsewhere
  <2>1. ASSUME NEW r \in Runtimes, NEW kind \in {"snapshot", "delta"}, Publish(r, kind)
        PROVE  RuntimeInv'
    <3>1. UNCHANGED <<life, readied>> /\ seq' = [seq EXCEPT ![r] = @ + 1]
      BY <2>1 DEF Publish, vars, registryVars
    <3>2. QED
      BY <1>1, <3>1 DEF RuntimeInv
  <2>2. CASE ~\E r \in Runtimes, kind \in {"snapshot", "delta"} : Publish(r, kind)
    BY <1>2, <1>4, <2>2 DEF Elsewhere, Navigate, Disable, Reconnect, OnClose, Deliver, Break,
                            Answered, streamVars, vars, registryVars
  <2>3. QED
    BY <2>1, <2>2
<1>5. CASE Subscribes
  BY <1>2, <1>5, SubscribesDoes DEF registryVars
<1>6. CASE \/ \E s \in Sockets : Receive(s) \/ ServerClosed(s)
           \/ \E i \in Users : SlowClient(i)
  BY <1>2, <1>6 DEF Receive, ServerClosed, SlowClient, DisposeSession
<1>7. ASSUME NEW i \in Users, Continue(i) PROVE RuntimeInv'
  BY <1>2, <1>3, <1>7 DEF Continue, SubInv, vars, registryVars
<1>8. ASSUME NEW i \in Users, Subscribed(i) \/ SubscribedSlow(i) \/ Answer(i) PROVE RuntimeInv'
  BY <1>2, <1>8 DEF Subscribed, SubscribedSlow, Answer, registryVars
<1>9. ASSUME NEW i \in Users, FetchChain(i) PROVE RuntimeInv'
  BY <1>3, <1>9 DEF FetchChain, TypeOK
<1>10. CASE Registry
  <2>1. /\ \A r \in Runtimes :
             /\ life'[r] = "live" => life[r] = "live"
             /\ life[r] # "unused" => life'[r] # "unused"
             /\ r \in readied' \ readied => life'[r] = life[r] /\ life[r] # "unused"
        /\ IInv'
    BY <1>10, RegistryStepDoes DEF Registry
  <2>2. readied' \subseteq Runtimes
    BY <2>1 DEF IInv, RegistryTypeOK
  <2>3. \A r \in Runtimes :
          seq'[r] = IF r \in readied' \ readied /\ life[r] = "live" THEN 1 ELSE seq[r]
    BY <1>10 DEF Registry
  <2>4. QED
    BY <2>1, <2>2, <2>3 DEF RuntimeInv
<1>11. QED
  BY <1>4, <1>5, <1>6, <1>7, <1>8, <1>9, <1>10, Actions

\* What is on its way down stays of the subscription it was sent to.
LEMMA FramesStay ==
  ASSUME StreamInv, [StreamNext]_streamVars
  PROVE  \A s \in Sockets : \A p \in DOMAIN down[s] :
           /\ down[s][p] \in Frame /\ down[s][p].of \in Users /\ down[s][p].of # NoSub
           /\ stage[down[s][p].of] # "unsent" /\ stage'[down[s][p].of] # "unsent"
           /\ socketOf[down[s][p].of] = s /\ socketOf'[down[s][p].of] = s
           /\ wants'[down[s][p].of] = wants[down[s][p].of]
           /\ wants[down[s][p].of] \in Keys
<1>1. \A s \in Sockets : \A p \in DOMAIN down[s] : down[s][p] \in Frame
  BY DEF StreamInv, TypeOK
<1>2. \A f \in Frame : f.of \in Users /\ f.of # NoSub
  BY StreamAssumption DEF Frame, Subs
<1>3. \A s \in Sockets : \A p \in DOMAIN down[s] :
        stage[down[s][p].of] # "unsent" /\ socketOf[down[s][p].of] = s
  BY DEF StreamInv, FollowsInv
<1>4. \A i \in Users : stage[i] # "unsent" =>
        stage'[i] # "unsent" /\ socketOf'[i] = socketOf[i] /\ wants'[i] = wants[i]
  BY SentStays DEF StreamInv
<1>5. \A i \in Users : stage[i] # "unsent" => wants[i] \in Keys
  BY DEF StreamInv, SubInv
<1>6. QED
  BY <1>1, <1>2, <1>3, <1>4, <1>5

\* A session that goes on holding its runtime does so on a socket that was open before,
\* and the runtime was live if it still is.
LEMMA HoldingStays ==
  ASSUME StreamInv, [StreamNext]_streamVars, ~\E i \in Users : Subscribed(i)
  PROVE  \A j \in Users : call'[j] = "holding" =>
           /\ call[j] = "holding" /\ engine'[j] = engine[j]
           /\ engine[j] \in Runtimes /\ engine[j] \in readied
           /\ life'[engine[j]] = "live" => life[engine[j]] = "live"
           /\ stage[j] # "unsent" /\ stage[j] = "open" /\ socketOf[j] \in Sockets
           /\ socketOf'[j] = socketOf[j] /\ wants'[j] = wants[j]
           /\ CanSend(socketOf[j])' => CanSend(socketOf[j])
<1> USE DEF Subs
<1> DEFINE Held(j) ==
             call'[j] = "holding" =>
               /\ call[j] = "holding" /\ engine'[j] = engine[j]
               /\ life'[engine[j]] = "live" => life[engine[j]] = "live"
           Open(j) ==
             call[j] = "holding" =>
               (serverEnd'[socketOf[j]] = "open" /\ socketOf[j] \notin broken' => CanSend(socketOf[j]))
<1>1. /\ TypeOK /\ IInv /\ HookInv /\ SocketInv /\ SubInv /\ RouteInv /\ RuntimeInv
      /\ call \in [Users -> {"none", "acquiring", "holding"}]
      /\ engine \in [Users -> Runtimes \cup {NoRuntime}]
      /\ serverEnd \in [Sockets -> {"none", "open", "closing", "closed"}]
  BY DEF StreamInv, TypeOK, RegistryTypeOK
<1>2. \A j \in Users : call[j] = "holding" =>
        /\ engine[j] \in Runtimes /\ engine[j] \in readied
        /\ stage[j] = "open" /\ socketOf[j] \in Sockets
        /\ session[socketOf[j]] = j /\ life[engine[j]] # "unused"
  BY <1>1 DEF SubInv, RuntimeInv
<1>3. ASSUME NEW u \in Users, NEW k \in Keys, BeginAcquire(u, k), NEW j \in Users PROVE Held(j)
  BY <1>1, <1>2, <1>3, BeginAcquireDoes
<1>4. ASSUME NEW d \in Users \cup {NoSub}, DisposeSession(d), NEW j \in Users PROVE Held(j)
  BY <1>1, <1>4, ClosedSession
<1>5. ASSUME NEW j \in Users PROVE Held(j) /\ Open(j)
  <2>1. CASE Elsewhere
    BY <2>1 DEF Elsewhere, Navigate, Disable, Reconnect, OnClose, Deliver, Break, Publish, Answered,
                streamVars, socketVars, vars, registryVars, userVars, CanSend
  <2>2. CASE Subscribes
    <3>1. UNCHANGED <<life, call, engine, broken>>
      BY <1>1, <2>2, SubscribesDoes DEF registryVars
    <3>2. Open(j)
      <4>1. CASE UNCHANGED serverEnd
        BY <3>1, <4>1 DEF CanSend
      <4>2. CASE ~UNCHANGED serverEnd
        <5>1. PICK s \in Sockets :
                /\ clientEnd[s] = "connecting"
                /\ \E end \in {"open", "closed"} : serverEnd' = [serverEnd EXCEPT ![s] = end]
          BY <1>1, <2>2, <4>2, SubscribesDoes
        <5>2. session[s] = NoSub
          BY <1>1, <5>1 DEF SocketInv
        <5>3. call[j] = "holding" => socketOf[j] # s
          BY <1>2, <5>2, StreamAssumption
        <5>4. QED
          BY <1>1, <1>2, <3>1, <5>1, <5>3 DEF CanSend
      <4>3. QED
        BY <4>1, <4>2
    <3>3. QED
      BY <3>1, <3>2
  <2>3. ASSUME NEW s \in Sockets, Receive(s) \/ ServerClosed(s) PROVE Held(j) /\ Open(j)
    <3>1. DisposeSession(session[s]) /\ session[s] \in Users \cup {NoSub}
      BY <1>1, <2>3 DEF Receive, ServerClosed, TypeOK
    <3>2. Held(j)
      BY <1>4, <3>1
    <3>3. Open(j)
      BY <1>1, <1>2, <2>3 DEF Receive, ServerClosed, CanSend
    <3>4. QED
      BY <3>2, <3>3
  <2>4. ASSUME NEW i \in Users, Continue(i) PROVE Held(j) /\ Open(j)
    <3>1. CASE Superseded(i)
      BY <2>4, <3>1 DEF Continue, socketVars, vars, registryVars, userVars, CanSend
    <3>2. CASE ~Superseded(i)
      <4>1. BeginAcquire(i, wants[i]) /\ wants[i] \in Keys
        BY <1>1, <2>4, <3>2 DEF Continue, SubInv
      <4>2. QED
        BY <1>3, <2>4, <4>1 DEF Continue, socketVars, CanSend
    <3>3. QED
      BY <3>1, <3>2
  <2>5. ASSUME NEW i \in Users, SubscribedSlow(i) \/ Answer(i) PROVE Held(j) /\ Open(j)
    <3>1. EndUse(i) /\ life' = life /\ broken' = broken
      BY <2>5 DEF SubscribedSlow, Answer, socketVars
    <3>2. Held(j)
      BY <1>1, <3>1, EndUseDoes
    <3>3. Open(j)
      BY <1>1, <1>2, <2>5, <3>1 DEF SubscribedSlow, Answer, socketVars, CanSend
    <3>4. QED
      BY <3>2, <3>3
  <2>6. ASSUME NEW i \in Users, SlowClient(i) PROVE Held(j) /\ Open(j)
    <3>1. Held(j)
      BY <1>4, <2>6 DEF SlowClient
    <3>2. Open(j)
      BY <1>1, <1>2, <2>6 DEF SlowClient, CanSend
    <3>3. QED
      BY <3>1, <3>2
  <2>7. ASSUME NEW i \in Users, FetchChain(i) PROVE Held(j) /\ Open(j)
    BY <1>1, <1>3, <2>7 DEF FetchChain, TypeOK, socketVars, CanSend
  <2>8. CASE Registry
    BY <1>1, <1>2, <2>8, RegistryStepDoes DEF Registry, userVars, socketVars, CanSend
  <2>9. QED
    BY <2>1, <2>2, <2>3, <2>4, <2>5, <2>6, <2>7, <2>8, Actions
<1>6. \A j \in Users : stage[j] # "unsent" =>
        stage'[j] # "unsent" /\ socketOf'[j] = socketOf[j] /\ wants'[j] = wants[j]
  BY <1>1, SentStays
<1>7. QED
  BY <1>2, <1>5, <1>6 DEF CanSend

\* A message that arrives: the next one on the socket fits what the cache then has,
\* and what the cache has stays whole.
LEMMA DeliverFollows ==
  ASSUME StreamInv, NEW s \in Sockets, Deliver(s)
  PROVE  FollowsInv' /\ StreamShownWhole'
<1> DEFINE f == down[s][1]
<1>1. /\ [StreamNext]_streamVars
      /\ down[s] \in Seq(Frame) /\ down[s] # <<>>
      /\ down' = [down EXCEPT ![s] = Tail(@)]
      /\ activeSub' = activeSub
      /\ shown \in [Keys -> Shown] /\ down \in [Sockets -> Seq(Frame)]
  <2>1. /\ down[s] \in Seq(Frame) /\ shown \in [Keys -> Shown] /\ down \in [Sockets -> Seq(Frame)]
    BY DEF StreamInv, TypeOK
  <2>2. down[s] # <<>> /\ down' = [down EXCEPT ![s] = Tail(@)] /\ activeSub' = activeSub
    BY DEF Deliver, hookVars
  <2>3. [StreamNext]_streamVars
    BY DEF StreamNext, Hook
  <2>4. QED
    BY <2>1, <2>2, <2>3
<1>2. /\ \A t \in Sockets \ {s} : down'[t] = down[t]
      /\ DOMAIN down[s] = 1..Len(down[s]) /\ Len(down[s]) \in Nat \ {0}
      /\ DOMAIN down'[s] = 1..(Len(down[s]) - 1)
      /\ \A p \in 1..(Len(down[s]) - 1) : down'[s][p] = down[s][p + 1]
  BY <1>1
<1>3. \A t \in Sockets : \A p \in DOMAIN down[t] :
        /\ down[t][p] \in Frame /\ down[t][p].of \in Users
        /\ stage'[down[t][p].of] # "unsent"
        /\ socketOf[down[t][p].of] = t /\ socketOf'[down[t][p].of] = t
        /\ wants'[down[t][p].of] = wants[down[t][p].of] /\ wants[down[t][p].of] \in Keys
  BY <1>1, FramesStay
<1>4. /\ 1 \in DOMAIN down[s] /\ f \in Frame /\ wants[f.of] \in Keys /\ socketOf[f.of] = s
      /\ Live[wants[f.of]] \in Keys
  BY <1>2, <1>3, StreamAssumption
<1>shown. shown' = IF f.of = activeSub
                   THEN [shown EXCEPT ![Live[wants[f.of]]] = Patched(@, f)]
                   ELSE shown
  <2>1. Head(down[s]) = f
    BY <1>1
  <2>2. QED
    BY <2>1 DEF Deliver, Gate
<1>5. f.of = activeSub => /\ shown'[Live[wants[f.of]]] = Patched(shown[Live[wants[f.of]]], f)
                          /\ \A k \in Keys : k # Live[wants[f.of]] => shown'[k] = shown[k]
  BY <1>1, <1>4, <1>shown
<1>6. f.of # activeSub => shown' = shown
  BY <1>shown
<1>7. \A old \in Shown : Patched(old, f).base = "stream" => Patched(old, f).chain = f.chain
  BY DEF Patched, Whole
<1>8. ASSUME NEW t \in Sockets, t # s, NEW p \in DOMAIN down'[t]
      PROVE  /\ stage'[down'[t][p].of] # "unsent" /\ socketOf'[down'[t][p].of] = t
             /\ down'[t][p].kind = "delta" =>
                  IF p > 1 THEN After(down'[t][p - 1], down'[t][p])
                  ELSE down'[t][p].of = activeSub' => BeforeFrame(down[t][p])'
  <2>1. down'[t] = down[t] /\ p \in DOMAIN down[t]
    BY <1>2, <1>8
  <2>2. socketOf[down[t][p].of] = t
    BY <1>3, <2>1
  <2>3. down[t][p].of = activeSub => shown' = shown
    BY <1>4, <1>6, <1>8, <2>2
  <2>4. down[t][p].kind = "delta" =>
          IF p > 1 THEN After(down[t][p - 1], down[t][p])
          ELSE down[t][p].of = activeSub => BeforeFrame(down[t][p])
    BY <2>1 DEF StreamInv, FollowsInv
  <2>5. CASE p > 1
    BY <1>2, <1>3, <1>8, <2>1, <2>4, <2>5
  <2>6. CASE ~(p > 1)
    <3>1. wants'[down[t][p].of] = wants[down[t][p].of]
      BY <1>3, <2>1
    <3>2. ASSUME down[t][p].kind = "delta", down[t][p].of = activeSub
          PROVE  BeforeFrame(down[t][p])'
      BY <2>1, <2>3, <2>4, <2>6, <3>1, <3>2 DEF BeforeFrame
    <3>3. QED
      BY <1>1, <1>3, <2>1, <2>6, <3>2
  <2>7. QED
    BY <2>5, <2>6
<1>9. ASSUME NEW p \in DOMAIN down'[s]
      PROVE  /\ stage'[down'[s][p].of] # "unsent" /\ socketOf'[down'[s][p].of] = s
             /\ down'[s][p].kind = "delta" =>
                  IF p > 1 THEN After(down'[s][p - 1], down'[s][p])
                  ELSE down'[s][p].of = activeSub' => BeforeFrame(down[s][p])'
  <2>1. p \in 1..(Len(down[s]) - 1) /\ p + 1 \in DOMAIN down[s] /\ down'[s][p] = down[s][p + 1]
    BY <1>2
  <2>2. down[s][p + 1].kind = "delta" => After(down[s][p], down[s][p + 1])
    <3>1. down[s][p + 1].kind = "delta" => After(down[s][(p + 1) - 1], down[s][p + 1])
      BY <1>2, <2>1 DEF StreamInv, FollowsInv
    <3>2. QED
      BY <1>2, <2>1, <3>1
  <2>3. CASE p > 1
    <3>1. down'[s][p - 1] = down[s][p]
      <4>1. p - 1 \in 1..(Len(down[s]) - 1) /\ (p - 1) + 1 = p
        BY <1>2, <2>1, <2>3
      <4>2. QED
        BY <1>2, <4>1
    <3>2. QED
      BY <1>3, <2>1, <2>2, <2>3, <3>1
  <2>4. CASE p = 1
    <3>1. ASSUME down'[s][1].kind = "delta", down'[s][1].of = activeSub
          PROVE  BeforeFrame(down[s][1])'
      <4>1. down'[s][1] = down[s][2] /\ After(f, down[s][2]) /\ 2 \in DOMAIN down[s]
        BY <1>2, <2>1, <2>2, <2>4, <3>1
      <4>2. down[s][2].of = f.of /\ f.of = activeSub
        BY <3>1, <4>1 DEF After
      <4>3. wants'[f.of] = wants[f.of]
        BY <1>3, <1>4
      <4>4. shown'[Live[wants[f.of]]].base = "stream" => shown'[Live[wants[f.of]]].chain = f.chain
        BY <1>1, <1>4, <1>5, <1>7, <4>2
      <4>5. QED
        BY <4>1, <4>2, <4>3, <4>4 DEF After, BeforeFrame
    <3>2. QED
      BY <1>1, <1>3, <2>1, <2>4, <3>1
  <2>5. QED
    BY <1>2, <2>1, <2>3, <2>4
<1>10. FollowsInv'
  BY <1>8, <1>9 DEF FollowsInv
<1>11. ASSUME NEW k \in Keys, shown'[k].base = "stream" PROVE shown'[k].whole
  <2>1. shown[k].base = "stream" => shown[k].whole
    BY DEF StreamInv, StreamShownWhole
  <2>2. CASE f.of = activeSub /\ k = Live[wants[f.of]]
    <3>1. shown[k] \in Shown /\ shown'[k] = Patched(shown[k], f)
      BY <1>1, <1>5, <2>2
    <3>2. CASE f.kind = "snapshot"
      BY <3>1, <3>2 DEF Patched, Whole
    <3>3. CASE f.kind = "delta" /\ shown[k].base = "stream"
      <4>1. BeforeFrame(f)
        BY <1>4, <2>2, <3>3 DEF StreamInv, FollowsInv
      <4>2. f.chain.engine = shown[k].chain.engine /\ f.chain.seq = shown[k].chain.seq + 1
        BY <2>2, <3>3, <4>1 DEF BeforeFrame
      <4>3. shown[k].chain.seq \in Nat
        BY <3>1, StreamAssumption DEF Shown, Chains, NoChain, Chain
      <4>4. Fits(shown[k], f.chain)
        BY <4>2, <4>3 DEF Fits
      <4>5. Patched(shown[k], f).whole = (shown[k].whole /\ Fits(shown[k], f.chain))
        BY <3>3 DEF Patched
      <4>6. QED
        BY <2>1, <3>1, <3>3, <4>4, <4>5
    <3>4. CASE f.kind = "delta" /\ shown[k].base # "stream"
      <4>1. shown'[k].base = shown[k].base
        BY <3>1, <3>4 DEF Patched
      <4>2. QED
        BY <1>11, <3>4, <4>1
    <3>5. QED
      BY <1>4, <3>2, <3>3, <3>4 DEF Frame
  <2>3. CASE ~(f.of = activeSub /\ k = Live[wants[f.of]])
    <3>1. shown'[k] = shown[k]
      BY <1>5, <1>6, <2>3
    <3>2. QED
      BY <1>11, <2>1, <3>1
  <2>4. QED
    BY <2>2, <2>3
<1>12. QED
  BY <1>10, <1>11 DEF StreamShownWhole

\* The sessions a runtime publishes to hold it, and a socket has one of them at most.
LEMMA AttachedHold ==
  ASSUME StreamInv, NEW r \in Runtimes
  PROVE  /\ \A i \in Users : i \in Attached(r) <=> call[i] = "holding" /\ engine[i] = r
         /\ \A i, j \in Users : call[i] = "holding" /\ call[j] = "holding"
                                  /\ socketOf[i] = socketOf[j] => i = j
         /\ \A i \in Users : call[i] = "holding" =>
              stage[i] # "unsent" /\ socketOf[i] \in Sockets /\ wants[i] \in Keys
<1>1. \A i \in Users : call[i] = "holding" <=> stage[i] = "open" /\ i \notin closed
  BY DEF StreamInv, SubInv
<1>2. \A i \in Users : call[i] = "holding" => session[socketOf[i]] = i
  BY <1>1 DEF StreamInv, SubInv
<1>3. \A i \in Users : stage[i] = "open" => socketOf[i] \in Sockets /\ wants[i] \in Keys
  BY DEF StreamInv, SubInv
<1>4. QED
  BY <1>1, <1>2, <1>3 DEF Attached, Subs

\* Whom runtime r publishes to on socket s, and what.
Listens(i, r, s) ==
  call[i] = "holding" /\ engine[i] = r /\ socketOf[i] = s /\ CanSend(s)
FrameTo(i, kind, r) == [kind |-> kind, of |-> i, chain |-> Chain(r, seq[r] + 1)]

\* What a publication puts on the way to a socket.
LEMMA PublishDoes ==
  ASSUME StreamInv, NEW r \in Runtimes, NEW kind \in {"snapshot", "delta"}, Publish(r, kind)
  PROVE  /\ life[r] = "live" /\ seq[r] \in Nat
         /\ seq' = [seq EXCEPT ![r] = @ + 1] /\ seq \in [Runtimes -> 0..MaxSeq]
         /\ UNCHANGED <<vars, hookVars, shown, clientEnd, up, broken, serverEnd, routeVars>>
         /\ \A s \in Sockets :
              \/ down'[s] = down[s] /\ \A i \in Users : ~Listens(i, r, s)
              \/ \E i \in Users :
                   Listens(i, r, s) /\ down'[s] = Append(down[s], FrameTo(i, kind, r))
<1>1. /\ life[r] = "live" /\ seq' = [seq EXCEPT ![r] = @ + 1] /\ seq \in [Runtimes -> 0..MaxSeq]
      /\ UNCHANGED <<vars, hookVars, shown, clientEnd, up, broken, serverEnd, routeVars>>
  BY DEF Publish, StreamInv, TypeOK
<1>2. seq[r] \in Nat
  BY <1>1, StreamAssumption
<1>3. \A i \in Users : i \in Attached(r) <=> call[i] = "holding" /\ engine[i] = r
  BY AttachedHold
<1>4. ASSUME NEW s \in Sockets
      PROVE  \/ down'[s] = down[s] /\ \A i \in Users : ~Listens(i, r, s)
             \/ \E i \in Users :
                  Listens(i, r, s) /\ down'[s] = Append(down[s], FrameTo(i, kind, r))
  <2> DEFINE I == {i \in Attached(r) : socketOf[i] = s}
             c == CHOOSE i \in I : TRUE
  <2>1. down'[s] = IF I # {} /\ CanSend(s)
                   THEN down[s] \o Frames(c, kind, Chain(r, seq[r] + 1)) ELSE down[s]
    BY DEF Publish
  <2>2. CASE I # {} /\ CanSend(s)
    <3>1. c \in I
      BY <2>2
    <3>2. c \in Users /\ call[c] = "holding" /\ engine[c] = r /\ socketOf[c] = s
      BY <1>3, <3>1 DEF Attached, Subs
    <3>3. down[s] \in Seq(Frame)
      BY DEF StreamInv, TypeOK
    <3>4. down[s] \o Frames(c, kind, Chain(r, seq[r] + 1))
            = Append(down[s], FrameTo(c, kind, r))
      BY <3>3 DEF Frames, FrameTo
    <3>5. QED
      BY <2>1, <2>2, <3>2, <3>4 DEF Listens
  <2>3. CASE ~(I # {} /\ CanSend(s))
    BY <1>3, <2>1, <2>3 DEF Listens
  <2>4. QED
    BY <2>2, <2>3
<1>5. QED
  BY <1>1, <1>2, <1>4

\* The frame after the last one that was sent, or after what the cache has.
LEMMA PublishFollows ==
  ASSUME StreamInv, NEW r \in Runtimes, NEW kind \in {"snapshot", "delta"}, Publish(r, kind)
  PROVE  FollowsInv'
<1>1. [StreamNext]_streamVars
  BY DEF StreamNext, Route
<1>2. UNCHANGED <<wants, stage, socketOf, activeSub, shown>> /\ seq[r] \in Nat
  BY PublishDoes DEF vars, userVars, routeVars, hookVars
<1>3. ASSUME NEW s \in Sockets, NEW p \in DOMAIN down'[s]
      PROVE  /\ stage[down'[s][p].of] # "unsent" /\ socketOf[down'[s][p].of] = s
             /\ down'[s][p].kind = "delta" =>
                  IF p > 1 THEN After(down'[s][p - 1], down'[s][p])
                  ELSE down'[s][p].of = activeSub => BeforeFrame(down'[s][p])
  <2>1. CASE down'[s] = down[s]
    BY <1>3, <2>1 DEF StreamInv, FollowsInv
  <2>2. CASE down'[s] # down[s]
    <3> DEFINE n == Len(down[s])
    <3>1. PICK i \in Users : Listens(i, r, s) /\ down'[s] = Append(down[s], FrameTo(i, kind, r))
      BY <2>2, PublishDoes
    <3>2. down[s] \in Seq(Frame)
      BY DEF StreamInv, TypeOK
    <3>3. /\ n \in Nat /\ DOMAIN down[s] = 1..n /\ DOMAIN down'[s] = 1..(n + 1)
          /\ \A q \in 1..n : down'[s][q] = down[s][q]
          /\ down'[s][n + 1] = [kind |-> kind, of |-> i, chain |-> Chain(r, seq[r] + 1)]
          /\ down[s] # <<>> <=> n > 0
      BY <3>1, <3>2 DEF FrameTo
    <3>4. stage[i] # "unsent" /\ life[r] = "live"
      BY <3>1, AttachedHold, PublishDoes DEF Listens
    <3>5. CASE p \in 1..n
      <4>1. down'[s][p] = down[s][p] /\ (p > 1 => down'[s][p - 1] = down[s][p - 1])
        <5>1. p > 1 => p - 1 \in 1..n
          BY <3>3, <3>5
        <5>2. QED
          BY <3>3, <3>5, <5>1
      <4>2. p \in DOMAIN down[s]
        BY <3>3, <3>5
      <4>3. QED
        BY <4>1, <4>2 DEF StreamInv, FollowsInv
    <3>6. CASE p = n + 1 /\ n > 0
      <4>1. down[s][n].of = i /\ down[s][n].chain = Chain(r, seq[r])
        BY <3>1, <3>3, <3>4, <3>6 DEF StreamInv, NewestInv, Listens
      <4>2. down'[s][p - 1] = down[s][n] /\ p > 1
        BY <3>3, <3>6
      <4>3. After(down'[s][p - 1], down'[s][p])
        <5>1. down'[s][p].of = i /\ down'[s][p].chain = Chain(r, seq[r] + 1)
          BY <3>3, <3>6
        <5>2. QED
          BY <1>2, <4>1, <4>2, <5>1 DEF After, Chain
      <4>4. QED
        BY <3>1, <3>3, <3>4, <3>6, <4>2, <4>3 DEF Listens
    <3>7. CASE p = n + 1 /\ n = 0
      <4>1. i = activeSub => UpToDate(i)
        BY <3>1, <3>3, <3>4, <3>7 DEF StreamInv, NewestInv, Listens
      <4>2. /\ down'[s][p].of = i /\ down'[s][p].chain = Chain(r, seq[r] + 1)
            /\ engine[i] = r
        BY <3>1, <3>3, <3>7 DEF Listens
      <4>3. i = activeSub => BeforeFrame(down'[s][p])
        BY <1>2, <4>1, <4>2 DEF BeforeFrame, UpToDate, Chain
      <4>4. QED
        BY <3>1, <3>3, <3>4, <3>7, <4>2, <4>3 DEF Listens
    <3>8. QED
      BY <1>3, <3>3, <3>5, <3>6, <3>7
  <2>3. QED
    BY <2>1, <2>2
<1>4. ASSUME NEW s \in Sockets, NEW p \in DOMAIN down'[s]
      PROVE  BeforeFrame(down'[s][p]) => BeforeFrame(down[s][p])'
  BY <1>2 DEF BeforeFrame
<1>5. QED
  BY <1>2, <1>3, <1>4 DEF FollowsInv

\* The socket's frames follow each other after every other step, too.
LEMMA StepFollowsInv ==
  ASSUME StreamInv, [StreamNext]_streamVars
  PROVE  FollowsInv'
<1> USE DEF Subs
<1>1. \A s \in Sockets : \A p \in DOMAIN down[s] :
        /\ down[s][p].of \in Users /\ down[s][p].of # NoSub
        /\ stage[down[s][p].of] # "unsent" /\ stage'[down[s][p].of] # "unsent"
        /\ socketOf'[down[s][p].of] = s
        /\ wants'[down[s][p].of] = wants[down[s][p].of]
  BY FramesStay
<1>2. \A s \in Sockets : \A p \in DOMAIN down[s] :
        down[s][p].kind = "delta" =>
          IF p > 1 THEN After(down[s][p - 1], down[s][p])
          ELSE down[s][p].of = activeSub => BeforeFrame(down[s][p])
  BY DEF StreamInv, FollowsInv
\* The frames are as they were, and the cache of those that count is.
<1>3. ASSUME \A s \in Sockets : down'[s] = down[s] \/ down'[s] = <<>>,
             \/ activeSub' = activeSub
             \/ activeSub' = NoSub
             \/ activeSub' \in Users /\ stage[activeSub'] = "unsent",
             \A k \in Keys : shown'[k].base = "stream" => shown'[k] = shown[k]
      PROVE  FollowsInv'
  <2>1. ASSUME NEW s \in Sockets, NEW p \in DOMAIN down'[s]
        PROVE  down'[s] = down[s] /\ p \in DOMAIN down[s]
    BY <1>3, <2>1
  <2>2. ASSUME NEW s \in Sockets, NEW p \in DOMAIN down[s], down[s][p].of = activeSub',
               down'[s] = down[s], BeforeFrame(down[s][p])
        PROVE  BeforeFrame(down[s][p])'
    <3>1. /\ Live[wants[down[s][p].of]] \in Keys
          /\ wants'[down[s][p].of] = wants[down[s][p].of]
      BY FramesStay, StreamAssumption
    <3>2. QED
      BY <1>3, <2>2, <3>1 DEF BeforeFrame
  <2>3. ASSUME NEW s \in Sockets, NEW p \in DOMAIN down[s], down[s][p].of = activeSub'
        PROVE  activeSub' = activeSub
    BY <1>1, <1>3, <2>3
  <2>4. QED
    BY <1>1, <1>2, <2>1, <2>2, <2>3 DEF FollowsInv
<1>4. CASE Elsewhere
  <2>1. CASE \E s \in Sockets : Deliver(s)
    BY <2>1, DeliverFollows
  <2>2. CASE \E r \in Runtimes, kind \in {"snapshot", "delta"} : Publish(r, kind)
    BY <2>2, PublishFollows
  <2>3. ASSUME NEW a \in answers, Answered(a) PROVE FollowsInv'
    <3>1. UNCHANGED <<down, activeSub>>
      BY <2>3 DEF Answered, hookVars, socketVars
    <3>2. \A k \in Keys : shown'[k].base = "stream" => shown'[k] = shown[k]
      BY <2>3 DEF Answered, Whole, StreamInv, TypeOK
    <3>3. QED
      BY <1>3, <3>1, <3>2
  <2>4. CASE \E s \in Sockets : Break(s)
    BY <1>3, <2>4 DEF Break, hookVars, StreamInv, TypeOK
  <2>5. CASE \/ \E key \in Keys : Navigate(key)
             \/ Disable \/ Reconnect
             \/ \E s \in Sockets : OnClose(s)
             \/ UNCHANGED streamVars
    <3>1. UNCHANGED <<down, shown>>
      BY <2>5 DEF Navigate, Disable, Reconnect, OnClose, streamVars, socketVars
    <3>2. activeSub' = activeSub \/ activeSub' = NoSub
      BY <2>5 DEF Navigate, Disable, Reconnect, OnClose, streamVars, hookVars
    <3>3. QED
      BY <1>3, <3>1, <3>2
  <2>6. QED
    BY <1>4, <2>1, <2>2, <2>3, <2>4, <2>5 DEF Elsewhere
<1>5. CASE Subscribes
  <2>1. UNCHANGED <<down, shown>>
    BY <1>5, SubscribesDoes DEF StreamInv
  <2>2. CASE activeSub' = activeSub
    BY <1>3, <2>1, <2>2
  <2>3. CASE activeSub' # activeSub
    <3>1. PICK i \in Users : activeSub' = i /\ stage[i] = "unsent"
      BY <1>5, <2>3, SubscribesDoes DEF StreamInv
    <3>2. QED
      BY <1>3, <2>1, <3>1
  <2>4. QED
    BY <2>2, <2>3
<1>6. ASSUME NEW i \in Users, Subscribed(i) PROVE FollowsInv'
  <2>1. UNCHANGED <<shown, activeSub>>
    BY <1>6 DEF Subscribed, hookVars
  <2>2. /\ socketOf[i] \in Sockets
        /\ \A s \in Sockets :
             \/ down'[s] = down[s]
             \/ s = socketOf[i] /\ down'[s] = Append(down[s], [kind |-> "snapshot", of |-> i,
                                                    chain |-> Chain(engine[i], seq[engine[i]])])
    BY <1>6, SubscribedDoes DEF StreamInv
  <2>3. stage[i] # "unsent" /\ stage'[i] # "unsent" /\ socketOf'[i] = socketOf[i]
    BY <1>6, SentStays DEF Subscribed, StreamInv
  <2>4. ASSUME NEW s \in Sockets, NEW p \in DOMAIN down[s], BeforeFrame(down[s][p])
        PROVE  BeforeFrame(down[s][p])'
    <3>1. ASSUME down'[s] = down[s] PROVE BeforeFrame(down[s][p])'
      BY <1>1, <2>1, <2>4, <3>1 DEF BeforeFrame
    <3>2. CASE down'[s] # down[s]
      <4>1. down'[s][p] = down[s][p]
        <5>1. down[s] \in Seq(Frame)
          BY DEF StreamInv, TypeOK
        <5>2. QED
          BY <2>2, <3>2, <5>1
      <4>2. QED
        BY <1>1, <2>1, <2>4, <4>1 DEF BeforeFrame
    <3>3. QED
      BY <3>1, <3>2
  <2>5. ASSUME NEW s \in Sockets, NEW p \in DOMAIN down'[s]
        PROVE  /\ stage'[down'[s][p].of] # "unsent" /\ socketOf'[down'[s][p].of] = s
               /\ down'[s][p].kind = "delta" =>
                    /\ p \in DOMAIN down[s] /\ down'[s][p] = down[s][p]
                    /\ p > 1 => down'[s][p - 1] = down[s][p - 1]
    <3>1. down[s] \in Seq(Frame)
      BY DEF StreamInv, TypeOK
    <3>2. CASE down'[s] = down[s]
      BY <1>1, <2>5, <3>2
    <3>3. CASE down'[s] # down[s]
      <4>1. s = socketOf[i] /\ down'[s] = Append(down[s], [kind |-> "snapshot", of |-> i,
                                              chain |-> Chain(engine[i], seq[engine[i]])])
        BY <2>2, <3>3
      <4>2. /\ Len(down[s]) \in Nat /\ DOMAIN down[s] = 1..Len(down[s])
            /\ DOMAIN down'[s] = 1..(Len(down[s]) + 1)
            /\ \A q \in 1..Len(down[s]) : down'[s][q] = down[s][q]
            /\ down'[s][Len(down[s]) + 1].kind = "snapshot" /\ down'[s][Len(down[s]) + 1].of = i
        BY <3>1, <4>1
      <4>3. CASE p = Len(down[s]) + 1
        BY <2>3, <4>1, <4>2, <4>3
      <4>4. CASE p \in DOMAIN down[s]
        <5>1. p > 1 => p - 1 \in 1..Len(down[s])
          BY <4>2, <4>4
        <5>2. QED
          BY <1>1, <4>2, <4>4, <5>1
      <4>5. QED
        BY <2>5, <4>2, <4>3, <4>4
    <3>4. QED
      BY <3>2, <3>3
  <2>6. QED
    BY <1>2, <2>1, <2>4, <2>5 DEF FollowsInv
<1>7. CASE \/ \E s \in Sockets : Receive(s) \/ ServerClosed(s)
           \/ \E i \in Users : Continue(i) \/ SubscribedSlow(i) \/ SlowClient(i)
           \/ \E i \in Users : FetchChain(i) \/ Answer(i)
           \/ Registry
  BY <1>3, <1>7 DEF Receive, ServerClosed, Continue, SubscribedSlow, SlowClient, FetchChain,
                    Answer, Registry, hookVars, socketVars
<1>8. QED
  BY <1>4, <1>5, <1>6, <1>7, Actions

\* What is published is the newest there is, and goes to whoever holds the runtime.
LEMMA PublishNewest ==
  ASSUME StreamInv, NEW r \in Runtimes, NEW kind \in {"snapshot", "delta"}, Publish(r, kind)
  PROVE  NewestInv'
<1>1. /\ UNCHANGED <<vars, hookVars, shown, broken, serverEnd, routeVars>>
      /\ life[r] = "live" /\ seq[r] \in Nat
      /\ seq' = [seq EXCEPT ![r] = @ + 1] /\ seq \in [Runtimes -> 0..MaxSeq]
  BY PublishDoes
<1>2. UNCHANGED <<wants, call, engine, life, activeSub, shown, broken, serverEnd, socketOf>>
  BY <1>1 DEF vars, registryVars, userVars, hookVars, routeVars
<1>3. ASSUME NEW s \in Sockets, NEW i \in Users, call[i] = "holding", socketOf[i] = s, CanSend(s),
             life[engine[i]] = "live"
      PROVE  IF down'[s] # <<>>
             THEN /\ down'[s][Len(down'[s])].of = i
                  /\ down'[s][Len(down'[s])].chain = Chain(engine[i], seq'[engine[i]])
             ELSE i = activeSub => UpToDate(i)'
  <2>1. engine[i] \in Runtimes
    BY <1>3 DEF StreamInv, SubInv
  <2>2. down[s] \in Seq(Frame)
    BY DEF StreamInv, TypeOK
  <2>3. CASE engine[i] = r
    <3>1. Listens(i, r, s)
      BY <1>3, <2>3 DEF Listens
    <3>2. PICK j \in Users : Listens(j, r, s) /\ down'[s] = Append(down[s], FrameTo(j, kind, r))
      BY <3>1, PublishDoes
    <3>3. j = i
      BY <1>3, <3>2, AttachedHold DEF Listens
    <3>4. down'[s][Len(down'[s])] = FrameTo(i, kind, r) /\ down'[s] # <<>>
      <4>1. \A f : LET d == Append(down[s], f) IN d[Len(d)] = f /\ d # <<>>
        BY <2>2
      <4>2. QED
        BY <3>2, <3>3, <4>1
    <3>5. seq'[r] = seq[r] + 1
      BY <1>1
    <3>6. QED
      BY <2>3, <3>4, <3>5 DEF FrameTo
  <2>4. CASE engine[i] # r
    <3>1. seq'[engine[i]] = seq[engine[i]]
      BY <1>1, <2>1, <2>4
    <3>2. \A j \in Users : ~Listens(j, r, s)
      BY <1>3, <2>4, AttachedHold DEF Listens
    <3>3. down'[s] = down[s]
      BY <3>2, PublishDoes
    <3>4. IF down[s] # <<>>
          THEN /\ down[s][Len(down[s])].of = i
               /\ down[s][Len(down[s])].chain = Chain(engine[i], seq[engine[i]])
          ELSE i = activeSub => UpToDate(i)
      BY <1>3 DEF StreamInv, NewestInv
    <3>5. QED
      BY <1>2, <3>1, <3>3, <3>4 DEF UpToDate
  <2>5. QED
    BY <2>3, <2>4
<1>4. QED
  BY <1>2, <1>3 DEF NewestInv, CanSend, UpToDate

\* When the last frame on its way arrives, the cache has the newest chain.
LEMMA DeliverNewest ==
  ASSUME StreamInv, NEW s \in Sockets, Deliver(s)
  PROVE  NewestInv'
<1> DEFINE f == down[s][1]
<1>1. /\ UNCHANGED <<wants, call, engine, life, seq, activeSub, broken, serverEnd, socketOf>>
      /\ down' = [down EXCEPT ![s] = Tail(@)] /\ down[s] # <<>>
  BY DEF Deliver, vars, registryVars, userVars, hookVars, routeVars
<1>2. /\ down[s] \in Seq(Frame) /\ shown \in [Keys -> Shown] /\ down \in [Sockets -> Seq(Frame)]
      /\ Head(down[s]) = f
  BY <1>1 DEF StreamInv, TypeOK
<1>3. shown' = IF f.of = activeSub THEN [shown EXCEPT ![Live[wants[f.of]]] = Patched(@, f)] ELSE shown
  BY <1>2 DEF Deliver, Gate
<1>4. /\ Len(down[s]) \in Nat \ {0} /\ Len(down'[s]) = Len(down[s]) - 1
      /\ \A p \in 1..(Len(down[s]) - 1) : down'[s][p] = down[s][p + 1]
      /\ down'[s] = <<>> <=> Len(down[s]) = 1
      /\ \A t \in Sockets \ {s} : down'[t] = down[t]
  <2>1. down'[s] = Tail(down[s]) /\ \A t \in Sockets \ {s} : down'[t] = down[t]
    BY <1>1, <1>2
  <2>2. /\ Len(down[s]) \in Nat \ {0} /\ Len(Tail(down[s])) = Len(down[s]) - 1
        /\ Tail(down[s]) \in Seq(Frame)
        /\ \A p \in 1..(Len(down[s]) - 1) : Tail(down[s])[p] = down[s][p + 1]
    <3>1. \A d \in Seq(Frame) : d # <<>> =>
            /\ Len(d) \in Nat \ {0} /\ Len(Tail(d)) = Len(d) - 1 /\ Tail(d) \in Seq(Frame)
            /\ \A p \in 1..(Len(d) - 1) : Tail(d)[p] = d[p + 1]
      OBVIOUS
    <3>2. QED
      BY <1>1, <1>2, <3>1
  <2>3. Tail(down[s]) = <<>> <=> Len(Tail(down[s])) = 0
    <3>1. \A d \in Seq(Frame) : d = <<>> <=> Len(d) = 0
      OBVIOUS
    <3>2. QED
      BY <2>2, <3>1
  <2>4. QED
    BY <2>1, <2>2, <2>3
<1>5. /\ f \in Frame /\ socketOf[f.of] = s /\ f.of \in Users
      /\ wants[f.of] \in Keys /\ Live[wants[f.of]] \in Keys
  <2>1. 1 \in DOMAIN down[s] /\ [StreamNext]_streamVars
    BY <1>1, <1>2 DEF StreamNext, Hook
  <2>2. QED
    BY <2>1, FramesStay, StreamAssumption
<1>6. ASSUME NEW t \in Sockets, NEW i \in Users, call[i] = "holding", socketOf[i] = t, CanSend(t),
             life[engine[i]] = "live"
      PROVE  IF down'[t] # <<>>
             THEN /\ down'[t][Len(down'[t])].of = i
                  /\ down'[t][Len(down'[t])].chain = Chain(engine[i], seq[engine[i]])
             ELSE i = activeSub => UpToDate(i)'
  <2>1. IF down[t] # <<>>
        THEN /\ down[t][Len(down[t])].of = i
             /\ down[t][Len(down[t])].chain = Chain(engine[i], seq[engine[i]])
        ELSE i = activeSub => UpToDate(i)
    BY <1>6 DEF StreamInv, NewestInv
  <2>2. CASE t # s
    <3>1. down'[t] = down[t]
      BY <1>4, <2>2
    <3>2. i = activeSub => shown' = shown
      BY <1>3, <1>5, <1>6, <2>2
    <3>3. QED
      BY <1>1, <2>1, <3>1, <3>2 DEF UpToDate
  <2>3. CASE t = s /\ Len(down[s]) > 1
    <3>1. Len(down'[s]) \in 1..(Len(down[s]) - 1) /\ Len(down'[s]) + 1 = Len(down[s])
      BY <1>4, <2>3
    <3>2. down'[s][Len(down'[s])] = down[s][Len(down[s])] /\ down'[s] # <<>>
      BY <1>4, <2>3, <3>1
    <3>3. QED
      BY <1>1, <2>1, <2>3, <3>2
  <2>4. CASE t = s /\ Len(down[s]) = 1
    <3>1. f.of = i /\ f.chain = Chain(engine[i], seq[engine[i]]) /\ down'[s] = <<>>
      BY <1>1, <1>4, <2>1, <2>4
    <3>2. ASSUME i = activeSub, shown'[Live[wants[i]]].base = "stream"
          PROVE  shown'[Live[wants[i]]].chain = Chain(engine[i], seq[engine[i]])
      <4>1. shown'[Live[wants[i]]] = Patched(shown[Live[wants[i]]], f)
        BY <1>2, <1>3, <1>5, <3>1, <3>2
      <4>2. Patched(shown[Live[wants[i]]], f).base = "stream" =>
              Patched(shown[Live[wants[i]]], f).chain = f.chain
        BY DEF Patched, Whole
      <4>3. QED
        BY <3>1, <3>2, <4>1, <4>2
    <3>3. i = activeSub => UpToDate(i)'
      BY <1>1, <3>2 DEF UpToDate
    <3>4. QED
      BY <2>4, <3>1, <3>3
  <2>5. QED
    BY <1>4, <2>2, <2>3, <2>4
<1>7. QED
  BY <1>1, <1>6 DEF NewestInv, CanSend, UpToDate

\* A new session is sent the newest chain when it gets its runtime: a runtime that is
\* ready has one, unless it was disposed.
LEMMA SubscribedNewest ==
  ASSUME StreamInv, NEW i \in Users, Subscribed(i)
  PROVE  NewestInv'
<1>1. /\ UNCHANGED <<wants, life, seq, activeSub, shown, broken, serverEnd, socketOf>>
      /\ stage[i] = "acquiring"
  <2>1. wants' = wants /\ life' = life
    BY SubscribedDoes DEF StreamInv
  <2>2. QED
    BY <2>1 DEF Subscribed, hookVars
<1>2. /\ socketOf[i] \in Sockets /\ engine[i] \in readied /\ engine[i] \in Runtimes
      /\ \A j \in Users \ {i} : call'[j] = call[j] /\ engine'[j] = engine[j]
      /\ \/ i \in closed /\ call'[i] = "none" /\ down' = down
         \/ /\ i \notin closed /\ engine'[i] = engine[i]
            /\ \A s \in Sockets :
                 IF s = socketOf[i] /\ HasSnapshot(engine[i]) /\ CanSend(s)
                 THEN down'[s] = Append(down[s], [kind |-> "snapshot", of |-> i,
                                                 chain |-> Chain(engine[i], seq[engine[i]])])
                 ELSE down'[s] = down[s]
  BY SubscribedDoes DEF StreamInv
<1>3. i \notin closed => session[socketOf[i]] = i
  BY <1>1 DEF StreamInv, SubInv
<1>4. \A j \in Users : call[j] = "holding" => session[socketOf[j]] = j
  BY DEF StreamInv, SubInv
<1>5. ASSUME NEW s \in Sockets, NEW j \in Users, call'[j] = "holding", socketOf[j] = s, CanSend(s),
             life[engine'[j]] = "live"
      PROVE  IF down'[s] # <<>>
             THEN /\ down'[s][Len(down'[s])].of = j
                  /\ down'[s][Len(down'[s])].chain = Chain(engine'[j], seq[engine'[j]])
             ELSE j = activeSub => UpToDate(j)'
  <2>1. CASE j # i
    <3>1. call[j] = "holding" /\ engine'[j] = engine[j]
      BY <1>2, <1>5, <2>1
    <3>2. down'[s] = down[s]
      BY <1>2, <1>3, <1>4, <1>5, <2>1, <3>1
    <3>3. IF down[s] # <<>>
          THEN /\ down[s][Len(down[s])].of = j
               /\ down[s][Len(down[s])].chain = Chain(engine[j], seq[engine[j]])
          ELSE j = activeSub => UpToDate(j)
      BY <1>5, <3>1 DEF StreamInv, NewestInv
    <3>4. QED
      BY <1>1, <3>1, <3>2, <3>3 DEF UpToDate
  <2>2. CASE j = i
    <3>1. i \notin closed /\ engine'[i] = engine[i]
      BY <1>2, <1>5, <2>2
    <3>2. HasSnapshot(engine[i])
      BY <1>2, <1>5, <2>2, <3>1 DEF StreamInv, RuntimeInv, HasSnapshot
    <3>3. down'[s] = Append(down[s], [kind |-> "snapshot", of |-> i,
                                     chain |-> Chain(engine[i], seq[engine[i]])])
      BY <1>2, <1>5, <2>2, <3>1, <3>2
    <3>4. \A f : LET d == Append(down[s], f) IN d[Len(d)] = f /\ d # <<>>
      <4>1. down[s] \in Seq(Frame)
        BY DEF StreamInv, TypeOK
      <4>2. QED
        BY <4>1
    <3>5. /\ down'[s][Len(down'[s])] = [kind |-> "snapshot", of |-> i,
                                       chain |-> Chain(engine[i], seq[engine[i]])]
          /\ down'[s] # <<>>
      BY <3>3, <3>4
    <3>6. QED
      BY <2>2, <3>1, <3>5
  <2>3. QED
    BY <2>1, <2>2
<1>6. QED
  BY <1>1, <1>5 DEF NewestInv, CanSend, UpToDate

\* Nothing else changes who holds which runtime, what is on its way, or the newest
\* chain of a runtime that is held.
LEMMA StepNewestInv ==
  ASSUME StreamInv, [StreamNext]_streamVars
  PROVE  NewestInv'
<1> USE DEF Subs
<1>1. CASE \E i \in Users : Subscribed(i)
  BY <1>1, SubscribedNewest
<1>2. CASE \E s \in Sockets : Deliver(s)
  BY <1>2, DeliverNewest
<1>3. CASE \E r \in Runtimes, kind \in {"snapshot", "delta"} : Publish(r, kind)
  BY <1>3, PublishNewest
<1>4. ASSUME ~\E i \in Users : Subscribed(i),
             \A s \in Sockets : down'[s] = down[s] \/ s \in broken',
             \A r \in readied : seq'[r] = seq[r],
             \/ activeSub' = activeSub
             \/ activeSub' = NoSub
             \/ activeSub' \in Users /\ stage[activeSub'] = "unsent",
             \A k \in Keys : shown'[k].base = "stream" => shown'[k] = shown[k]
      PROVE  NewestInv'
  <2>1. ASSUME NEW s \in Sockets, NEW i \in Users, call'[i] = "holding", socketOf'[i] = s,
               CanSend(s)', life'[engine'[i]] = "live"
        PROVE  IF down'[s] # <<>>
               THEN /\ down'[s][Len(down'[s])].of = i
                    /\ down'[s][Len(down'[s])].chain = Chain(engine'[i], seq'[engine'[i]])
               ELSE i = activeSub' => UpToDate(i)'
    <3>1. /\ call[i] = "holding" /\ engine'[i] = engine[i] /\ engine[i] \in readied
          /\ life'[engine[i]] = "live" => life[engine[i]] = "live"
          /\ stage[i] # "unsent" /\ socketOf[i] = s /\ wants'[i] = wants[i]
          /\ CanSend(socketOf[i])' => CanSend(socketOf[i])
      BY <1>4, <2>1, HoldingStays
    <3>2. CanSend(s)
      BY <2>1, <3>1 DEF CanSend
    <3>3. down'[s] = down[s] /\ seq'[engine[i]] = seq[engine[i]]
      BY <1>4, <2>1, <3>1 DEF CanSend
    <3>4. IF down[s] # <<>>
          THEN /\ down[s][Len(down[s])].of = i
               /\ down[s][Len(down[s])].chain = Chain(engine[i], seq[engine[i]])
          ELSE i = activeSub => UpToDate(i)
      BY <2>1, <3>1, <3>2 DEF StreamInv, NewestInv
    <3>5. i = activeSub' => i = activeSub
      BY <1>4, <3>1, StreamAssumption
    <3>6. Live[wants[i]] \in Keys
      BY <3>1, AttachedHold, StreamAssumption DEF StreamInv, SubInv
    <3>7. UpToDate(i) => UpToDate(i)'
      BY <1>4, <3>1, <3>3, <3>6 DEF UpToDate
    <3>8. QED
      BY <3>1, <3>3, <3>4, <3>5, <3>7
  <2>2. QED
    BY <2>1 DEF NewestInv, CanSend
<1>5. ASSUME ~\E i \in Users : Subscribed(i), NEW a \in answers, Answered(a) PROVE NewestInv'
  <2>1. UNCHANGED <<down, activeSub, seq>>
    BY <1>5 DEF Answered, hookVars, socketVars
  <2>2. \A k \in Keys : shown'[k].base = "stream" => shown'[k] = shown[k]
    BY <1>5 DEF Answered, Whole, StreamInv, TypeOK
  <2>3. QED
    BY <1>4, <1>5, <2>1, <2>2
<1>6. ASSUME ~\E i \in Users : Subscribed(i), NEW s \in Sockets, Break(s) PROVE NewestInv'
  <2>1. UNCHANGED <<activeSub, seq, shown>> /\ broken' = broken \cup {s}
    BY <1>6 DEF Break, hookVars
  <2>2. \A t \in Sockets : down'[t] = down[t] \/ t \in broken'
    BY <1>6, <2>1 DEF Break, StreamInv, TypeOK
  <2>3. QED
    BY <1>4, <1>6, <2>1, <2>2
<1>7. ASSUME ~\E i \in Users : Subscribed(i),
             \/ \E key \in Keys : Navigate(key)
             \/ Disable \/ Reconnect
             \/ \E s \in Sockets : OnClose(s)
             \/ UNCHANGED streamVars
      PROVE  NewestInv'
  <2>1. UNCHANGED <<down, shown, seq>>
    BY <1>7 DEF Navigate, Disable, Reconnect, OnClose, streamVars, socketVars
  <2>2. activeSub' = activeSub \/ activeSub' = NoSub
    BY <1>7 DEF Navigate, Disable, Reconnect, OnClose, streamVars, hookVars
  <2>3. QED
    BY <1>4, <1>7, <2>1, <2>2
<1>8. ASSUME ~\E i \in Users : Subscribed(i), Subscribes PROVE NewestInv'
  <2>1. UNCHANGED <<down, shown, seq>>
    BY <1>8, SubscribesDoes DEF StreamInv
  <2>2. CASE activeSub' = activeSub
    BY <1>4, <1>8, <2>1, <2>2
  <2>3. CASE activeSub' # activeSub
    <3>1. PICK i \in Users : activeSub' = i /\ stage[i] = "unsent"
      BY <1>8, <2>3, SubscribesDoes DEF StreamInv
    <3>2. QED
      BY <1>4, <1>8, <2>1, <3>1
  <2>4. QED
    BY <2>2, <2>3
<1>9. ASSUME ~\E i \in Users : Subscribed(i),
             \/ \E s \in Sockets : Receive(s) \/ ServerClosed(s)
             \/ \E i \in Users : Continue(i) \/ SubscribedSlow(i) \/ SlowClient(i)
             \/ \E i \in Users : FetchChain(i) \/ Answer(i)
      PROVE  NewestInv'
  <2>1. UNCHANGED <<down, activeSub, shown, seq>>
    BY <1>9 DEF Receive, ServerClosed, Continue, SubscribedSlow, SlowClient, FetchChain, Answer,
                hookVars, socketVars
  <2>2. QED
    BY <1>4, <1>9, <2>1
<1>10. ASSUME ~\E i \in Users : Subscribed(i), Registry PROVE NewestInv'
  <2>1. UNCHANGED <<down, activeSub, shown>>
    BY <1>10 DEF Registry, hookVars, socketVars
  <2>2. \A r \in readied : seq'[r] = seq[r]
    BY <1>10 DEF Registry, StreamInv, TypeOK, RegistryTypeOK
  <2>3. QED
    BY <1>4, <1>10, <2>1, <2>2
<1>11. QED
  BY <1>1, <1>2, <1>3, <1>5, <1>6, <1>7, <1>8, <1>9, <1>10, Actions DEF Elsewhere

\* Only a message that arrives and an answer change the cache.
LEMMA CacheChanges ==
  ASSUME StreamInv, [StreamNext]_streamVars
  PROVE  \/ shown' = shown
         \/ \E s \in Sockets : Deliver(s)
         \/ \E a \in answers : Answered(a)
<1>1. CASE Subscribes
  BY <1>1, SubscribesDoes DEF StreamInv
<1>2. CASE Elsewhere
  BY <1>2 DEF Elsewhere, Navigate, Disable, Reconnect, OnClose, Break, Publish, streamVars
<1>3. CASE \/ \E s \in Sockets : Receive(s) \/ ServerClosed(s)
           \/ \E i \in Subs : Continue(i) \/ Subscribed(i) \/ SubscribedSlow(i) \/ SlowClient(i)
           \/ \E i \in Users : FetchChain(i) \/ Answer(i)
           \/ Registry
  BY <1>3 DEF Receive, ServerClosed, Continue, Subscribed, SubscribedSlow, SlowClient, FetchChain,
              Answer, Registry
<1>4. QED
  BY <1>1, <1>2, <1>3, Actions

\* An answer takes the stream's chain away from the cache.
LEMMA AnsweredShows ==
  ASSUME StreamInv, NEW a \in answers, Answered(a)
  PROVE  \A k \in Keys : shown'[k] = shown[k] \/ shown'[k].base = "rest"
BY DEF Answered, Whole, StreamInv, TypeOK

\* What the stream showed whole stays so.
LEMMA StepShownWhole ==
  ASSUME StreamInv, [StreamNext]_streamVars
  PROVE  StreamShownWhole'
<1>1. CASE shown' = shown
  BY <1>1 DEF StreamInv, StreamShownWhole
<1>2. CASE \E s \in Sockets : Deliver(s)
  BY <1>2, DeliverFollows
<1>3. CASE \E a \in answers : Answered(a)
  BY <1>3, AnsweredShows DEF StreamInv, StreamShownWhole
<1>4. QED
  BY <1>1, <1>2, <1>3, CacheChanges

\* The invariant holds before the first socket is opened.
LEMMA StreamInitInv == Init => StreamInv
<1> SUFFICES ASSUME Init PROVE StreamInv
  OBVIOUS
<1>1. IInv
  BY InitIInv DEF Init
<1>2. TypeOK
  <2>1. <<>> \in Seq(Subs) /\ <<>> \in Seq(Frame)
    OBVIOUS
  <2>2. Nothing \in Shown /\ 0 \in 0..MaxSeq
    BY StreamAssumption DEF Nothing, Shown, Chains
  <2>3. RegistryTypeOK
    BY <1>1 DEF IInv
  <2>4. QED
    BY <2>1, <2>2, <2>3 DEF Init, TypeOK, Subs
<1>3. HookInv /\ SocketInv /\ RouteInv
  BY DEF Init, HookInv, SocketInv, RouteInv
<1>4. SubInv /\ RuntimeInv
  BY DEF Init, RegistryInit, SubInv, RuntimeInv, Subs
<1>5. UpInv /\ FollowsInv
  BY DEF Init, UpInv, FollowsInv
<1>6. NewestInv
  BY DEF Init, RegistryInit, NewestInv
<1>7. StreamShownWhole
  BY DEF Init, StreamShownWhole, Nothing
<1>8. QED
  BY <1>1, <1>2, <1>3, <1>4, <1>5, <1>6, <1>7 DEF StreamInv

\* Every step of the hook, the route, the registry and the REST query keeps it.
LEMMA StreamNextInv == StreamInv /\ [StreamNext]_streamVars => StreamInv'
<1> SUFFICES ASSUME StreamInv, [StreamNext]_streamVars PROVE StreamInv'
  OBVIOUS
<1>1. /\ TypeOK /\ IInv /\ HookInv /\ SocketInv /\ SubInv /\ RouteInv /\ UpInv /\ RuntimeInv
  BY DEF StreamInv
<1>2. TypeOK' /\ IInv'
  BY <1>1, StepTypeOK, StepIInv
<1>3. HookInv' /\ SocketInv'
  BY <1>1, StepHookInv, StepSocketInv
<1>4. SubInv' /\ RouteInv'
  BY <1>1, StepSubInv, StepRouteInv
<1>5. UpInv' /\ RuntimeInv'
  BY <1>1, StepUpInv, StepRuntimeInv
<1>6. FollowsInv' /\ NewestInv' /\ StreamShownWhole'
  BY StepFollowsInv, StepNewestInv, StepShownWhole
<1>7. QED
  BY <1>2, <1>3, <1>4, <1>5, <1>6 DEF StreamInv

\* The inductive invariant of the stream, for every number of browsers' sockets,
\* subscriptions, chains, runtimes and events.
THEOREM StreamInvariance == StreamSpec => []StreamInv
BY StreamInitInv, StreamNextInv, PTL DEF StreamSpec

\* No patch is applied to anything but the chain just before it (useChainWs,
\* ChainStreamSession, ChainRuntime's publication), whatever reconnects, resubscribes
\* or is disposed.
THEOREM ShownIsWhole == StreamSpec => []StreamShownWhole
<1>1. StreamInv => StreamShownWhole
  BY DEF StreamInv
<1>2. QED
  BY StreamInvariance, <1>1, PTL

\* A disposed runtime is handed out neither to a session nor to a REST request, also
\* when sessions are superseded, dropped or closed at any of their awaits.
THEOREM StreamEntriesAreLive == StreamSpec => []EntriesAreLive
<1>1. StreamInv => EntriesAreLive
  BY DEF StreamInv, IInv
<1>2. QED
  BY StreamInvariance, <1>1, PTL

\* Closed sockets hold nothing: a runtime that is held is held by the session of its
\* socket, and a closed socket has no session (ws-chain.ts, close and handleSubscribe).
THEOREM HeldIsGivenBack == StreamSpec => []NothingLeaked
<1>1. StreamInv => NothingLeaked
  <2> SUFFICES ASSUME StreamInv, \A s \in Sockets : serverEnd[s] \in {"none", "closed"},
                      \A i \in Users : stage[i] \notin {"handling", "acquiring", "fetching"},
                      NEW i \in Users
               PROVE  call[i] = "none"
    BY DEF NothingLeaked
  <2>1. call[i] \in {"none", "acquiring", "holding"}
    BY DEF StreamInv, TypeOK, RegistryTypeOK
  <2>2. call[i] # "acquiring"
    BY DEF StreamInv, SubInv
  <2>3. call[i] = "holding" => socketOf[i] \in Sockets /\ session[socketOf[i]] = i
    BY DEF StreamInv, SubInv
  <2>4. \A s \in Sockets : session[s] = NoSub
    BY DEF StreamInv, SocketInv
  <2>5. QED
    BY <2>1, <2>2, <2>3, <2>4, StreamAssumption
<1>2. QED
  BY StreamInvariance, <1>1, PTL

\* A message is taken only for the chain the browser wants, less the venues the
\* server has not loaded: an open socket's active subscription is for it, frames of
\* any other are dropped (useChainWs.ts), and its frames carry the runtime's
\* activeRequest.
THEOREM ShowsWhatIsWanted == StreamSpec => StreamShowsWanted
<1>1. StreamInv /\ [StreamNext]_streamVars =>
        [\A k \in Keys : shown'[k] # shown[k] /\ shown'[k].base = "stream"
           => want \in Keys /\ k = Live[want]]_streamVars
  <2> SUFFICES ASSUME StreamInv, [StreamNext]_streamVars, NEW k \in Keys,
                      shown'[k] # shown[k], shown'[k].base = "stream"
               PROVE  want \in Keys /\ k = Live[want]
    OBVIOUS
  <2>1. CASE \E s \in Sockets : Deliver(s)
    <3>1. PICK s \in Sockets : Deliver(s)
      BY <2>1
    <3>2. Head(down[s]).of = activeSub /\ k = Live[wants[activeSub]]
      BY <3>1 DEF Deliver, Gate, StreamInv, TypeOK
    <3>3. clientEnd[s] = "open" /\ sock = s /\ s # NoSocket
      BY <3>1, StreamAssumption DEF Deliver
    <3>4. wants[activeSub] = want /\ want # NoKey
      BY <3>3 DEF StreamInv, HookInv
    <3>5. want \in Keys
      BY <3>4 DEF StreamInv, TypeOK
    <3>6. QED
      BY <3>2, <3>4, <3>5
  <2>2. CASE \E a \in answers : Answered(a)
    BY <2>2, AnsweredShows
  <2>3. QED
    BY <2>1, <2>2, CacheChanges
<1>2. QED
  BY StreamInvariance, <1>1, PTL DEF StreamSpec, StreamShowsWanted
=============================================================================
