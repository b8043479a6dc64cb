------------------------ MODULE ChainRuntimeRegistry ------------------------
(***************************************************************************)
(* ChainRuntimeRegistry                                                    *)
(* (packages/core/src/runtime/chain/chain-runtime-registry.ts): one        *)
(* ChainRuntime per request, shared by everybody who asks for it, disposed *)
(* by a timer when nobody has used it for a while.                         *)
(*                                                                         *)
(* Here a ChainRuntime is only whether ready() has resolved and whether    *)
(* dispose() has been called (ChainRuntime is its module).  A user is one  *)
(* call of acquire: a ChainStreamSession, or a request for /chains.        *)
(***************************************************************************)
EXTENDS Integers, FiniteSets

CONSTANTS Keys,      \* runtimeKey: underlying, expiry and sorted venues
          Runtimes,  \* bound: the ChainRuntime objects that can be created
          Users,
          NoRuntime, NoKey

ASSUME NoneAssumption == NoRuntime \notin Runtimes /\ NoKey \notin Keys

VARIABLES
  entries,     \* [Keys -> Runtimes \cup {NoRuntime}]
  runtimeKey,  \* [Runtimes -> Keys \cup {NoKey}]: the key of its request
  life,        \* [Runtimes -> unused, live or disposed]
  refCount,    \* [Runtimes -> Int], of the runtime's entry
  stale,       \* the runtimes whose lastUsedAt is before the cutoff
  readied,     \* the runtimes whose ready() has resolved
  disposing,   \* the runtimes whose dispose() has not resolved
  cleanups,    \* the cleanup calls in progress
  shutDown,    \* the registry's own dispose() has been called
  wants,       \* [Users -> Keys \cup {NoKey}]: the key of its last request
  call,        \* [Users -> none, acquiring or holding]
  engine       \* [Users -> Runtimes \cup {NoRuntime}]

registryVars == <<entries, runtimeKey, life, refCount, stale, readied, disposing, cleanups,
                  shutDown>>
userVars == <<wants, call, engine>>

Cleanup == [awaiting : Runtimes \cup {NoRuntime}, rest : SUBSET Runtimes]

RegistryTypeOK ==
  /\ entries \in [Keys -> Runtimes \cup {NoRuntime}]
  /\ runtimeKey \in [Runtimes -> Keys \cup {NoKey}]
  /\ life \in [Runtimes -> {"unused", "live", "disposed"}]
  /\ refCount \in [Runtimes -> Nat]
  /\ stale \subseteq Runtimes /\ readied \subseteq Runtimes /\ disposing \subseteq Runtimes
  /\ cleanups \subseteq Cleanup /\ shutDown \in BOOLEAN
  /\ wants \in [Users -> Keys \cup {NoKey}]
  /\ call \in [Users -> {"none", "acquiring", "holding"}]
  /\ engine \in [Users -> Runtimes \cup {NoRuntime}]

RegistryInit ==
  /\ entries = [k \in Keys |-> NoRuntime]
  /\ runtimeKey = [r \in Runtimes |-> NoKey]
  /\ life = [r \in Runtimes |-> "unused"]
  /\ refCount = [r \in Runtimes |-> 0]
  /\ stale = {} /\ readied = {} /\ disposing = {} /\ cleanups = {}
  /\ shutDown = FALSE
  /\ wants = [u \in Users |-> NoKey]
  /\ call = [u \in Users |-> "none"]
  /\ engine = [u \in Users |-> NoRuntime]
-----------------------------------------------------------------------------
\* acquire up to its await: the entry is found, or made with a new runtime,
\* and counted before the runtime is ready.
BeginAcquire(u, k) ==
  \E r \in Runtimes :
    /\ IF entries[k] = NoRuntime THEN life[r] = "unused" ELSE r = entries[k]
    /\ entries' = [entries EXCEPT ![k] = r]
    /\ runtimeKey' = [runtimeKey EXCEPT ![r] = k]
    /\ life' = [life EXCEPT ![r] = IF @ = "unused" THEN "live" ELSE @]
    /\ refCount' = [refCount EXCEPT ![r] = @ + 1]
    /\ stale' = stale \ {r}
    /\ wants' = [wants EXCEPT ![u] = k]
    /\ call' = [call EXCEPT ![u] = "acquiring"]
    /\ engine' = [engine EXCEPT ![u] = r]
    /\ UNCHANGED <<readied, disposing, cleanups, shutDown>>

\* The runtime acquire awaits is ready, and acquire may return.
CanReturn(u) == call[u] = "acquiring" /\ engine[u] \in readied

\* What a release does to the registry: the entry is looked up by its key.
GiveBack(u) ==
  LET current == entries[wants[u]]
  IN IF current = NoRuntime THEN UNCHANGED <<refCount, stale>>
     ELSE /\ refCount' = [refCount EXCEPT ![current] = IF @ > 0 THEN @ - 1 ELSE 0]
          /\ stale' = stale \ {current}

\* The rest of a release: `released` is set, so that it happens once.
EndUse(u) ==
  /\ call' = [call EXCEPT ![u] = "none"]
  /\ engine' = [engine EXCEPT ![u] = NoRuntime]
  /\ UNCHANGED wants

\* initialize ends, with a snapshot or because the runtime was disposed.
RuntimeReady(r) ==
  /\ life[r] # "unused" /\ r \notin readied
  /\ readied' = readied \cup {r}
  /\ UNCHANGED <<entries, runtimeKey, life, refCount, stale, disposing, cleanups, shutDown, userVars>>

\* The upstream handles of a disposed runtime are released.
RuntimeDisposed(r) ==
  /\ r \in disposing
  /\ disposing' = disposing \ {r}
  /\ UNCHANGED <<entries, runtimeKey, life, refCount, stale, readied, cleanups, shutDown, userVars>>

\* RUNTIME_IDLE_TTL_MS have passed since lastUsedAt, in use or not.
GrowStale(r) ==
  /\ r \in {entries[k] : k \in Keys} /\ r \notin stale
  /\ stale' = stale \cup {r}
  /\ UNCHANGED <<entries, runtimeKey, life, refCount, readied, disposing, cleanups, shutDown, userVars>>
-----------------------------------------------------------------------------
(* cleanup *)

\* The entries cleanup decides to dispose.
StaleEntries == {r \in stale \cap {entries[k] : k \in Keys} : refCount[r] = 0}

\* What an iteration awaits: dispose() of a runtime that is disposed already
\* resolves at once.
Awaited(r) == IF life[r] = "live" THEN r ELSE NoRuntime

\* Mutant: the runtime is disposed first, and its entry kept for its next user.
DisposeStaleKeeping(r) ==
  /\ UNCHANGED entries
  /\ life' = [life EXCEPT ![r] = "disposed"]
  /\ disposing' = disposing \cup ({Awaited(r)} \cap Runtimes)

\* One iteration of the loop: the entry is deleted by its key, and the
\* runtime is disposed.
DisposeStale(r) ==
  /\ entries' = [entries EXCEPT ![runtimeKey[r]] = NoRuntime]
  /\ life' = [life EXCEPT ![r] = "disposed"]
  /\ disposing' = disposing \cup ({Awaited(r)} \cap Runtimes)

\* The cleanup timer, up to the first await.
StartCleanup ==
  /\ ~shutDown
  /\ \E r \in StaleEntries :
       /\ DisposeStale(r)
       /\ cleanups' = cleanups \cup {[awaiting |-> Awaited(r), rest |-> StaleEntries \ {r}]}
  /\ UNCHANGED <<runtimeKey, refCount, stale, readied, shutDown, userVars>>

\* The next iteration, on the list made before the await.
NextCleanup(c) ==
  /\ c \in cleanups /\ c.awaiting \notin disposing
  /\ c.rest # {}
  /\ \E r \in c.rest :
       /\ DisposeStale(r)
       /\ cleanups' = (cleanups \ {c}) \cup {[awaiting |-> Awaited(r), rest |-> c.rest \ {r}]}
  /\ UNCHANGED <<runtimeKey, refCount, stale, readied, shutDown, userVars>>

EndCleanup(c) ==
  /\ c \in cleanups /\ c.awaiting \notin disposing
  /\ c.rest = {}
  /\ cleanups' = cleanups \ {c}
  /\ UNCHANGED <<entries, runtimeKey, life, refCount, stale, readied, disposing, shutDown,
                 userVars>>

\* dispose, when the server closes: the timer is cleared, every entry is
\* deleted and its runtime disposed, in use or not.
Shutdown ==
  /\ ~shutDown /\ shutDown' = TRUE
  /\ LET taken == {entries[k] : k \in Keys} \ {NoRuntime}
     IN /\ life' = [r \in Runtimes |-> IF r \in taken THEN "disposed" ELSE life[r]]
        /\ disposing' = disposing \cup taken
  /\ entries' = [k \in Keys |-> NoRuntime]
  /\ UNCHANGED <<runtimeKey, refCount, stale, readied, cleanups, userVars>>
-----------------------------------------------------------------------------
(* Users that acquire, use the runtime and release *)

\* A closing server takes no new request.
Acquire(u) == ~shutDown /\ call[u] = "none" /\ \E k \in Keys : BeginAcquire(u, k)

Acquired(u) ==
  /\ CanReturn(u)
  /\ call' = [call EXCEPT ![u] = "holding"]
  /\ UNCHANGED <<registryVars, wants, engine>>

Release(u) ==
  /\ call[u] = "holding"
  /\ GiveBack(u) /\ EndUse(u)
  /\ UNCHANGED <<entries, runtimeKey, life, readied, disposing, cleanups, shutDown>>

RegistryStep ==
  \/ \E r \in Runtimes : RuntimeReady(r) \/ RuntimeDisposed(r) \/ GrowStale(r)
  \/ StartCleanup
  \/ \E c \in cleanups : NextCleanup(c) \/ EndCleanup(c)

vars == <<registryVars, userVars>>

Next == RegistryStep \/ Shutdown \/ \E u \in Users : Acquire(u) \/ Acquired(u) \/ Release(u)

Spec == RegistryInit /\ [][Next]_vars
-----------------------------------------------------------------------------
(* Properties *)

\* A runtime that has been disposed is in no entry, so that acquire never hands it
\* out again, however cleanups, each on a list of its own, overlap with each other,
\* with users who come back and with the closing of the server.  (One who has it
\* already may lose it: see SharedEngine.)
EntriesAreLive ==
  \A k \in Keys : entries[k] # NoRuntime =>
    life[entries[k]] = "live" /\ runtimeKey[entries[k]] = k

\* "reuses one shared chain engine across clients watching the same chain"
\* (packages/server/src/routes/ws-chain.test.ts, line 244).
SharedEngine == \A u, w \in Users :
  (call[u] = "holding" /\ call[w] = "holding" /\ wants[u] = wants[w]) =>
    engine[u] = engine[w]
=============================================================================
