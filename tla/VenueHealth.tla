----------------------------- MODULE VenueHealth -----------------------------
(***************************************************************************)
(* What the viewers of a venue's chains are told of its condition: the      *)
(* statuses a venue adapter tells (its transport's, its probes', what the   *)
(* exchange says on the socket: feeds/*/health.ts) and the                  *)
(* VenueHealthManager of each chain runtime that listens                    *)
(* (runtime/chain/health.ts), which joins them with the age of its data.    *)
(*                                                                         *)
(* One venue per behaviour.  Times are ages: 0 is fresh, Stale is more than *)
(* STALE_AFTER_MS.  Every runtime shows another chain, so each asks the     *)
(* adapter for a subscription of its own.                                   *)
(***************************************************************************)
EXTENDS Integers, FiniteSets

CONSTANTS
  None,
  Runtimes,   \* the chain runtimes
  Venues,     \* the venues looked at
  Reports,    \* [venue -> what its endpoints may say of it]
  Stale       \* the first age that is stale

ASSUME StaleAssumption == Stale \in Nat \ {0}

VARIABLES
  venue,
  report,     \* what the exchange would say of itself now
  link,       \* the state the transport told last
  listening,  \* the runtimes that hold a subscription
  sources,    \* [runtime -> VenueHealthSources]
  shown,      \* [runtime -> the state told to its viewers last]
  masked      \* runtimes that were told of a connection during an outage

vars == <<venue, report, link, listening, sources, shown, masked>>

Status(state, message) == [state |-> state, message |-> message, age |-> 0]

\* What a status of a venue's health says beside its state.
Texts ==
  {"rest probe failed", "rest health ok", "rest health incomplete",
   "system status probe failed", "system status", "system status healthy", "service notice",
   "platform maintenance", "locked indices", "platform healthy",
   "public status probe failed", "public status locked",
   "health probe failed", "time probe failed", "live incidents", "incident probe healthy"}

\* None is neither a text nor a status.
ASSUME NoneAssumption ==
  /\ None \notin Texts
  /\ \A state \in {"connected", "reconnecting", "down"}, age \in 0..Stale :
       [Status(state, None) EXCEPT !.age = age] # None

(***************************************************************************)
(* What the venues' endpoints and messages amount to.                      *)
(***************************************************************************)
Busy == {"scheduled", "ongoing"}

BinanceHealth(r) ==
  CASE r.error -> Status("degraded", "rest probe failed")
    [] ~r.error /\ r.serverTime # None /\ r.symbols -> Status("connected", "rest health ok")
    [] OTHER -> Status("degraded", "rest health incomplete")

BybitHealth(r) ==
  CASE r.error \/ r.retCode # 0 -> Status("degraded", "system status probe failed")
    [] ~r.error /\ r.retCode = 0 /\ r.states \cap Busy # {} ->
         Status("degraded", "system status")
    [] OTHER -> Status("connected", "system status healthy")

OkxStatusHealth(r) ==
  IF r.states \cap (Busy \cup {"pre_open"}) # {}
    THEN Status("degraded", "system status")
    ELSE Status("connected", "system status healthy")

OkxNoticeHealth == Status("reconnecting", "service notice")

DeribitPlatformHealth(r) ==
  CASE r.platformMaintenance -> Status("degraded", "platform maintenance")
    [] ~r.platformMaintenance /\ r.lockedPriceIndexes # {} ->
         Status("degraded", "locked indices")
    [] OTHER -> Status("connected", "platform healthy")

DeribitPublicStatusLocked(locked) == locked \in {"true", "partial"}

DeribitPublicStatusHealth(r) ==
  CASE r.error -> Status("degraded", "public status probe failed")
    [] ~r.error /\ DeribitPublicStatusLocked(r.locked) ->
         Status("degraded", "public status locked")
    [] OTHER -> DeribitPlatformHealth(r)

DeriveHealth(r) ==
  CASE r.error -> Status("degraded", "health probe failed")
    [] ~r.error /\ r.serverTime = None -> Status("degraded", "time probe failed")
    [] ~r.error /\ r.serverTime # None /\ r.incidents > 0 ->
         Status("degraded", "live incidents")
    [] OTHER -> Status("connected", "incident probe healthy")

\* OKX has no probe: it says its status on a channel when that changes.
Probed == {"binance", "bybit", "deribit", "derive"}

HealthOf(v, r) ==
  CASE v = "binance" -> BinanceHealth(r)
    [] v = "okx"     -> OkxStatusHealth(r)
    [] v = "bybit"   -> BybitHealth(r)
    [] v = "deribit" -> DeribitPublicStatusHealth(r)
    [] v = "derive"  -> DeriveHealth(r)

(***************************************************************************)
(* VenueHealthManager.                                                     *)
(***************************************************************************)
ClassifySource(status) ==
  CASE status.state \in {"reconnecting", "down", "polling"} -> "transport"
    [] status.state = "degraded" -> "health"
    [] OTHER -> IF status.message # None THEN "health" ELSE "transport"

NoSources == [transport |-> None, health |-> None, lastActivity |-> None]

\* A defect: an answered probe makes the data fresh.
AgesWithProbe(s) ==
  {x.age : x \in {s.transport, s.health} \ {None}} \cup ({s.lastActivity} \ {None})

Ages(s) ==
  {x.age : x \in {s.transport} \ {None}} \cup ({s.lastActivity} \ {None})

\* Neither the data nor the transport was heard of lately; a probe does not count.
IsStale(s) == Ages(s) # {} /\ \A age \in Ages(s) : age = Stale

\* A defect: what the exchange says of itself goes before the transport.
EffectiveOfHealth(s) ==
  CASE s.health # None -> s.health.state
    [] s.health = None /\ s.transport # None -> s.transport.state
    [] OTHER -> "down"

EffectiveState(s) ==
  IF s.transport # None /\ s.transport.state \in {"down", "reconnecting", "polling"}
    THEN s.transport.state
  ELSE IF (s.health # None /\ s.health.state = "degraded") \/ IsStale(s) THEN "degraded"
  ELSE IF s.transport = None /\ s.health = None THEN "down" ELSE "connected"

Ingested(s, status) == [s EXCEPT ![ClassifySource(status)] = status]

\* An activity is told with the time of its quotes, which are as old as they are.
Touched(s, age) == [s EXCEPT !.lastActivity = age]

Init ==
  /\ venue \in Venues /\ report \in Reports[venue]
  /\ link = "connected" /\ listening = {}
  /\ sources = [r \in Runtimes |-> NoSources]
  /\ shown = [r \in Runtimes |-> None]
  /\ masked = {}

\* A status the adapter tells: every runtime that listens takes it in, and tells
\* its viewers what it makes of it.
Tell(status) ==
  /\ sources' = [r \in Runtimes |-> IF r \in listening
                                      THEN Ingested(sources[r], status) ELSE sources[r]]
  /\ shown' = [r \in Runtimes |-> IF r \in listening
                                    THEN EffectiveState(sources'[r]) ELSE shown[r]]

(***************************************************************************)
(* The transport.                                                          *)
(***************************************************************************)
\* Each failed attempt closes its socket and says "reconnecting" again, also after
\* "down", which is said when the attempts are used up; two timers can open two
\* sockets, which says "connected" twice.
TransportTells(state) ==
  /\ state = "down" => link # "connected"
  /\ link' = state
  /\ masked' = IF state = "connected" THEN {} ELSE masked \ listening
  /\ Tell(Status(state, None))
  /\ UNCHANGED <<venue, report, listening>>

(***************************************************************************)
(* The exchange.                                                           *)
(***************************************************************************)
\* Deribit tells a platform state, OKX its status, when it changes; the probes of
\* the others find out.  A socket that is not connected brings nothing.
Change(r) ==
  /\ r # report
  /\ report' = r
  /\ IF link # "connected" THEN UNCHANGED <<sources, shown>>
     ELSE CASE venue = "okx" -> Tell(OkxStatusHealth(r))
            [] venue = "deribit" -> Tell(DeribitPlatformHealth(r))
            [] OTHER -> UNCHANGED <<sources, shown>>
  /\ UNCHANGED <<venue, link, listening, masked>>

\* OKX closes the connection soon after it said so.
Notice ==
  /\ venue = "okx" /\ link = "connected"
  /\ Tell(OkxNoticeHealth)
  /\ UNCHANGED <<venue, report, link, listening, masked>>

\* Binance and Bybit ask over HTTP, Deribit and Derive over the socket.
Answer ==
  IF venue \in {"deribit", "derive"} /\ link # "connected"
    THEN HealthOf(venue, [report EXCEPT !.error = TRUE])
    ELSE HealthOf(venue, report)

Probe ==
  /\ venue \in Probed
  /\ Tell(Answer)
  /\ UNCHANGED <<venue, report, link, listening, masked>>

(***************************************************************************)
(* The runtimes.                                                           *)
(***************************************************************************)
\* SdkBaseAdapter.subscribe says "connected", whatever the transport's state, to
\* the venue's handlers: the one that subscribes is not among them yet.  Then the
\* snapshot is built, whose quotes may be of any age.
Subscribe(r, age) ==
  /\ r \notin listening
  /\ listening' = listening \cup {r}
  /\ masked' = IF link = "connected" THEN masked ELSE masked \cup listening \cup {r}
  /\ LET told == Status("connected", None) IN
     /\ sources' = [q \in Runtimes |->
                      CASE q \in listening -> Ingested(sources[q], told)
                        [] q = r -> [NoSources EXCEPT !.lastActivity = age]
                        [] OTHER -> sources[q]]
     /\ shown' = [q \in Runtimes |-> IF q \in listening
                                       THEN EffectiveState(sources'[q]) ELSE shown[q]]
  /\ UNCHANGED <<venue, report, link>>

Release(r) ==
  /\ r \in listening
  /\ listening' = listening \ {r} /\ masked' = masked \ {r}
  /\ sources' = [sources EXCEPT ![r] = NoSources]
  /\ shown' = [shown EXCEPT ![r] = None]
  /\ UNCHANGED <<venue, report, link>>

\* Quotes come, by the socket or by a poll: the runtime takes note of the time that
\* the newest of them carries, however old, and tells nobody.
OnDelta(r, age) ==
  /\ r \in listening
  /\ sources' = [sources EXCEPT ![r] = Touched(@, age)]
  /\ UNCHANGED <<venue, report, link, listening, shown, masked>>

Older(age) == IF age # None /\ age < Stale THEN age + 1 ELSE age

OlderStatus(status) == IF status = None THEN None ELSE [status EXCEPT !.age = Older(@)]

Tick ==
  /\ sources' = [r \in Runtimes |->
       [sources[r] EXCEPT
          !.transport = OlderStatus(@), !.lastActivity = Older(@)]]
  /\ UNCHANGED <<venue, report, link, listening, shown, masked>>

Next ==
  \/ \E state \in {"connected", "reconnecting", "down"} : TransportTells(state)
  \/ \E r \in Reports[venue] : Change(r)
  \/ Notice \/ Probe \/ Tick
  \/ \E r \in Runtimes : \/ \E age \in {None} \cup 0..Stale : Subscribe(r, age)
                         \/ \E age \in 0..Stale : OnDelta(r, age)
                         \/ Release(r)

\* The probes run on an interval timer, each answered or timed out.
Fairness == WF_vars(Probe)

Spec == Init /\ [][Next]_vars /\ Fairness

(***************************************************************************)
(* Properties.                                                             *)
(***************************************************************************)
\* While the transport is reconnecting or down, no probe, quote or message makes
\* a viewer who was told so believe in a connection (effectiveStatus puts the
\* transport first).  Only a subscription does, of any chain of the venue: it says
\* "connected" before it looks.
OutageIsShown ==
  \A r \in listening \ masked : link # "connected" => shown[r] = link

\* A venue that is probed is shown as it is in the end: once the exchange, the
\* connection and the age of the data settle, so does what a viewer is told,
\* "degraded" when the data is stale however healthy the exchange says it is.
\* Deribit's platform messages may say the opposite of its status: not then.
Settled(r) ==
  /\ venue \in Probed /\ link = "connected" /\ r \in listening
  /\ venue = "deribit" =>
       DeribitPlatformHealth(report).state = DeribitPublicStatusHealth(report).state

Silent(r) ==
  LET s == sources[r] IN
  /\ s.transport # None => s.transport.age = Stale
  /\ IF s.lastActivity = None THEN s.transport # None ELSE s.lastActivity = Stale

Ailing == HealthOf(venue, report).state = "degraded"

StatusSettles ==
  \A r \in Runtimes :
    /\ <>[](Settled(r) /\ Ailing) => <>[](shown[r] = "degraded")
    /\ <>[](Settled(r) /\ Silent(r)) => <>[](shown[r] = "degraded")
    /\ <>[](Settled(r) /\ ~Ailing /\ ~Silent(r)) => <>[](shown[r] = "connected")
===============================================================================
