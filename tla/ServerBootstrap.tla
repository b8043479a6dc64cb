--------------------------- MODULE ServerBootstrap ---------------------------
(***************************************************************************)
(* The server's start and end (server/src: index.ts, app.ts, adapters.ts,   *)
(* services.ts, readiness.ts): the venues' markets are loaded side by side, *)
(* then the services started side by side, and requests are answered only   *)
(* when those that must be there are.  Nothing that failed is tried again.  *)
(***************************************************************************)
EXTENDS FiniteSets

CONSTANT Adapters

VARIABLES
  loading,       \* adapters whose markets are being loaded
  registered,    \* adapters that were
  ready, shuttingDown, exited,
  services,      \* [service -> "idle", "starting", "started", "failed"]
  serviceHealth  \* services that are said to be there

serverVars == <<loading, registered, ready, shuttingDown, exited, services,
                serviceHealth>>

Services == {"dvol", "spot", "flow", "blockFlow"}
NeededServices == Services \ {"dvol"}

ServerInit ==
  /\ loading = Adapters /\ registered = {}
  /\ ready = FALSE /\ shuttingDown = FALSE /\ exited = FALSE
  /\ services = [s \in Services |-> "idle"]
  /\ serviceHealth = {}

IsTrafficReady == ready /\ ~shuttingDown /\ NeededServices \subseteq serviceHealth

CurrentReadinessStatus ==
  CASE shuttingDown -> "stopping"
    [] ~shuttingDown /\ IsTrafficReady -> "ok"
    [] OTHER -> "initializing"

\* What a request is answered before its route is: those of the health of the
\* server always, those of a stream once the adapters are there.
Answered(route) ==
  \/ route \in {"/api/health", "/api/ready"}
  \/ route = "/ws/chain" /\ ready /\ ~shuttingDown
  \/ IsTrafficReady

LoadMarkets(a) ==
  /\ ~exited /\ a \in loading
  /\ loading' = loading \ {a}
  /\ \E fulfilled \in BOOLEAN :
       registered' = IF fulfilled THEN registered \cup {a} ELSE registered
  /\ UNCHANGED <<ready, shuttingDown, exited, services, serviceHealth>>

\* Once every adapter has loaded or failed.
BootstrapServices ==
  /\ ~exited /\ ~shuttingDown /\ ~ready /\ loading = {}
  /\ ready' = TRUE
  /\ services' = [s \in Services |-> "starting"]
  /\ UNCHANGED <<loading, registered, shuttingDown, exited, serviceHealth>>

\* A start of the spot service never rejects.
ServiceSettles(s) ==
  /\ ~exited /\ services[s] = "starting"
  /\ \E outcome \in {"started"} \cup (IF s = "spot" THEN {} ELSE {"failed"}) :
       services' = [services EXCEPT ![s] = outcome]
  /\ UNCHANGED <<loading, registered, ready, shuttingDown, exited, serviceHealth>>

\* A defect: one service that fails hides the others.
FulfilledTogether ==
  {s \in Services : \A t \in Services : services[t] = "started"}

Fulfilled == {s \in Services : services[s] = "started"}

\* What started is said to be there when all of them have settled.
ServicesBootstrapped ==
  /\ ~exited /\ \A s \in Services : services[s] \in {"started", "failed"}
  /\ serviceHealth' = Fulfilled
  /\ UNCHANGED <<loading, registered, ready, shuttingDown, exited, services>>

\* A signal; then the connections are closed and the process ends.
Shutdown ==
  /\ ~exited /\ ~shuttingDown
  /\ shuttingDown' = TRUE /\ ready' = FALSE
  /\ UNCHANGED <<loading, registered, exited, services, serviceHealth>>

Close ==
  /\ shuttingDown /\ ~exited
  /\ exited' = TRUE
  /\ UNCHANGED <<loading, registered, ready, shuttingDown, services, serviceHealth>>

ServerNext ==
  \/ \E a \in Adapters : LoadMarkets(a)
  \/ BootstrapServices \/ ServicesBootstrapped \/ Shutdown \/ Close
  \/ \E s \in Services : ServiceSettles(s)

\* The server's own steps are taken when they can be.  A load or a start need
\* not settle: a connect whose socket neither opens nor fails never does.
ServerFairness == WF_serverVars(BootstrapServices) /\ WF_serverVars(ServicesBootstrapped)

Served ==
  IsTrafficReady \/ shuttingDown \/ \E s \in NeededServices : services[s] = "failed"

Starting == \E s \in Services : services[s] = "starting"

\* When every load and every start settles, well or badly, the server serves in
\* the end, unless it is shut down or a service it cannot do without failed:
\* venues and a volatility index that failed do not keep it from serving the
\* others.  One that never settles does.
ServesInTheEnd == <>(loading = {}) /\ []<>(~ Starting) => <>Served
===============================================================================
