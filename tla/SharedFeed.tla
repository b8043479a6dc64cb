----------------------------- MODULE SharedFeed -----------------------------
(***************************************************************************)
(* What the subscription layer promises its callers, with no queues and no *)
(* reference counts: a topic is fed by the exchange whenever somebody      *)
(* holds it, and is only stopped when nobody does.                         *)
(***************************************************************************)
CONSTANTS Clients, Topics

VARIABLES holders,  \* the (client, topic) pairs with a live handle
          fed       \* the topics the exchange streams

vars == <<holders, fed>>

Unheld(t) == \A c \in Clients : <<c, t>> \notin holders

\* Some topics may be streamed before anybody asks.
Init == holders = {} /\ fed \in SUBSET Topics

\* A handle is granted on a fed topic, or on one that starts with it.
Join(c, t) ==
  /\ <<c, t>> \notin holders
  /\ holders' = holders \cup {<<c, t>>}
  /\ fed' = fed \cup {t}

\* Clients leave one by one, or all together at shutdown.
Leave(C) ==
  /\ holders' = {p \in holders : p[1] \notin C}
  /\ UNCHANGED fed

\* Topics are stopped only while nobody holds them.
Stop(T) ==
  /\ \A t \in T : Unheld(t)
  /\ fed' = fed \ T
  /\ UNCHANGED holders

Next ==
  \/ \E c \in Clients, t \in Topics : Join(c, t)
  \/ \E C \in SUBSET Clients : Leave(C)
  \/ \E T \in SUBSET Topics : Stop(T)

Spec == Init /\ [][Next]_vars
=============================================================================
