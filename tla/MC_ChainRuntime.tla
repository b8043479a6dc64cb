--------------------------- MODULE MC_ChainRuntime ---------------------------
(* ChainRuntime for TLC: two venues, with a strike each. *)
EXTENDS ChainRuntime

CONSTANTS v1, v2, s1, s2

TwoContracts == {<<v1, s1>>, <<v2, s2>>}

\* One contract is updated twice: a delta may meet an older one.
Updates == [c \in TwoContracts |-> IF c = <<v1, s1>> THEN 2 ELSE 1]
=============================================================================
