--------------------------- MODULE MC_ChainStream ---------------------------
(* ChainStream for TLC: the request Every asks for a venue that the server   *)
(* has not loaded and is Loaded without it, Other only asks for loaded ones; *)
(* users, runtimes and sockets are interchangeable.                          *)
EXTENDS ChainStream, TLC

CONSTANTS Every, Loaded, Other

MCLive == [k \in Keys |-> IF k = Every THEN Loaded ELSE k]

\* Bound: the page asks for Every and Other.
Asked == want # Loaded

StreamSymmetry == Permutations(Users) \cup Permutations(Runtimes)
                    \cup Permutations(Sockets)
=============================================================================
