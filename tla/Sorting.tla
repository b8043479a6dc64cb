-------------------------------- MODULE Sorting --------------------------------
(***************************************************************************)
(* Array.prototype.sort by a number, as the trade runtimes use it: of      *)
(* equal keys the one that came first stays first.                         *)
(***************************************************************************)
EXTENDS Integers, Sequences, FiniteSets

\* The place the i-th record gets: how many come before it, and itself.
Place(key, i) ==
  Cardinality({j \in DOMAIN key : key[j] < key[i] \/ (key[j] = key[i] /\ j <= i)})

\* The records of s in the order of their keys.
SortByKey(s, key) == [n \in DOMAIN s |-> s[CHOOSE i \in DOMAIN key : Place(key, i) = n]]
===============================================================================
