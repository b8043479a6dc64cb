------------------------------- MODULE Optional -------------------------------
(***************************************************************************)
(* A value that may be null, and what ?? makes of it.                      *)
(***************************************************************************)
CONSTANT None       \* null

OrElse(value, other) == IF value # None THEN value ELSE other
===============================================================================
