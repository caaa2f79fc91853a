--------------------------- MODULE MCFallbackPoller ---------------------------
(***************************************************************************)
(* An instance of FallbackPoller: one order, two cycles that may overlap.  *)
(***************************************************************************)
EXTENDS FallbackPoller

CONSTANTS o1, ann, k1, k2

MCAccountOf == [c \in Cids |-> ann]
===============================================================================
