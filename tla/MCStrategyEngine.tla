---- MODULE MCStrategyEngine ----
(***************************************************************************)
(* Instances of StrategyEngine: two strategies of one user.                *)
(***************************************************************************)
EXTENDS StrategyEngine, TLC

CONSTANTS s1, s2
====
