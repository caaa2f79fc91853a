---- MODULE MCReconciliation ----
(***************************************************************************)
(* An instance of Reconciliation by itself: an order, a probe, no stream.  *)
(***************************************************************************)
EXTENDS Reconciliation

CONSTANTS a, b, p1, p2
====
