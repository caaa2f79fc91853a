---- MODULE MCPlanRunner ----
(***************************************************************************)
(* Instances of PlanRunner: a plan of three orders, the last of which      *)
(* needs a balance read after the first, and a plan whose order comes      *)
(* after reads, one of which needs the other.                              *)
(***************************************************************************)
EXTENDS PlanRunner, TLC

CONSTANTS p1, p2

Step(stake, needs) == [stake |-> stake, needs |-> needs]
Orders == <<Step("write", {}), Step("write", {}), Step("read", {1}), Step("write", {3})>>
ReadsFirst == <<Step("read", {}), Step("read", {1}), Step("write", {2})>>
TwoPlans == [p \in {p1, p2} |-> IF p = p1 THEN Orders ELSE ReadsFirst]
====
