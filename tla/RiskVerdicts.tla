----------------------------- MODULE RiskVerdicts -----------------------------
(***************************************************************************)
(* The decisions that let a write pass before it is reviewed: the merge of *)
(* the risk rules' verdicts (riskEngine.ts), what the precheck makes of    *)
(* it, and the dependency-health gate (dependencyHealth.ts).               *)
(*                                                                         *)
(* Of the fourteen rules the kill switch and the unknown-state blocker     *)
(* depend on state that changes while a request is under way.  The others  *)
(* compare the request with limits: together they are one verdict.         *)
(***************************************************************************)
EXTENDS Naturals, Sequences

RiskVerdict == {"allow", "downgrade_read_only", "block"}
VERDICT_RANK == [allow |-> 0, downgrade_read_only |-> 1, block |-> 2]

killSwitch(active) == IF active THEN "block" ELSE "allow"
unknownStateBlocker(n) == IF n > 0 THEN "block" ELSE "allow"

\* RULES, in their order.
rule_results(killActive, unknownOrders, limits) ==
    <<killSwitch(killActive), unknownStateBlocker(unknownOrders), limits>>

\* Mutant: the last rule that has something to say decides.
mergeLast(results) == results[Len(results)]
\* evaluate: the highest-ranked verdict.
merge(results) ==
    CHOOSE v \in {results[i] : i \in DOMAIN results} :
        \A i \in DOMAIN results : VERDICT_RANK[results[i]] <= VERDICT_RANK[v]

\* Mutant: what is not known to be broken is fine.
checkTradingHealthLenient(mode, auditWroteOk, reconciliationHealthy) ==
    mode # "live" \/ (auditWroteOk # "false" /\ reconciliationHealthy # "false")
\* Whether the gate lets a write pass.  Paper is always healthy, shadow bypasses.
\* auditWroteOk: "null" if no sink was called.
checkTradingHealth(mode, auditWroteOk, reconciliationHealthy) ==
    mode # "live" \/ (auditWroteOk = "true" /\ reconciliationHealthy # "false")
=============================================================================
