------------------------------- MODULE PlanSteps -------------------------------
(***************************************************************************)
(* The pure helpers that walk a multi-step plan (cexPlanExecutor.ts) and   *)
(* the one write of the plan store (updatePlan, cexPlanState.ts).          *)
(*                                                                         *)
(* A plan's entry is its status, its approval mode, its cursor, the status *)
(* of each step, its clarify_nudges, and the two timers that may delete    *)
(* it: the TTL sweep, and the five-second one that updatePlan starts when  *)
(* the status it leaves is terminal.  Steps are numbered from 1.           *)
(***************************************************************************)
EXTENDS Naturals, Sequences, FiniteSets

CONSTANTS
    Plans,      \* the plans that the decomposer may produce, by id
    Steps       \* a plan's steps: [stake, needs], needs being `depends_on`

Stakes == {"read", "write"}
ASSUME StepsAssumption ==
    /\ Steps \in [Plans -> Seq([stake : Stakes, needs : SUBSET Nat])]
    /\ \A p \in Plans : \A i \in DOMAIN Steps[p] : Steps[p][i].needs \subseteq DOMAIN Steps[p]

TERMINAL_STATUSES == {"completed", "failed", "cancelled", "expired"}
Statuses == {"draft", "awaiting_approval", "executing"} \union TERMINAL_STATUSES
StepStatuses == {"pending", "in_progress", "ok", "failed", "skipped"}

Entries(p) ==
    [status : Statuses, mode : {"step_by_step", "batch"}, cursor : 1 .. Len(Steps[p]) + 1,
     steps : [DOMAIN Steps[p] -> StepStatuses], nudges : 0 .. 1, sweep : BOOLEAN, grace : BOOLEAN]
NewEntry(p) ==
    [status |-> "draft", mode |-> "step_by_step", cursor |-> 1,
     steps |-> [i \in DOMAIN Steps[p] |-> "pending"], nudges |-> 0, sweep |-> TRUE, grace |-> FALSE]

Writes(p) == {i \in DOMAIN Steps[p] : Steps[p][i].stake = "write"}
None == 0

\* Mutant: a dependency counts as met once it is no longer pending.
ReadyOnceBegun(p, e) ==
    {i \in DOMAIN Steps[p] : /\ e.steps[i] = "pending"
                             /\ \A d \in Steps[p][i].needs : e.steps[d] # "pending"}
\* The pending steps whose dependencies are `ok`.
Ready(p, e) ==
    {i \in DOMAIN Steps[p] : /\ e.steps[i] = "pending"
                             /\ \A d \in Steps[p][i].needs : e.steps[d] = "ok"}
readableSteps(p, e) ==
    {i \in Ready(p, e) : i >= e.cursor /\ \A j \in e.cursor .. i : j \notin Writes(p)}
nextWriteStep(p, e) ==
    LET ahead == {i \in Ready(p, e) \intersect Writes(p) : i >= e.cursor}
    IN  IF ahead = {} THEN None ELSE CHOOSE i \in ahead : \A j \in ahead : i <= j

\* Mutant: the cursor moves on by one, whatever is there.
advanceCursorByOne(p, e) == [e EXCEPT !.cursor = @ + 1]
advanceCursor(p, e) ==
    LET ahead == {i \in DOMAIN Steps[p] : i >= e.cursor /\ e.steps[i] = "pending"}
        end == Len(Steps[p]) + 1
    IN  [e EXCEPT !.cursor = CHOOSE i \in ahead \union {end} : \A j \in ahead : i <= j]

\* Mutant: a failed step does not bail out of the steps after it.
markStepsFailedKeepingRest(p, e, bad) ==
    [e EXCEPT !.steps = [i \in DOMAIN @ |-> IF i \in bad THEN "failed" ELSE @[i]],
              !.cursor = CHOOSE i \in bad : \A j \in bad : j <= i,
              !.status = "failed"]
\* markStepFailedAndBail for the failed steps `bad`, in order.
markStepsFailedAndBail(p, e, bad) ==
    [e EXCEPT !.steps = [i \in DOMAIN @ |->
                            CASE i \in bad -> "failed"
                              [] i \notin bad /\ @[i] = "pending" /\ (\E b \in bad : b < i) -> "skipped"
                              [] OTHER -> @[i]],
              !.cursor = CHOOSE i \in bad : \A j \in bad : j <= i,
              !.status = "failed"]
markStepsOk(e, good) ==
    [e EXCEPT !.steps = [i \in DOMAIN @ |-> IF i \in good THEN "ok" ELSE @[i]]]

decideStatus(p, e) ==
    LET all == {e.steps[i] : i \in DOMAIN e.steps} IN
    CASE "failed" \in all -> "failed"
      [] "failed" \notin all /\ (all \subseteq {"ok", "skipped"} \/ e.cursor > Len(Steps[p])) -> "completed"
      [] OTHER -> IF e.cursor \in Writes(p) /\ e.mode = "step_by_step"
                  THEN "awaiting_approval" ELSE "executing"

\* Mutant: every update clears the TTL timer.
updatedWithoutSweep(e) ==
    IF e.status \in TERMINAL_STATUSES THEN [e EXCEPT !.sweep = FALSE, !.grace = TRUE]
    ELSE [e EXCEPT !.sweep = FALSE]
\* updatePlan, once its mutator has made `e`.  The room's index is dropped with
\* the first terminal status, which `grace` remembers (see Keep in PlanRunner).
updated(e) ==
    IF e.status \in TERMINAL_STATUSES THEN [e EXCEPT !.sweep = FALSE, !.grace = TRUE] ELSE e
Decided(p, e) == updated([e EXCEPT !.status = decideStatus(p, e)])
Awaiting(e) == updated([e EXCEPT !.status = "awaiting_approval"])
================================================================================
