------------------------------ MODULE PlanRunner ------------------------------
(***************************************************************************)
(* Plan mode (cexPlanRunner.ts) and the plan store (cexPlanState.ts) for   *)
(* one user and room.  A turn is one message of the user; the server       *)
(* handles it without waiting for the turn before.  A turn's steps end     *)
(* where the code awaits the network: the language model (`decide`,        *)
(* `decompose`) and the actions of a plan (`reads`, `write`).  Rendering,  *)
(* persisting and fetching prices change no plan and are left out.         *)
(*                                                                         *)
(* An action's outcome is ok or failed; the 60 s timeout is a failure to   *)
(* the plan whatever the handler does afterwards.  An exception, and every *)
(* `return null`, hands the message to the legacy workflow, which does not *)
(* know the plan: the turn is `done`.                                      *)
(***************************************************************************)
EXTENDS PlanSteps

CONSTANTS
    MaxTurns,       \* bound on the messages
    NoPlan,
    MaxEdits        \* bound on the edits made in approval modals

ASSUME RunnerAssumption ==
    NoPlan \notin Plans /\ {MaxTurns, MaxEdits} \subseteq Nat

Turns == 1 .. MaxTurns      \* the messages, in the order they arrive

VARIABLES
    plans,      \* cexPlanState: each plan's entry
    active,     \* activeByRoom: the room's plan
    turn,       \* the turns
    modal,      \* the plan step that the client's approval modal shows
    edits,      \* history: the edits made, <<plan, step shown, step changed>>
    sent,       \* history: how often each step was handed to its action
    ended       \* history: the plans that cancelPlan and savePlan cancelled

vars == <<plans, active, turn, modal, edits, sent, ended>>

Commands == {"APPROVE_NEXT", "APPROVE_BATCH", "CANCEL_PLAN", "SKIP_STEP", "DELEGATE", "EXECUTION_STATUS"}
Decisions == (Commands \ {"EXECUTION_STATUS"}) \union {"MODIFY", "NON_TRADING", "UNCLEAR"}

unsaved == [status |-> "unsaved"]
gone == [status |-> "gone"]
Saved(p) == plans[p].status \notin {"unsaved", "gone"}
noModal == <<NoPlan, None>>

fresh == [at |-> "idle", plan |-> NoPlan, cmd |-> "none", todo |-> {},
          seen |-> [next |-> None, nudges |-> 0], wrote |-> 0]
Turn == [at : {"idle", "decide", "decompose", "reads", "write", "done"},
         plan : Plans \union {NoPlan}, cmd : Commands \union Decisions \union {"none", "new"},
         todo : SUBSET Nat, seen : [next : Nat, nudges : 0 .. 1], wrote : Nat]

Init ==
    /\ plans = [p \in Plans |-> unsaved]
    /\ active = NoPlan
    /\ turn = [t \in Turns |-> fresh]
    /\ modal = noModal
    /\ edits = {}
    /\ sent = [p \in Plans |-> [i \in DOMAIN Steps[p] |-> 0]]
    /\ ended = [p \in Plans |-> "no"]

------------------------------------------------------------------------------
(* The parts of a turn.  Each says what one stretch of code between two    *)
(* awaits does to the plan's entry `e` and to turn `t`, whose record is    *)
(* `r` up to there.                                                        *)

\* The plan that savePlan cancels and deletes when it puts another one in the
\* room's place.
Replaced(p) ==
    {q \in Plans \ {p} : plans[p] = unsaved /\ q = active /\ plans[q].status \notin TERMINAL_STATUSES}

\* Mutant: a plan that ends goes on occupying its room.
KeepInRoom(p, e) ==
    /\ plans' = [q \in Plans |-> CASE q = p -> e [] q \in Replaced(p) -> gone [] OTHER -> plans[q]]
    /\ active' = IF plans[p] = unsaved THEN p ELSE active
\* Mutant: the plan that another one replaces stays in the store.
KeepReplaced(p, e) ==
    /\ plans' = [plans EXCEPT ![p] = e]
    /\ active' = IF plans[p] = unsaved THEN p ELSE IF e.grace /\ active = p THEN NoPlan ELSE active
\* The store after the savePlan and updatePlan calls of one stretch.
Keep(p, entry) == \E e \in {entry} :
    /\ plans' = [q \in Plans |-> CASE q = p -> e [] q \in Replaced(p) -> gone [] OTHER -> plans[q]]
    /\ active' = LET room == IF plans[p] = unsaved THEN p ELSE active
                 IN  IF e.grace /\ room = p THEN NoPlan ELSE room

Await(t, r, stage, S) == turn' = [turn EXCEPT ![t] = [r EXCEPT !.at = stage, !.todo = S]]
Done(t, r) == Await(t, r, "done", {})

\* invokeAction, up to its await.
Invoke(p, S) == sent' = [sent EXCEPT ![p] = [i \in DOMAIN @ |-> IF i \in S THEN @[i] + 1 ELSE @[i]]]
\* Mutant: the steps are only marked when they answer.
InProgressUnmarked(e, S) == e
InProgress(e, S) == [e EXCEPT !.steps = [i \in DOMAIN @ |-> IF i \in S THEN "in_progress" ELSE @[i]]]

\* emitPlanApprovalModal: plans with a single write have none.
ShowModal(p, i) == modal' = IF Cardinality(Writes(p)) > 1 THEN <<p, i>> ELSE modal

\* The loop of advanceAndRespond: the next write, or the end.  (Here and below,
\* \E x \in {v} only binds x to v; it makes TLC evaluate v once.)
RunWrite(t, r, entry) == \E e \in {entry} : \E i \in {nextWriteStep(r.plan, e)} :
    LET p == r.plan IN
    /\ UNCHANGED modal
    /\ IF i = None
       THEN Keep(p, Decided(p, e)) /\ Done(t, r) /\ UNCHANGED sent
       ELSE /\ Keep(p, updated([InProgress(e, {i}) EXCEPT !.status = "executing"]))
            /\ Await(t, [r EXCEPT !.wrote = @ + 1], "write", {i})
            /\ Invoke(p, {i})

\* What runPlanModeIfApplicable does with a new plan after its first reads.
PresentPlan(t, r, entry) == \E e \in {entry} : \E i \in {nextWriteStep(r.plan, e)} :
    LET p == r.plan IN
    /\ IF i = None
       THEN Keep(p, updated([e EXCEPT !.status = "completed"])) /\ UNCHANGED modal
       ELSE Keep(p, Awaiting(e)) /\ ShowModal(p, i)
    /\ Done(t, r)
    /\ UNCHANGED sent

AfterReads(t, r, e) == IF r.cmd = "new" THEN PresentPlan(t, r, e) ELSE RunWrite(t, r, e)

\* executeReadyReads: a wave of reads in parallel, then the next one, until
\* none is ready.
DrainReads(t, r, entry) == \E e \in {entry} : \E wave \in {readableSteps(r.plan, e)} :
    LET p == r.plan IN
    IF wave = {} THEN AfterReads(t, r, e)
    ELSE /\ Keep(p, updated(InProgress(e, wave)))
         /\ Await(t, r, "reads", wave)
         /\ Invoke(p, wave)
         /\ UNCHANGED modal

\* cancelPlan.  The entry stays, and nothing will sweep it.
CancelPlan(p, e) ==
    IF e.status \in TERMINAL_STATUSES
    THEN plans' = [plans EXCEPT ![p] = e] /\ UNCHANGED <<active, ended>>
    ELSE /\ plans' = [plans EXCEPT ![p] = [e EXCEPT !.status = "cancelled", !.sweep = FALSE]]
         /\ active' = IF active = p THEN NoPlan ELSE active
         /\ ended' = [ended EXCEPT ![p] = "cancelled"]

\* applyContinuation, and what its caller does to clarify_nudges, for the entry
\* `e`; `r.seen` is what the turn read of the plan when it looked it up.
Obey(t, r, e) ==
    \E heard \in {IF r.seen.nudges = 0 THEN e ELSE updated([e EXCEPT !.nudges = 0])} :
    LET p == r.plan
        next == r.seen.next
        skip == [heard EXCEPT !.steps[next] = "skipped"]
        Answer(f) == Keep(p, f) /\ Done(t, r) /\ UNCHANGED <<modal, sent, ended>>
        End(f) == CancelPlan(p, f) /\ Done(t, r) /\ UNCHANGED <<modal, sent>>
    IN  \/ r.cmd = "CANCEL_PLAN" /\ End(heard)
        \/ r.cmd = "SKIP_STEP" /\ next = None /\ Answer(heard)
        \/ /\ r.cmd = "SKIP_STEP" /\ next # None
           /\ DrainReads(t, r, Decided(p, advanceCursor(p, skip)))
           /\ UNCHANGED ended
        \/ /\ r.cmd = "APPROVE_BATCH"
           /\ DrainReads(t, r, updated([heard EXCEPT !.mode = "batch"])) /\ UNCHANGED ended
        \/ r.cmd = "APPROVE_NEXT" /\ DrainReads(t, r, heard) /\ UNCHANGED ended
        \/ r.cmd = "EXECUTION_STATUS" /\ Answer(heard)
        \/ r.cmd = "DELEGATE" /\ next = None /\ Answer(heard)
        \/ /\ r.cmd = "DELEGATE" /\ next # None
           /\ Keep(p, Awaiting(heard)) /\ ShowModal(p, next) /\ Done(t, r)
           /\ UNCHANGED <<sent, ended>>
        \/ r.cmd = "MODIFY" /\ Answer(Awaiting([e EXCEPT !.nudges = 0]))
        \/ r.cmd = "NON_TRADING" /\ Answer(heard)
        \/ r.cmd = "UNCLEAR" /\ r.seen.nudges = 0 /\ Answer(updated([e EXCEPT !.nudges = 1]))
        \/ r.cmd = "UNCLEAR" /\ r.seen.nudges = 1 /\ End(e)

------------------------------------------------------------------------------
(* The turns. *)

Seen(p) == [next |-> nextWriteStep(p, plans[p]), nudges |-> plans[p].nudges]

Arrives(t) == turn[t].at = "idle" /\ \A u \in 1 .. t - 1 : turn[u].at # "idle"

\* A message for the room's plan: obeyed at once when the parser knows it,
\* otherwise put to the language model.
Continue(t) ==
    /\ Arrives(t) /\ active # NoPlan
    /\ plans[active].status \notin TERMINAL_STATUSES
    /\ LET r == [fresh EXCEPT !.plan = active, !.seen = Seen(active)] IN
       \/ \E c \in Commands : Obey(t, [r EXCEPT !.cmd = c], plans[active])
       \/ Await(t, r, "decide", {}) /\ UNCHANGED <<plans, active, modal, sent, ended>>
    /\ UNCHANGED edits

\* The model's decision, applied to the plan as it is by now.  If the plan is
\* gone the turn ends, with an error or with a message.
Decide(t) ==
    /\ turn[t].at = "decide"
    /\ \E c \in Decisions :
          \E r \in {[turn[t] EXCEPT !.cmd = c]} :
          IF Saved(r.plan) THEN Obey(t, r, plans[r.plan])
          ELSE Done(t, r) /\ UNCHANGED <<plans, active, modal, sent, ended>>
    /\ UNCHANGED edits

\* A message with no active plan, or with one that is past its TTL and has not
\* been swept yet (getActivePlan then deletes it).
NewRequest(t) ==
    /\ Arrives(t)
    /\ \/ /\ active # NoPlan
          /\ plans' = [plans EXCEPT ![active] = gone] /\ active' = NoPlan
       \/ /\ active # NoPlan => plans[active].status \in TERMINAL_STATUSES
          /\ UNCHANGED <<plans, active>>
    /\ Await(t, [fresh EXCEPT !.cmd = "new"], "decompose", {})
    /\ UNCHANGED <<modal, edits, sent, ended>>

\* Advice, a clarification, a single step, or a plan that the validators refuse.
NoPlanMade(t) ==
    /\ turn[t].at = "decompose"
    /\ Done(t, turn[t])
    /\ UNCHANGED <<plans, active, modal, edits, sent, ended>>

\* savePlan, and the first reads.
SavePlan(t, p) ==
    /\ turn[t].at = "decompose" /\ plans[p] = unsaved
    /\ DrainReads(t, [turn[t] EXCEPT !.plan = p], NewEntry(p))
    /\ ended' = [q \in Plans |-> IF q \in Replaced(p) THEN "replaced" ELSE ended[q]]
    /\ UNCHANGED edits

\* The last read of a wave has answered; those in `good` succeeded.  A turn
\* whose plan is gone ends with updatePlan's error.
ReadsReturn(t) == \E r \in {turn[t]} :
    /\ r.at = "reads"
    /\ \E good \in SUBSET r.todo :
          LET p == r.plan
              e == markStepsOk(plans[p], good)
              bad == r.todo \ good
          IN  CASE ~Saved(p) -> Done(t, r) /\ UNCHANGED <<plans, active, modal, sent>>
                [] Saved(p) /\ bad = {} -> DrainReads(t, r, Decided(p, advanceCursor(p, e)))
                [] Saved(p) /\ bad # {} ->
                      AfterReads(t, r, Decided(p, advanceCursor(p, markStepsFailedAndBail(p, e, bad))))
    /\ UNCHANGED <<edits, ended>>

\* Mutant: a turn does not stop to ask.
WriteSucceedsOnwards(t) ==
    /\ turn[t].at = "write" /\ Saved(turn[t].plan)
    /\ \E r \in {turn[t]} : \E f \in {advanceCursor(r.plan, markStepsOk(plans[r.plan], r.todo))} :
       RunWrite(t, r, Decided(r.plan, f))
    /\ UNCHANGED <<edits, ended>>
\* A write has answered.  Step by step, the turn then asks for the next one.
WriteSucceeds(t) ==
    /\ turn[t].at = "write" /\ Saved(turn[t].plan)
    /\ \E r \in {turn[t]} : \E f \in {advanceCursor(r.plan, markStepsOk(plans[r.plan], r.todo))} :
       \E e \in {Decided(r.plan, f)} :
          LET p == r.plan  next == nextWriteStep(p, e) IN
          IF e.mode = "batch" THEN RunWrite(t, r, e)
          ELSE /\ Done(t, r) /\ UNCHANGED sent
               /\ IF next = None THEN Keep(p, Decided(p, e)) /\ UNCHANGED modal
                  ELSE Keep(p, Awaiting(e)) /\ ShowModal(p, next)
    /\ UNCHANGED <<edits, ended>>
WriteFails(t) ==
    LET r == turn[t]  p == r.plan IN
    /\ r.at = "write" /\ Saved(p)
    /\ Keep(p, updated(markStepsFailedAndBail(p, plans[p], r.todo)))
    /\ Done(t, r)
    /\ UNCHANGED <<modal, edits, sent, ended>>
WriteUnrecorded(t) ==
    /\ turn[t].at = "write" /\ ~Saved(turn[t].plan)
    /\ Done(t, turn[t])
    /\ UNCHANGED <<plans, active, modal, edits, sent, ended>>

------------------------------------------------------------------------------
(* The timers, and the client. *)

\* The TTL sweep, or the short one after a terminal updatePlan: either may fire
\* while a turn awaits.
Sweep(p) ==
    /\ Saved(p) /\ (plans[p].sweep \/ plans[p].grace)
    /\ plans' = [plans EXCEPT ![p] = gone]
    /\ active' = IF active = p THEN NoPlan ELSE active
    /\ UNCHANGED <<turn, modal, edits, sent, ended>>

\* The user edits the step that the modal shows.  The client sends that step's
\* position among the writes; applyPlanStepEdit takes it for an index into all
\* the steps, and refuses a step that is a read: with a read before the step shown
\* the edit changes another one, or none.
EditStep ==
    LET p == modal[1]
        changed == Cardinality({j \in Writes(p) : j < modal[2]}) + 1
    IN
    /\ modal # noModal /\ Saved(p) /\ changed \in Writes(p)
    /\ Cardinality(edits) < MaxEdits
    /\ edits' = edits \union {<<p, modal[2], changed>>}
    /\ Keep(p, updated(plans[p]))
    /\ UNCHANGED <<turn, modal, sent, ended>>

Returns(t) == ReadsReturn(t) \/ WriteSucceeds(t) \/ WriteFails(t) \/ WriteUnrecorded(t)
Decompose(t) == NoPlanMade(t) \/ (\E p \in Plans : SavePlan(t, p))

Next ==
    \/ \E t \in Turns : Continue(t) \/ Decide(t) \/ NewRequest(t) \/ Decompose(t) \/ Returns(t)
    \/ \E p \in Plans : Sweep(p)
    \/ EditStep

\* Timers fire.  Messages need not come, and nothing below needs the language
\* model or an action to answer.
Fairness == \A p \in Plans : WF_vars(Sweep(p))

Spec == Init /\ [][Next]_vars
FairSpec == Spec /\ Fairness

------------------------------------------------------------------------------
(* Properties *)

TypeOK ==
    /\ \A p \in Plans : plans[p] \in Entries(p) \union {unsaved, gone}
    /\ active \in Plans \union {NoPlan}
    /\ turn \in [Turns -> Turn]
    /\ modal \in {noModal} \union UNION {{p} \X Writes(p) : p \in Plans}
    /\ edits \subseteq UNION {{p} \X Writes(p) \X Writes(p) : p \in Plans}
    /\ \A p \in Plans : sent[p] \in [DOMAIN Steps[p] -> Nat]
    /\ ended \in [Plans -> {"no", "cancelled", "replaced"}]

\* A step is handed to its action at most once, however turns overlap, skip,
\* fail or cancel: no order of a plan is placed twice.
StepsRunOnce == \A p \in Plans : \A i \in DOMAIN sent[p] : sent[p][i] <= 1

\* Only after the user approved the rest of a plan may one turn run several of
\* its writes.
OneWritePerTurn ==
    \A t \in Turns : turn[t].wrote > 1 =>
        \E u \in Turns : turn[u].plan = turn[t].plan /\ turn[u].cmd = "APPROVE_BATCH"

\* The room's plan is one that can still go on and that its TTL will end: no
\* dead plan swallows the user's next messages.
ActivePlanIsLive ==
    active # NoPlan =>
        /\ Saved(active) /\ plans[active].status \notin TERMINAL_STATUSES
        /\ plans[active].sweep

\* Turn t has handed step i of plan p to its action, which has not answered.
Waits(t, p, i) == turn[t].plan = p /\ i \in turn[t].todo
HasAnswered(p, i) == sent[p][i] = 1 /\ \A t \in Turns : ~Waits(t, p, i)

Over == {"ok", "skipped"}

\* "All `depends_on` steps are `ok`" (cexPlanExecutor.ts:144): a step that was begun
\* finds the steps it depends on begun once, answered, and neither failed nor
\* open, whatever turns overlap.  (A late "skip" may still mark one `skipped`.)
DependenciesMet ==
    \A p \in Plans : \A i \in DOMAIN Steps[p] : sent[p][i] > 0 =>
        \A d \in Steps[p][i].needs :
            HasAnswered(p, d) /\ (Saved(p) => plans[p].steps[d] \in Over)

\* The step t begins a write of plan p.
Begins(t, p) == turn'[t].plan = p /\ turn'[t].wrote > turn[t].wrote

\* After a step of a plan has failed, no turn begins another write of it, the
\* turns that were already under way included.
FailureStopsWrites ==
    [][\A t \in Turns, p \in Plans :
          Begins(t, p) /\ Saved(p) => \A i \in DOMAIN Steps[p] : plans[p].steps[i] # "failed"]_vars

\* A plan that was replaced or swept begins no further write, and one that was
\* cancelled gets no further turn.
EndedPlansRest ==
    [][\A t \in Turns, p \in Plans :
          /\ Begins(t, p) => plans[p] # gone /\ ended[p] # "replaced"
          /\ turn[t].at = "idle" /\ turn'[t].plan = p => ended[p] = "no"]_vars

\* No plan keeps its room for ever, whatever its turns do or fail to do.
RoomFreed == \A p \in Plans : (active = p) ~> (active # p)

\* The user approves every write: a turn begins one only on "yes", or when the
\* whole rest of the plan was approved.
WritesApproved ==
    [][\A t \in Turns, p \in Plans :
          Begins(t, p) => turn'[t].cmd \in {"APPROVE_NEXT", "APPROVE_BATCH"} \/ plans[p].mode = "batch"]_vars
================================================================================
