---------------------------- MODULE StrategyEngine ----------------------------
(***************************************************************************)
(* The paper strategy engine: runTick (engineTick.ts) against the writes   *)
(* that users make to the same instances (arm, pause, resume, stop, and    *)
(* the kill switch's haltUser).  Every writer reads an instance, works on  *)
(* its own copy and puts the whole row back.  The store is synchronous     *)
(* SQLite, so a user's read and put are one step; a tick keeps its copies  *)
(* over the network calls of all the instances before, and the store never *)
(* fails.                                                                  *)
(*                                                                         *)
(* The instances are one user's.  An instance is reduced to the fields     *)
(* that decide what the engine does: status, position, whether the day's   *)
(* realized loss is at its limit, tick_count and consecutive_risk_blocks.  *)
(* An order's client_order_id is <<instance, side, tick_count>>: identical *)
(* intents are told apart by the salt `${instance_id}:${tick_count}` only. *)
(***************************************************************************)
EXTENDS Integers, FiniteSets

CONSTANTS
    Insts,            \* instance_ids, `strategy-${userId}-${dsl.identity.id}`
    BlockThreshold,   \* RISK_BLOCK_PAUSE_THRESHOLD
    Rearms,           \* whether an instance may be armed again
    LimitInsts,       \* the instances with a rule whose order_type is limit
    MaxTicks, MaxQty, MaxEdits, MaxCrashes     \* bounds

ASSUME LimitAssumption ==
    /\ BlockThreshold \in Nat \ {0}
    /\ Rearms \in BOOLEAN
    /\ LimitInsts \subseteq Insts
ASSUME BoundAssumption ==
    {MaxTicks, MaxQty, MaxEdits, MaxCrashes} \subseteq Nat

VARIABLES
    store,      \* strategy_instances: the row of each instance
    tick,       \* the pass under way
    edits, crashes,
    orders,     \* history: how often the paper venue took each order id
    taken,      \* history: the position that all these orders amount to
    held,       \* history: the position that those it executed amount to
    word,       \* history: the last status a user or the engine decided on
    heard       \* history: whether no tick held a copy of the instance then

vars == <<store, tick, edits, crashes, orders, taken, held, word, heard>>

absent == [status |-> "absent"]
newArmed == [status |-> "armed", qty |-> 0, atLimit |-> FALSE, ticks |-> 0, blocks |-> 0]
idle == [stage |-> "idle"]
Sides == {"BUY", "SELL"}
Types == {"market", "limit"}
OrderIds == Insts \X Sides \X (0 .. MaxTicks)

Rows == [status : {"armed", "paused", "stopped", "halted"}, qty : 0 .. MaxQty,
         atLimit : BOOLEAN, ticks : 0 .. MaxTicks,
         blocks : 0 .. BlockThreshold + MaxEdits - 1]

Init ==
    /\ store = [i \in Insts |-> absent]
    /\ tick = idle
    /\ edits = 0 /\ crashes = 0
    /\ orders = [o \in OrderIds |-> 0]
    /\ taken = [i \in Insts |-> 0]
    /\ held = [i \in Insts |-> 0]
    /\ word = [i \in Insts |-> "absent"]
    /\ heard = Insts

Put(i, row) == store' = [store EXCEPT ![i] = row]

------------------------------------------------------------------------------
(* The tick.  `ticking` keeps it from overlapping itself. *)

\* listActive, and the loop's test for armed and due on the copies it returned.
\* MaxTicks bounds how often an instance is evaluated.
Due(i) == store[i].status = "armed" /\ store[i].ticks < MaxTicks
StartTick ==
    /\ tick = idle
    /\ \E i \in Insts : Due(i)
    /\ tick' = [stage |-> "loop", todo |-> [i \in {j \in Insts : Due(j)} |-> store[i]]]
    /\ UNCHANGED <<store, edits, crashes, orders, taken, held, word, heard>>

\* The next copy, its day rolled over if it is another day; computeSignals.
Evaluate(i) ==
    /\ tick.stage = "loop" /\ i \in DOMAIN tick.todo
    /\ \E newDay \in BOOLEAN :
          tick' = [stage |-> "signals", inst |-> i,
                   copy |-> [tick.todo[i] EXCEPT !.atLimit = @ /\ ~newDay],
                   todo |-> [j \in DOMAIN tick.todo \ {i} |-> tick.todo[j]]]
    /\ UNCHANGED <<store, edits, crashes, orders, taken, held, word, heard>>

EndTick ==
    /\ tick.stage = "loop" /\ DOMAIN tick.todo = {}
    /\ tick' = idle
    /\ UNCHANGED <<store, edits, crashes, orders, taken, held, word, heard>>

Loop == [stage |-> "loop", todo |-> tick.todo]

\* Mutant: the tick does not count.
PutBackUncounted(row) ==
    /\ Put(tick.inst, [row EXCEPT !.ticks = tick.copy.ticks])
    /\ IF row.status = tick.copy.status
       THEN UNCHANGED <<word, heard>>
       ELSE /\ word' = [word EXCEPT ![tick.inst] = row.status]
            /\ heard' = heard \union {tick.inst}
\* The put at the end of processInstance.  The engine's own verdict on the
\* status counts as a decision, a status it merely carries along does not.
PutBack(row) ==
    /\ Put(tick.inst, row)
    /\ IF row.status = tick.copy.status
       THEN UNCHANGED <<word, heard>>
       ELSE /\ word' = [word EXCEPT ![tick.inst] = row.status]
            /\ heard' = heard \union {tick.inst}

\* Missing, stale or signal-less data: put back, one tick further.
NothingToDo ==
    /\ tick.stage = "signals"
    /\ PutBack([tick.copy EXCEPT !.ticks = @ + 1])
    /\ tick' = Loop
    /\ UNCHANGED <<edits, crashes, orders, taken, held>>

\* Mutant: an evaluation that throws ends the pass without its finally block.
EvaluationThrowsOut ==
    /\ tick.stage = "signals"
    /\ PutBack(tick.copy)
    /\ tick' = [tick EXCEPT !.stage = "stuck"]
    /\ UNCHANGED <<edits, crashes, orders, taken, held>>
\* computeSignals, the rule engine or, once the risk engine has allowed the
\* order, the paper venue throws: runTick's catch puts the copy back.
EvaluationThrows ==
    /\ tick.stage = "signals"
    /\ \/ PutBack(tick.copy)
       \/ ~tick.copy.atLimit /\ PutBack([tick.copy EXCEPT !.blocks = 0])
    /\ tick' = Loop
    /\ UNCHANGED <<edits, crashes, orders, taken, held>>

\* The risk engine does not allow the order; too often in a row pauses.
RiskBlocks ==
    /\ tick.stage = "signals"
    /\ PutBack([tick.copy EXCEPT
            !.ticks = @ + 1, !.blocks = @ + 1,
            !.status = IF tick.copy.blocks + 1 >= BlockThreshold THEN "paused" ELSE @])
    /\ tick' = Loop
    /\ UNCHANGED <<edits, crashes, orders, taken, held>>

OrderFails ==
    /\ tick.stage = "signals" /\ ~tick.copy.atLimit
    /\ PutBack([tick.copy EXCEPT !.ticks = @ + 1, !.blocks = 0])
    /\ tick' = Loop
    /\ UNCHANGED <<edits, crashes, orders, taken, held>>

\* Mutant: selling more than the position goes short.
BookedShort(qty, side, n) == IF side = "BUY" THEN qty + n ELSE qty - n
\* applyFill's quantity: long only, whatever was sold.
Booked(qty, side, n) ==
    IF side = "BUY" THEN qty + n ELSE IF n < qty THEN qty - n ELSE 0

\* The paper venue takes the order, and takes it again if the id comes back.  A
\* market order is executed; a limit order is only opened, and nothing fills it
\* later; either is a success of which the engine books the whole quantity.  A
\* rule may sell more than the position, take-profit and stop-loss sell it all.
\* dailyLossLimit blocks every order once the day's loss is at the limit.
Execute(side, type, n) ==
    LET i == tick.inst IN
    /\ tick.stage = "signals" /\ ~tick.copy.atLimit
    /\ type = "limit" => i \in LimitInsts
    /\ side = "BUY"  => n = 1 /\ tick.copy.qty < MaxQty
    /\ orders' = [orders EXCEPT ![<<i, side, tick.copy.ticks>>] = @ + 1]
    /\ taken' = [taken EXCEPT ![i] = Booked(@, side, n)]
    /\ held' = IF type = "market" THEN [held EXCEPT ![i] = Booked(@, side, n)] ELSE held
    /\ tick' = [stage |-> "filled", inst |-> i, todo |-> tick.todo,
                copy |-> [tick.copy EXCEPT !.blocks = 0],
                qty |-> Booked(tick.copy.qty, side, n),
                sold |-> side = "SELL" /\ tick.copy.qty > 0]
    /\ UNCHANGED <<store, edits, crashes, word, heard>>

\* Mutant: the fill is put back without the position it led to.
RecordWithoutPosition(atLimit) ==
    LET row == [tick.copy EXCEPT !.atLimit = atLimit, !.ticks = @ + 1,
                    !.status = IF atLimit THEN "halted" ELSE @]
    IN
    /\ tick.stage = "filled" /\ (atLimit => tick.sold)
    /\ PutBack(row)
    /\ tick' = [stage |-> "notify", inst |-> tick.inst, copy |-> row, todo |-> tick.todo]
    /\ UNCHANGED <<edits, crashes, orders, taken, held>>
\* applyFill, the daily-loss auto-kill, and the put.  Selling what it had can
\* bring the day's loss to its limit.
Record(atLimit) ==
    LET row == [tick.copy EXCEPT !.qty = tick.qty, !.atLimit = atLimit, !.ticks = @ + 1,
                    !.status = IF atLimit THEN "halted" ELSE @]
    IN
    /\ tick.stage = "filled" /\ (atLimit => tick.sold)
    /\ PutBack(row)
    /\ tick' = [stage |-> "notify", inst |-> tick.inst, copy |-> row, todo |-> tick.todo]
    /\ UNCHANGED <<edits, crashes, orders, taken, held>>

\* Mutant: the catch puts back the status that listActive returned.
NotifyWithListedStatus ==
    /\ tick.stage = "notify"
    /\ \/ UNCHANGED store
       \/ Put(tick.inst, [tick.copy EXCEPT !.status = "armed"])
    /\ tick' = Loop
    /\ UNCHANGED <<edits, crashes, orders, taken, held, word, heard>>
\* notify; if it throws, runTick's catch puts the same copy back once more.
Notify ==
    /\ tick.stage = "notify"
    /\ \/ UNCHANGED store
       \/ Put(tick.inst, tick.copy)
    /\ tick' = Loop
    /\ UNCHANGED <<edits, crashes, orders, taken, held, word, heard>>

------------------------------------------------------------------------------
(* The users. *)

MayEdit == edits < MaxEdits

\* What they decide for some instances, and which of these a tick has copies of.
Copied == (IF tick = idle THEN {} ELSE DOMAIN tick.todo)
    \union (IF tick.stage \in {"signals", "filled", "notify"} THEN {tick.inst} ELSE {})
Decide(S, status) ==
    /\ word' = [i \in Insts |-> IF i \in S THEN status ELSE word[i]]
    /\ heard' = (heard \ S) \union (S \ Copied)

\* armStrategyInstance puts a new row, whatever was there.
Arm(i) ==
    /\ MayEdit /\ (Rearms \/ store[i] = absent)
    /\ Put(i, newArmed)
    /\ Decide({i}, "armed")
    /\ edits' = edits + 1
    /\ UNCHANGED <<tick, crashes, orders, taken, held>>

\* setStatus: the row as it is, with the status the user chose.
SetStatus(i, s) ==
    /\ MayEdit /\ store[i] # absent
    /\ Put(i, [store[i] EXCEPT !.status = s])
    /\ Decide({i}, s)
    /\ edits' = edits + 1
    /\ UNCHANGED <<tick, crashes, orders, taken, held>>

\* haltUserInstances, over all of the user's armed and paused rows.
HaltUser ==
    LET active == {i \in Insts : store[i].status \in {"armed", "paused"}} IN
    /\ MayEdit /\ active # {}
    /\ store' = [i \in Insts |-> IF i \in active THEN [store[i] EXCEPT !.status = "halted"]
                                                  ELSE store[i]]
    /\ Decide(active, "halted")
    /\ edits' = edits + 1
    /\ UNCHANGED <<tick, crashes, orders, taken, held>>

\* The rows survive, and so do the paper venue's orders.
Crash ==
    /\ crashes < MaxCrashes
    /\ crashes' = crashes + 1
    /\ tick' = idle
    /\ UNCHANGED <<store, edits, orders, taken, held, word, heard>>

Tick ==
    \/ StartTick \/ EndTick
    \/ \E i \in Insts : Evaluate(i)
    \/ NothingToDo \/ EvaluationThrows \/ RiskBlocks \/ OrderFails
    \/ \E side \in Sides, type \in Types, n \in 1 .. MaxQty : Execute(side, type, n)
    \/ \E atLimit \in BOOLEAN : Record(atLimit)
    \/ Notify
User ==
    \E i \in Insts :
        \/ Arm(i)
        \/ \E s \in {"paused", "armed", "stopped"} : SetStatus(i, s)

Next == Tick \/ User \/ HaltUser \/ Crash

\* The interval keeps firing and every call of a tick comes back.
Spec     == Init /\ [][Next]_vars
FairSpec == Spec /\ WF_vars(Tick)

------------------------------------------------------------------------------
\* The types of the rows and of the copies that will be put back; beyond the
\* threshold an instance is blocked at most once per user edit, for it pauses.
TypeOK ==
    /\ store \in [Insts -> Rows \union {absent}]
    /\ \A i \in Insts : store[i] # absent => store[i].blocks < BlockThreshold + edits
    /\ tick.stage \in {"idle", "loop", "signals", "filled", "notify"}
    /\ tick.stage \in {"signals", "filled", "notify"} =>
          tick.inst \in Insts /\ tick.copy \in Rows
    /\ word \in [Insts -> {"absent", "armed", "paused", "stopped", "halted"}]
    /\ heard \subseteq Insts

\* A status that was decided while no tick held a copy of the instance stays,
\* until the next decision: a tick, its failure path, and the edits of other
\* instances carry it along and never back to an earlier one.
StatusDecided == \A i \in heard : store[i].status = word[i]

\* "the existing `PUT /user/trading/kill-switch` also halts all the user's
\* armed instances" (strategy-engine-paper-design.md:169-170): what was halted
\* last, by it or by the engine, is halted.
HaltsHold == \A i \in Insts : word[i] = "halted" => store[i].status = "halted"

\* "identical retries of the SAME tick produce the SAME id (dedupe), while
\* distinct DCA tranches ... produce DIFFERENT ids" (idempotency.ts:7-9): no id
\* is taken twice.  (Until the process dies: a tick cut off between its fill
\* and its put comes back with the same tick_count.)
TranchesFillOnce == crashes = 0 => \A o \in OrderIds : orders[o] <= 1

\* The recorded position counts every order that the venue took, once, whatever
\* edits met the tick: it is behind between an order and its put, and only then
\* (a crash there leaves it behind).  Where every rule's orders are market
\* orders this is what was executed; an instance with limit orders also counts
\* those that were only opened, and its position may be one it never had.
PositionMatchesOrders ==
    crashes = 0 => \A i \in Insts : store[i] # absent =>
        \/ tick.stage = "filled" /\ tick.inst = i
        \/ /\ store[i].qty = taken[i]
           /\ i \notin LimitInsts => store[i].qty = held[i]

\* No instance starves: an armed, due instance is evaluated, or stops being
\* armed, whatever the others' evaluations throw.
DueInstancesEvaluated ==
    \A i \in Insts :
        Due(i) ~> (~Due(i) \/ (tick.stage = "signals" /\ tick.inst = i))
=============================================================================
