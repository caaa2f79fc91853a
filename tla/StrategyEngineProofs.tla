------------------------- MODULE StrategyEngineProofs -------------------------
(***************************************************************************)
(* Proofs about the strategy engine, for any instances, thresholds and     *)
(* bounds.                                                                 *)
(***************************************************************************)
EXTENDS StrategyEngine, TLAPS

Held    == tick.stage \in {"signals", "filled", "notify"}
Listing == Held \/ tick.stage = "loop"

\* What the next evaluation of a copy may add to its block count.
Roomy(x) == x.blocks + 1 < BlockThreshold + edits
Listed(x) == x.status = "armed" /\ x.ticks < MaxTicks /\ Roomy(x)

CountsOK ==
    /\ edits \in 0 .. MaxEdits /\ crashes \in Nat
    /\ orders \in [OrderIds -> Nat] /\ taken \in [Insts -> Nat] /\ held \in [Insts -> Nat]

\* The pass under way: the copies that are left, and the one in hand.
CopiesOK ==
    /\ Listing => /\ tick.todo \in [DOMAIN tick.todo -> Rows]
                  /\ DOMAIN tick.todo \subseteq Insts
                  /\ \A i \in DOMAIN tick.todo : Listed(tick.todo[i])
    /\ Held => tick.inst \notin DOMAIN tick.todo /\ Roomy(tick.copy)
    /\ tick.stage \in {"signals", "filled"} => Listed(tick.copy)
    /\ tick.stage = "filled" => tick.qty \in 0 .. MaxQty
    /\ Listing => edits >= 1

\* A row that is armed can be blocked once more.
RowsRoomy ==
    \A i \in Insts : store[i] # absent =>
        edits >= 1 /\ (store[i].status = "armed" => Roomy(store[i]))

TypeInv == TypeOK /\ CountsOK /\ CopiesOK /\ RowsRoomy

(***************************************************************************)
(* Types.                                                                  *)
(***************************************************************************)

LEMMA RowFields ==
    ASSUME NEW x \in Rows
    PROVE  /\ x.status \in {"armed", "paused", "stopped", "halted"}
           /\ x.qty \in 0 .. MaxQty /\ x.ticks \in 0 .. MaxTicks
           /\ x.blocks \in 0 .. BlockThreshold + MaxEdits - 1
           /\ x.atLimit \in BOOLEAN
           /\ x # absent
  BY DEF Rows, absent

\* The put at the end of an evaluation, and the loop going on.
LEMMA PutBackTypes ==
    ASSUME TypeInv, tick.stage \in {"signals", "notify"}, NEW row \in Rows,
           row.blocks < BlockThreshold + edits,
           row.status = "armed" => Roomy(row),
           store' = [store EXCEPT ![tick.inst] = row],
           word' \in [Insts -> {"absent", "armed", "paused", "stopped", "halted"}],
           heard' \subseteq Insts,
           tick' = Loop, UNCHANGED <<edits, crashes, orders, taken, held>>
    PROVE  TypeInv'
<1>1. /\ tick'.stage = "loop" /\ tick'.todo = tick.todo
      /\ tick.inst \in Insts /\ Listing
  BY DEF Loop, TypeInv, TypeOK, Listing, Held
<1>2. TypeOK'
  <2>1. store' \in [Insts -> Rows \union {absent}]
    BY DEF TypeInv, TypeOK
  <2>2. ASSUME NEW i \in Insts, store'[i] # absent PROVE store'[i].blocks < BlockThreshold + edits'
    BY <2>2, <1>1 DEF TypeInv, TypeOK
  <2> QED
    BY <1>1, <2>1, <2>2 DEF TypeInv, TypeOK
<1>3. CopiesOK' /\ CountsOK'
  BY <1>1 DEF TypeInv, CopiesOK, CountsOK, Listing, Held, Listed, Roomy
<1>4. RowsRoomy'
  BY <1>1 DEF TypeInv, TypeOK, CopiesOK, RowsRoomy, Roomy
<1> QED
  BY <1>2, <1>3, <1>4 DEF TypeInv

LEMMA InitTypeInv == Init => TypeInv
<1> SUFFICES ASSUME Init PROVE TypeInv
  OBVIOUS
<1> QED
  BY LimitAssumption, BoundAssumption
  DEF Init, TypeInv, TypeOK, CountsOK, CopiesOK, RowsRoomy, idle, Held, Listing

\* A tick that ends its evaluation without an order.
LEMMA EvaluatedRow ==
    ASSUME TypeInv, NothingToDo \/ EvaluationThrows \/ RiskBlocks \/ OrderFails
    PROVE  /\ tick.stage = "signals" /\ tick.copy \in Rows /\ tick.inst \in Insts
           /\ tick' = Loop /\ UNCHANGED <<edits, crashes, orders, taken, held>>
           /\ \E row \in Rows :
                 /\ PutBack(row)
                 /\ row.blocks < BlockThreshold + edits
                 /\ row.status = "armed" => Roomy(row)
                 /\ row.qty = tick.copy.qty
                 /\ row.ticks \in {tick.copy.ticks, tick.copy.ticks + 1}
<1> DEFINE c == tick.copy
<1>1. /\ tick.stage = "signals" /\ c \in Rows /\ Listed(c) /\ tick.inst \in Insts
      /\ edits \in Nat /\ edits <= MaxEdits /\ edits >= 1
      /\ BlockThreshold \in Nat \ {0} /\ MaxTicks \in Nat /\ MaxEdits \in Nat /\ MaxQty \in Nat
  BY LimitAssumption, BoundAssumption
  DEF NothingToDo, EvaluationThrows, RiskBlocks, OrderFails, TypeInv, TypeOK, CopiesOK,
      CountsOK, Listing, Held
<1>2. PICK row \in {[c EXCEPT !.ticks = @ + 1], c, [c EXCEPT !.blocks = 0],
                    [c EXCEPT !.ticks = @ + 1, !.blocks = @ + 1,
                              !.status = IF c.blocks + 1 >= BlockThreshold THEN "paused" ELSE @],
                    [c EXCEPT !.ticks = @ + 1, !.blocks = 0]} :
          PutBack(row) /\ tick' = Loop /\ UNCHANGED <<edits, crashes, orders, taken, held>>
  BY DEF NothingToDo, EvaluationThrows, RiskBlocks, OrderFails
<1>3. /\ row \in Rows
      /\ row.blocks < BlockThreshold + edits
      /\ row.status = "armed" => Roomy(row)
  <2>1. /\ c.ticks + 1 \in 0 .. MaxTicks /\ c.blocks + 1 < BlockThreshold + edits
        /\ c.blocks \in Nat /\ c.blocks + 1 \in 0 .. BlockThreshold + MaxEdits - 1
        /\ 0 \in 0 .. BlockThreshold + MaxEdits - 1
    BY <1>1 DEF Rows, Listed, Roomy
  <2>2. row \in Rows
    BY <1>1, <2>1 DEF Rows
  <2>3. \/ row.blocks \in {c.blocks, 0}
        \/ row.blocks = c.blocks + 1 /\ (row.status = "armed" => c.blocks + 1 < BlockThreshold)
    <3> DEFINE blocked == [c EXCEPT !.ticks = @ + 1, !.blocks = @ + 1,
                              !.status = IF c.blocks + 1 >= BlockThreshold THEN "paused" ELSE @]
    <3>1. CASE row = blocked
      BY <1>1, <2>1, <3>1 DEF Rows
    <3>2. CASE row # blocked
      BY <1>1, <3>2 DEF Rows
    <3> QED
      BY <3>1, <3>2
  <2> QED
    BY <1>1, <2>1, <2>2, <2>3 DEF Roomy
<1>4. row.qty = c.qty /\ row.ticks \in {c.ticks, c.ticks + 1}
  BY <1>1 DEF Rows
<1> QED
  BY <1>1, <1>2, <1>3, <1>4

LEMMA EvaluatedTypes ==
    ASSUME TypeInv, NothingToDo \/ EvaluationThrows \/ RiskBlocks \/ OrderFails
    PROVE  TypeInv'
<1>1. PICK row \in Rows :
          /\ PutBack(row)
          /\ row.blocks < BlockThreshold + edits
          /\ row.status = "armed" => Roomy(row)
  BY EvaluatedRow
<1>2. /\ tick.stage = "signals" /\ tick.inst \in Insts
      /\ tick' = Loop /\ UNCHANGED <<edits, crashes, orders, taken, held>>
  BY EvaluatedRow
<1>3. /\ word' \in [Insts -> {"absent", "armed", "paused", "stopped", "halted"}]
      /\ heard' \subseteq Insts
  BY <1>1, <1>2, RowFields DEF PutBack, TypeInv, TypeOK
<1> QED
  BY <1>1, <1>2, <1>3, PutBackTypes DEF PutBack, Put

\* What a recorded fill puts back.
LEMMA RecordedRow ==
    ASSUME TypeInv, tick.stage = "filled", NEW atLimit \in BOOLEAN
    PROVE  LET row == [tick.copy EXCEPT !.qty = tick.qty, !.atLimit = atLimit, !.ticks = @ + 1,
                            !.status = IF atLimit THEN "halted" ELSE @]
           IN  /\ row \in Rows /\ Roomy(row)
               /\ row.blocks < BlockThreshold + edits
               /\ row.qty = tick.qty /\ row.ticks = tick.copy.ticks + 1
<1> DEFINE row == [tick.copy EXCEPT !.qty = tick.qty, !.atLimit = atLimit, !.ticks = @ + 1,
                        !.status = IF atLimit THEN "halted" ELSE @]
<1>0. /\ BlockThreshold \in Nat \ {0} /\ MaxTicks \in Nat /\ MaxEdits \in Nat /\ MaxQty \in Nat
      /\ edits \in Nat
  BY LimitAssumption, BoundAssumption DEF TypeInv, CountsOK
<1>1. tick.copy \in Rows /\ Listed(tick.copy) /\ tick.qty \in 0 .. MaxQty
  BY DEF TypeInv, TypeOK, CopiesOK
<1>2. tick.copy.ticks + 1 \in 0 .. MaxTicks /\ tick.copy.blocks \in Nat
  BY <1>0, <1>1 DEF Rows, Listed
<1>3. /\ row \in Rows /\ row.blocks = tick.copy.blocks
      /\ row.qty = tick.qty /\ row.ticks = tick.copy.ticks + 1
  BY <1>1, <1>2 DEF Rows
<1>4. Roomy(row) /\ row.blocks < BlockThreshold + edits
  BY <1>0, <1>1, <1>2, <1>3 DEF Listed, Roomy
<1> QED
  BY <1>3, <1>4

LEMMA TickTypes ==
    ASSUME TypeInv, Tick
    PROVE  TypeInv'
<1>0. /\ BlockThreshold \in Nat \ {0} /\ MaxTicks \in Nat /\ MaxEdits \in Nat /\ MaxQty \in Nat
      /\ edits \in Nat
  BY LimitAssumption, BoundAssumption DEF TypeInv, CountsOK
<1>1. CASE StartTick
  <2>1. /\ tick'.stage = "loop"
        /\ tick'.todo = [i \in {j \in Insts : Due(j)} |-> store[i]]
    BY <1>1 DEF StartTick
  <2>2. \A i \in Insts : Due(i) => store[i] \in Rows /\ Listed(store[i]) /\ edits >= 1
    BY DEF Due, TypeInv, TypeOK, RowsRoomy, Listed, absent
  <2>3. \E i \in Insts : Due(i)
    BY <1>1 DEF StartTick
  <2>4. TypeOK' /\ CountsOK' /\ RowsRoomy'
    BY <1>1, <2>1 DEF StartTick, TypeInv, TypeOK, CountsOK, RowsRoomy, Roomy
  <2>5. CopiesOK'
    BY <1>1, <2>1, <2>2, <2>3 DEF StartTick, CopiesOK, Listing, Held, Listed, Roomy
  <2> QED
    BY <2>4, <2>5 DEF TypeInv
<1>2. CASE EndTick
  BY <1>2 DEF EndTick, idle, TypeInv, TypeOK, CountsOK, CopiesOK, RowsRoomy, Listing, Held, Roomy
<1>3. ASSUME NEW i \in Insts, Evaluate(i) PROVE TypeInv'
  <2>1. PICK newDay \in BOOLEAN :
            tick' = [stage |-> "signals", inst |-> i,
                     copy |-> [tick.todo[i] EXCEPT !.atLimit = @ /\ ~newDay],
                     todo |-> [j \in DOMAIN tick.todo \ {i} |-> tick.todo[j]]]
    BY <1>3 DEF Evaluate
  <2>2. tick.todo[i] \in Rows /\ Listed(tick.todo[i]) /\ Listing /\ i \in DOMAIN tick.todo
    BY <1>3 DEF Evaluate, TypeInv, CopiesOK, Listing
  <2>3. tick'.copy \in Rows /\ Listed(tick'.copy)
    <3>1. (tick.todo[i].atLimit /\ ~newDay) \in BOOLEAN
      OBVIOUS
    <3> QED
      BY <2>1, <2>2, <3>1 DEF Rows, Listed, Roomy
  <2>4. TypeOK' /\ CountsOK' /\ RowsRoomy'
    BY <1>3, <2>1, <2>3 DEF Evaluate, TypeInv, TypeOK, CountsOK, RowsRoomy, Roomy
  <2>5. CopiesOK'
    BY <1>3, <2>1, <2>2, <2>3 DEF Evaluate, TypeInv, CopiesOK, Listing, Held, Listed, Roomy
  <2> QED
    BY <2>4, <2>5 DEF TypeInv
<1>4. CASE NothingToDo \/ EvaluationThrows \/ RiskBlocks \/ OrderFails
  BY <1>4, EvaluatedTypes
<1>5. ASSUME NEW side \in Sides, NEW type \in Types, NEW n \in 1 .. MaxQty, Execute(side, type, n) PROVE TypeInv'
  <2>1. /\ tick.stage = "signals" /\ tick.copy \in Rows /\ Listed(tick.copy)
        /\ tick.inst \in Insts /\ Listing /\ Held
    BY <1>5 DEF Execute, TypeInv, TypeOK, CopiesOK, Listing, Held
  <2>2. /\ tick'.stage = "filled" /\ tick'.inst = tick.inst /\ tick'.todo = tick.todo
        /\ tick'.copy = [tick.copy EXCEPT !.blocks = 0]
        /\ tick'.qty = Booked(tick.copy.qty, side, n)
    BY <1>5 DEF Execute
  <2>3. tick'.copy \in Rows /\ Listed(tick'.copy) /\ tick'.qty \in 0 .. MaxQty
    BY <1>0, <1>5, <2>1, <2>2 DEF Rows, Listed, Roomy, Execute, Sides, Booked
  <2>4. CountsOK'
    <3>1. tick.copy.ticks \in 0 .. MaxTicks /\ <<tick.inst, side, tick.copy.ticks>> \in OrderIds
      BY <2>1 DEF Rows, OrderIds
    <3>2. orders' \in [OrderIds -> Nat]
      BY <1>5, <3>1 DEF Execute, TypeInv, CountsOK
    <3>3. taken' \in [Insts -> Nat] /\ held' \in [Insts -> Nat]
      <4>1. \A m \in Nat : Booked(m, side, n) \in Nat
        BY <1>0, <1>5 DEF Booked
      <4> QED
        BY <1>5, <2>1, <4>1 DEF Execute, TypeInv, CountsOK
    <3> QED
      BY <1>5, <3>2, <3>3 DEF Execute, TypeInv, CountsOK
  <2>5. TypeOK' /\ RowsRoomy'
    BY <1>5, <2>1, <2>2, <2>3 DEF Execute, TypeInv, TypeOK, RowsRoomy, Roomy
  <2>6. CopiesOK'
    BY <1>5, <2>1, <2>2, <2>3 DEF Execute, TypeInv, CopiesOK, Listing, Held, Listed, Roomy
  <2> QED
    BY <2>4, <2>5, <2>6 DEF TypeInv
<1>6. ASSUME NEW atLimit \in BOOLEAN, Record(atLimit) PROVE TypeInv'
  <2> DEFINE row == [tick.copy EXCEPT !.qty = tick.qty, !.atLimit = atLimit, !.ticks = @ + 1,
                        !.status = IF atLimit THEN "halted" ELSE @]
  <2>1. /\ tick.stage = "filled" /\ tick.copy \in Rows /\ Listed(tick.copy)
        /\ tick.inst \in Insts /\ tick.qty \in 0 .. MaxQty /\ Listing /\ Held
    BY <1>6 DEF Record, TypeInv, TypeOK, CopiesOK, Listing, Held
  <2>2. /\ row \in Rows /\ Roomy(row)
        /\ row.blocks < BlockThreshold + edits
    BY <2>1, RecordedRow
  <2>3. /\ tick' = [stage |-> "notify", inst |-> tick.inst, copy |-> row, todo |-> tick.todo]
        /\ store' = [store EXCEPT ![tick.inst] = row]
        /\ UNCHANGED <<edits, crashes, orders, taken, held>>
    BY <1>6 DEF Record, PutBack, Put
  <2>4. /\ word' \in [Insts -> {"absent", "armed", "paused", "stopped", "halted"}]
        /\ heard' \subseteq Insts
    BY <1>6, <2>1, <2>2, RowFields DEF Record, PutBack, TypeInv, TypeOK
  <2>5. TypeOK'
    <3>1. store' \in [Insts -> Rows \union {absent}]
      BY <2>2, <2>3 DEF TypeInv, TypeOK
    <3>2. ASSUME NEW i \in Insts, store'[i] # absent PROVE store'[i].blocks < BlockThreshold + edits'
      BY <3>2, <2>1, <2>2, <2>3 DEF TypeInv, TypeOK
    <3> QED
      BY <2>1, <2>2, <2>3, <2>4, <3>1, <3>2 DEF TypeOK
  <2>6. CopiesOK' /\ CountsOK'
    BY <2>1, <2>2, <2>3 DEF TypeInv, CopiesOK, CountsOK, Listing, Held, Listed, Roomy
  <2>7. RowsRoomy'
    BY <2>1, <2>2, <2>3 DEF TypeInv, TypeOK, CopiesOK, RowsRoomy, Roomy
  <2> QED
    BY <2>5, <2>6, <2>7 DEF TypeInv
<1>7. CASE Notify
  <2>1. /\ tick.stage = "notify" /\ tick.copy \in Rows /\ tick.inst \in Insts
        /\ Roomy(tick.copy) /\ tick.copy.blocks < BlockThreshold + edits
    BY <1>0, <1>7 DEF Notify, TypeInv, TypeOK, CopiesOK, Held, Roomy, Rows
  <2>2. CASE store' = [store EXCEPT ![tick.inst] = tick.copy]
    BY <1>7, <2>1, <2>2, PutBackTypes DEF Notify, TypeInv, TypeOK
  <2>3. CASE UNCHANGED store
    BY <1>7, <2>1, <2>3
    DEF Notify, Loop, TypeInv, TypeOK, CountsOK, CopiesOK, RowsRoomy, Listing, Held, Listed, Roomy
  <2> QED
    BY <1>7, <2>2, <2>3 DEF Notify, Put
<1> QED
  BY <1>1, <1>2, <1>3, <1>4, <1>5, <1>6, <1>7 DEF Tick

\* A user's decision for the rows of S: copies stay what they were.
LEMMA UserTypes ==
    ASSUME TypeInv, User \/ HaltUser \/ Crash
    PROVE  TypeInv'
<1>0. /\ BlockThreshold \in Nat \ {0} /\ MaxTicks \in Nat /\ MaxEdits \in Nat /\ MaxQty \in Nat
      /\ edits \in Nat
  BY LimitAssumption, BoundAssumption DEF TypeInv, CountsOK
<1>1. ASSUME NEW S \in SUBSET Insts, NEW s \in {"armed", "paused", "stopped", "halted"},
             MayEdit, edits' = edits + 1, UNCHANGED <<tick, crashes, orders, taken, held>>,
             Decide(S, s), store' \in [Insts -> Rows \union {absent}],
             \A i \in Insts : store'[i] # absent =>
                 /\ store'[i].blocks < BlockThreshold + edits
                 /\ i \notin S => store'[i] = store[i]
      PROVE  TypeInv'
  <2>1. word' \in [Insts -> {"absent", "armed", "paused", "stopped", "halted"}] /\ heard' \subseteq Insts
    BY <1>1 DEF Decide, TypeInv, TypeOK
  <2>2. TypeOK'
    BY <1>0, <1>1, <2>1 DEF TypeInv, TypeOK, RowsRoomy, Rows
  <2>3. CountsOK' /\ CopiesOK'
    <3>1. \A x \in Rows : Roomy(x) => x.blocks + 1 < BlockThreshold + edits'
      BY <1>0, <1>1 DEF Roomy, Rows
    <3>2. tick.stage \in {"signals", "filled", "notify"} => tick.copy \in Rows
      BY DEF TypeInv, TypeOK
    <3>3. CountsOK'
      BY <1>0, <1>1 DEF TypeInv, CountsOK, MayEdit
    <3> QED
      BY <1>0, <1>1, <3>1, <3>2, <3>3 DEF TypeInv, CopiesOK, Listing, Held, Listed, Roomy
  <2>4. RowsRoomy'
    BY <1>0, <1>1 DEF TypeInv, TypeOK, RowsRoomy, Roomy, Rows
  <2> QED
    BY <2>2, <2>3, <2>4 DEF TypeInv
<1>2. ASSUME NEW i \in Insts, Arm(i) PROVE TypeInv'
  <2>1. newArmed \in Rows /\ newArmed.blocks = 0
    BY <1>0 DEF newArmed, Rows
  <2>2. \A j \in Insts : j # i => store'[j] = store[j] 
    BY <1>2 DEF Arm, Put, TypeInv, TypeOK
  <2>3. store' \in [Insts -> Rows \union {absent}] /\ store'[i] = newArmed
    BY <1>2, <2>1 DEF Arm, Put, TypeInv, TypeOK
  <2>4. \A j \in Insts : store'[j] # absent =>
            store'[j].blocks < BlockThreshold + edits /\ (j \notin {i} => store'[j] = store[j])
    BY <1>0, <2>1, <2>2, <2>3 DEF TypeInv, TypeOK
  <2> QED
    BY <1>1, <1>2, <2>3, <2>4 DEF Arm
<1>3. ASSUME NEW i \in Insts, NEW s \in {"paused", "armed", "stopped"}, SetStatus(i, s) PROVE TypeInv'
  <2>1. store[i] \in Rows /\ store'[i] = [store[i] EXCEPT !.status = s]
    BY <1>3 DEF SetStatus, Put, TypeInv, TypeOK
  <2>2. store'[i] \in Rows /\ store'[i].blocks = store[i].blocks
    BY <2>1 DEF Rows
  <2>3. \A j \in Insts : j # i => store'[j] = store[j]
    BY <1>3 DEF SetStatus, Put, TypeInv, TypeOK
  <2>4. store' \in [Insts -> Rows \union {absent}]
    BY <1>3, <2>2 DEF SetStatus, Put, TypeInv, TypeOK
  <2>5. \A j \in Insts : store'[j] # absent =>
            store'[j].blocks < BlockThreshold + edits /\ (j \notin {i} => store'[j] = store[j])
    BY <1>0, <1>3, <2>2, <2>3 DEF SetStatus, TypeInv, TypeOK
  <2> QED
    BY <1>1, <1>3, <2>4, <2>5 DEF SetStatus
<1>4. CASE HaltUser
  <2> DEFINE S == {i \in Insts : store[i].status \in {"armed", "paused"}}
  <2>1. \A i \in S : store[i] \in Rows
    BY DEF TypeInv, TypeOK, absent
  <2>2. \A i \in Insts : store'[i] = IF i \in S THEN [store[i] EXCEPT !.status = "halted"] ELSE store[i]
    BY <1>4 DEF HaltUser
  <2>3. \A i \in S : store'[i] \in Rows /\ store'[i].blocks = store[i].blocks /\ store[i] # absent
    <3> TAKE i \in S
    <3>1. store[i] \in Rows /\ i \in Insts /\ store'[i] = [store[i] EXCEPT !.status = "halted"]
      BY <2>1, <2>2
    <3>2. store'[i] \in Rows /\ store'[i].blocks = store[i].blocks
      BY <3>1 DEF Rows
    <3> QED
      BY <3>1, <3>2, RowFields
  <2>4. store' \in [Insts -> Rows \union {absent}]
    BY <1>4, <2>2, <2>3 DEF HaltUser, TypeInv, TypeOK
  <2>5. \A i \in Insts : store'[i] # absent =>
            store'[i].blocks < BlockThreshold + edits /\ (i \notin S => store'[i] = store[i])
    BY <2>2, <2>3 DEF TypeInv, TypeOK
  <2> QED
    BY <1>1, <1>4, <2>4, <2>5 DEF HaltUser
<1>5. CASE Crash
  BY <1>5 DEF Crash, idle, TypeInv, TypeOK, CountsOK, CopiesOK, RowsRoomy, Listing, Held, Roomy
<1> QED
  BY <1>2, <1>3, <1>4, <1>5 DEF User

LEMMA NextTypeInv == TypeInv /\ [Next]_vars => TypeInv'
<1>1. ASSUME TypeInv, UNCHANGED vars PROVE TypeInv'
  BY <1>1
  DEF vars, TypeInv, TypeOK, CountsOK, CopiesOK, RowsRoomy, Listing, Held, Listed, Roomy
<1> QED
  BY <1>1, TickTypes, UserTypes DEF Next

LEMMA TypeInvariant == Spec => []TypeInv
  BY InitTypeInv, NextTypeInv, PTL DEF Spec

\* Type correctness, and what it rests on: however users resume an instance, its
\* blocks stay within the threshold and one for each edit.
THEOREM EngineTypes == Spec => []TypeOK
<1>1. TypeInv => TypeOK
  BY DEF TypeInv
<1> QED
  BY <1>1, TypeInvariant, PTL

(***************************************************************************)
(* Statuses.                                                               *)
(***************************************************************************)

\* A copy of an instance that was decided on between ticks carries the decision.
CopiesHeard ==
    \A i \in heard :
        /\ Listing /\ i \in DOMAIN tick.todo => tick.todo[i].status = word[i]
        /\ Held /\ tick.inst = i => tick.copy.status = word[i]
StatusInv == StatusDecided /\ CopiesHeard

\* An evaluation's put, after which the copy in hand, if there is one, is the row.
LEMMA PutBackStatus ==
    ASSUME TypeInv, StatusInv, Held, NEW row \in Rows, PutBack(row),
           \/ tick' = Loop
           \/ tick' = [stage |-> "notify", inst |-> tick.inst, copy |-> row, todo |-> tick.todo]
    PROVE  StatusInv'
<1>1. /\ tick'.stage \in {"loop", "notify"} /\ tick'.todo = tick.todo
      /\ tick'.stage = "notify" => tick'.inst = tick.inst /\ tick'.copy = row
  BY DEF Loop
<1>2. tick.inst \in Insts /\ tick.inst \notin DOMAIN tick.todo
  BY DEF TypeInv, TypeOK, CopiesOK, Held
<1>3. store' = [store EXCEPT ![tick.inst] = row]
  BY DEF PutBack, Put
<1>4. CASE row.status = tick.copy.status
  BY <1>1, <1>2, <1>3, <1>4
  DEF PutBack, TypeInv, TypeOK, StatusInv, StatusDecided, CopiesHeard, Listing, Held
<1>5. CASE row.status # tick.copy.status
  <2>1. word' = [word EXCEPT ![tick.inst] = row.status] /\ heard' = heard \union {tick.inst}
    BY <1>5 DEF PutBack
  <2> QED
    BY <1>1, <1>2, <1>3, <2>1
    DEF TypeInv, TypeOK, StatusInv, StatusDecided, CopiesHeard, Listing, Held
<1> QED
  BY <1>4, <1>5

LEMMA TickStatus ==
    ASSUME TypeInv, StatusInv, Tick
    PROVE  StatusInv'
<1>1. CASE StartTick
  <2>1. /\ tick'.stage = "loop" /\ UNCHANGED <<store, word, heard>>
        /\ tick'.todo = [i \in {j \in Insts : Due(j)} |-> store[i]]
    BY <1>1 DEF StartTick
  <2> QED
    BY <2>1 DEF TypeInv, TypeOK, StatusInv, StatusDecided, CopiesHeard, Listing, Held
<1>2. CASE EndTick
  BY <1>2 DEF EndTick, idle, StatusInv, StatusDecided, CopiesHeard, Listing, Held
<1>3. ASSUME NEW i \in Insts, Evaluate(i) PROVE StatusInv'
  <2>1. PICK newDay \in BOOLEAN :
            tick' = [stage |-> "signals", inst |-> i,
                     copy |-> [tick.todo[i] EXCEPT !.atLimit = @ /\ ~newDay],
                     todo |-> [j \in DOMAIN tick.todo \ {i} |-> tick.todo[j]]]
    BY <1>3 DEF Evaluate
  <2>2. tick.todo[i] \in Rows /\ Listing /\ i \in DOMAIN tick.todo
    BY <1>3 DEF Evaluate, TypeInv, CopiesOK, Listing
  <2>3. /\ tick'.stage = "signals" /\ tick'.inst = i /\ tick'.copy.status = tick.todo[i].status
        /\ tick'.todo = [j \in DOMAIN tick.todo \ {i} |-> tick.todo[j]]
    BY <2>1, <2>2 DEF Rows
  <2> QED
    BY <1>3, <2>2, <2>3 DEF Evaluate, StatusInv, StatusDecided, CopiesHeard, Listing, Held
<1>4. CASE NothingToDo \/ EvaluationThrows \/ RiskBlocks \/ OrderFails
  <2>1. PICK row \in Rows : PutBack(row)
    BY <1>4, EvaluatedRow
  <2>2. Held /\ tick' = Loop
    BY <1>4, EvaluatedRow DEF Held
  <2> QED
    BY <2>1, <2>2, PutBackStatus
<1>5. ASSUME NEW side \in Sides, NEW type \in Types, NEW n \in 1 .. MaxQty, Execute(side, type, n) PROVE StatusInv'
  <2>1. /\ tick.stage = "signals" /\ tick.copy \in Rows
        /\ tick'.stage = "filled" /\ tick'.inst = tick.inst /\ tick'.todo = tick.todo
        /\ tick'.copy = [tick.copy EXCEPT !.blocks = 0]
    BY <1>5 DEF Execute, TypeInv, TypeOK
  <2>2. tick'.copy.status = tick.copy.status
    BY <2>1 DEF Rows
  <2> QED
    BY <1>5, <2>1, <2>2 DEF Execute, StatusInv, StatusDecided, CopiesHeard, Listing, Held
<1>6. ASSUME NEW atLimit \in BOOLEAN, Record(atLimit) PROVE StatusInv'
  <2> DEFINE row == [tick.copy EXCEPT !.qty = tick.qty, !.atLimit = atLimit, !.ticks = @ + 1,
                        !.status = IF atLimit THEN "halted" ELSE @]
  <2>1. PutBack(row) /\ tick' = [stage |-> "notify", inst |-> tick.inst, copy |-> row, todo |-> tick.todo]
    BY <1>6 DEF Record
  <2>2. row \in Rows /\ Held
    BY <1>6, RecordedRow DEF Record, Held
  <2> QED
    BY <2>1, <2>2, PutBackStatus
<1>7. CASE Notify
  <2>1. /\ tick.stage = "notify" /\ tick.copy \in Rows /\ tick.inst \in Insts
        /\ tick'.stage = "loop" /\ tick'.todo = tick.todo /\ UNCHANGED <<word, heard>>
        /\ store' \in {store, [store EXCEPT ![tick.inst] = tick.copy]}
    BY <1>7 DEF Notify, Put, Loop, TypeInv, TypeOK
  <2>2. \A i \in heard : store'[i].status = word[i]
    BY <2>1 DEF TypeInv, TypeOK, StatusInv, StatusDecided, CopiesHeard, Held
  <2> QED
    BY <2>1, <2>2 DEF StatusInv, StatusDecided, CopiesHeard, Listing, Held
<1> QED
  BY <1>1, <1>2, <1>3, <1>4, <1>5, <1>6, <1>7 DEF Tick

\* A decision is not in any copy, unless a tick holds one of the instance.
LEMMA DecideStatus ==
    ASSUME TypeInv, StatusInv, NEW S \in SUBSET Insts, NEW s, Decide(S, s), UNCHANGED tick,
           \A i \in Insts : IF i \in S THEN store'[i].status = s
                                        ELSE store'[i].status = store[i].status
    PROVE  StatusInv'
<1>1. \A i \in Insts : word'[i] = IF i \in S THEN s ELSE word[i]
  BY DEF Decide
<1>2. heard' = (heard \ S) \union (S \ Copied) /\ heard \subseteq Insts
  BY DEF Decide, TypeInv, TypeOK
<1>3. ASSUME NEW i \in S \ Copied
      PROVE  ~(Listing /\ i \in DOMAIN tick.todo) /\ ~(Held /\ tick.inst = i)
  <2>1. Listing => tick # idle
    BY DEF Listing, Held, idle
  <2> QED
    BY <1>3, <2>1 DEF Copied, Held
<1> QED
  BY <1>1, <1>2, <1>3 DEF StatusInv, StatusDecided, CopiesHeard, Listing, Held

LEMMA UserStatus ==
    ASSUME TypeInv, StatusInv, User \/ HaltUser \/ Crash
    PROVE  StatusInv'
<1>1. ASSUME NEW i \in Insts, Arm(i) PROVE StatusInv'
  <2>1. \A j \in Insts : IF j \in {i} THEN store'[j].status = "armed"
                                      ELSE store'[j].status = store[j].status
    BY <1>1 DEF Arm, Put, newArmed, TypeInv, TypeOK
  <2> QED
    BY <1>1, <2>1, DecideStatus DEF Arm
<1>2. ASSUME NEW i \in Insts, NEW s \in {"paused", "armed", "stopped"}, SetStatus(i, s) PROVE StatusInv'
  <2>1. store[i] \in Rows /\ store' = [store EXCEPT ![i] = [store[i] EXCEPT !.status = s]]
    BY <1>2 DEF SetStatus, Put, TypeInv, TypeOK
  <2>2. [store[i] EXCEPT !.status = s].status = s
    BY <2>1 DEF Rows
  <2>3. \A j \in Insts : IF j \in {i} THEN store'[j].status = s
                                      ELSE store'[j].status = store[j].status
    BY <2>1, <2>2 DEF TypeInv, TypeOK
  <2> QED
    BY <1>2, <2>3, DecideStatus DEF SetStatus
<1>3. CASE HaltUser
  <2> DEFINE S == {i \in Insts : store[i].status \in {"armed", "paused"}}
  <2>1. \A i \in S : store[i] \in Rows
    BY DEF TypeInv, TypeOK, absent
  <2>2. \A i \in S : [store[i] EXCEPT !.status = "halted"].status = "halted"
    BY <2>1 DEF Rows
  <2>3. \A i \in Insts : IF i \in S THEN store'[i].status = "halted"
                                    ELSE store'[i].status = store[i].status
    BY <1>3, <2>2 DEF HaltUser
  <2> QED
    BY <1>3, <2>3, DecideStatus DEF HaltUser
<1>4. CASE Crash
  BY <1>4 DEF Crash, idle, StatusInv, StatusDecided, CopiesHeard, Listing, Held
<1> QED
  BY <1>1, <1>2, <1>3, <1>4 DEF User

\* A status decided while no tick holds a copy of the instance stays until the
\* next decision, whatever ticks, failures, users and crashes come together.  A
\* decision that meets a tick's copy is outside it: the put undoes it (HaltsHold).
THEOREM StatusesDecided == Spec => []StatusDecided
<1>1. Init => StatusInv
  BY DEF Init, absent, idle, StatusInv, StatusDecided, CopiesHeard, Listing, Held
<1>2. TypeInv /\ StatusInv /\ [Next]_vars => StatusInv'
  <2>1. ASSUME StatusInv, UNCHANGED vars PROVE StatusInv'
    BY <2>1 DEF vars, StatusInv, StatusDecided, CopiesHeard, Listing, Held
  <2> QED
    BY <2>1, TickStatus, UserStatus DEF Next
<1>3. StatusInv => StatusDecided
  BY DEF StatusInv
<1> QED
  BY <1>1, <1>2, <1>3, TypeInvariant, PTL DEF Spec

(***************************************************************************)
(* Fills, where instances are armed once.  A crash between a fill and its  *)
(* put brings the tick count back, once.                                   *)
(***************************************************************************)

\* No order of instance i was taken more often than the process died under a
\* tick count of n or more: not at all, as long as it lives.
Unfilled(i, n) == \A side \in Sides, m \in n .. MaxTicks : orders[<<i, side, m>>] <= crashes

\* The position is that of the orders the venue took, and where none is a limit
\* order of those it executed, as long as the process lives.
Holds(i, n) == crashes = 0 => taken[i] = n /\ (i \notin LimitInsts => held[i] = n)

Behind(i) == tick.stage = "filled" /\ tick.inst = i

\* A copy of the row of i that has its position and its tick count.
Current(x, i) == store[i] # absent /\ x.qty = store[i].qty /\ x.ticks = store[i].ticks

RowsFilled == \A i \in Insts :
    /\ store[i] = absent => Holds(i, 0) /\ Unfilled(i, 0)
    /\ store[i] # absent /\ ~Behind(i) => Holds(i, store[i].qty) /\ Unfilled(i, store[i].ticks)
CopiesCurrent ==
    /\ Listing => \A i \in DOMAIN tick.todo : Current(tick.todo[i], i)
    /\ Held => Current(tick.copy, tick.inst)
FillInHand ==
    tick.stage = "filled" => Holds(tick.inst, tick.qty) /\ Unfilled(tick.inst, tick.copy.ticks + 1)
FilledOnce == \A o \in OrderIds : orders[o] <= crashes + 1

Fills == RowsFilled /\ CopiesCurrent /\ FillInHand /\ FilledOnce

\* A put of the row in hand, with the position that is held.
LEMMA PutBackFills ==
    ASSUME TypeInv, Fills, Held, NEW row \in Rows,
           store' = [store EXCEPT ![tick.inst] = row],
           Holds(tick.inst, row.qty), Unfilled(tick.inst, row.ticks),
           row.ticks \in 0 .. MaxTicks,
           UNCHANGED <<orders, taken, held, crashes>>,
           \/ tick' = Loop
           \/ tick' = [stage |-> "notify", inst |-> tick.inst, copy |-> row, todo |-> tick.todo]
    PROVE  Fills'
<1>1. /\ tick'.stage \in {"loop", "notify"} /\ tick'.todo = tick.todo
      /\ tick'.stage = "notify" => tick'.inst = tick.inst /\ tick'.copy = row
  BY DEF Loop
<1>2. tick.inst \in Insts /\ tick.inst \notin DOMAIN tick.todo /\ row # absent
  BY RowFields DEF TypeInv, TypeOK, CopiesOK, Held
<1>3. \A i \in Insts : store'[i] = IF i = tick.inst THEN row ELSE store[i]
  BY DEF TypeInv, TypeOK
<1>4. \A i \in Insts : \A n : Unfilled(i, n)' <=> Unfilled(i, n)
  BY DEF Unfilled
<1>5. RowsFilled'
  BY <1>1, <1>2, <1>3 DEF Fills, RowsFilled, Behind, Unfilled, Holds
<1>6. CopiesCurrent'
  BY <1>1, <1>2, <1>3 DEF Fills, CopiesCurrent, Current, TypeInv, CopiesOK, Listing, Held
<1> QED
  BY <1>1, <1>5, <1>6 DEF Fills, FillInHand, FilledOnce

LEMMA TickFills ==
    ASSUME TypeInv, Fills, Tick
    PROVE  Fills'
<1>0. MaxTicks \in Nat /\ MaxQty \in Nat
  BY BoundAssumption
<1>1. CASE StartTick
  <2>1. /\ tick'.stage = "loop" /\ UNCHANGED <<store, orders, taken, held, crashes>> /\ tick.stage = "idle"
        /\ tick'.todo = [i \in {j \in Insts : Due(j)} |-> store[i]]
    BY <1>1 DEF StartTick, idle
  <2>2. \A i \in Insts : Due(i) => store[i] # absent
    BY DEF Due, absent
  <2>3. CopiesCurrent'
    BY <2>1, <2>2 DEF CopiesCurrent, Current, Listing, Held
  <2> QED
    BY <2>1, <2>3 DEF Fills, RowsFilled, FillInHand, FilledOnce, Behind, Unfilled, Holds
<1>2. CASE EndTick
  BY <1>2
  DEF EndTick, idle, Fills, RowsFilled, CopiesCurrent, FillInHand, FilledOnce, Behind, Unfilled, Holds,
      Listing, Held
<1>3. ASSUME NEW i \in Insts, Evaluate(i) PROVE Fills'
  <2>1. PICK newDay \in BOOLEAN :
            tick' = [stage |-> "signals", inst |-> i,
                     copy |-> [tick.todo[i] EXCEPT !.atLimit = @ /\ ~newDay],
                     todo |-> [j \in DOMAIN tick.todo \ {i} |-> tick.todo[j]]]
    BY <1>3 DEF Evaluate
  <2>2. tick.todo[i] \in Rows /\ Listing /\ i \in DOMAIN tick.todo /\ tick.stage = "loop"
    BY <1>3 DEF Evaluate, TypeInv, CopiesOK, Listing
  <2>3. /\ tick'.stage = "signals" /\ tick'.inst = i
        /\ tick'.copy.qty = tick.todo[i].qty /\ tick'.copy.ticks = tick.todo[i].ticks
        /\ tick'.todo = [j \in DOMAIN tick.todo \ {i} |-> tick.todo[j]]
    BY <2>1, <2>2 DEF Rows
  <2>4. UNCHANGED <<store, orders, taken, held, crashes>>
    BY <1>3 DEF Evaluate
  <2>5. CopiesCurrent'
    BY <2>2, <2>3, <2>4 DEF Fills, CopiesCurrent, Current, Listing, Held
  <2> QED
    BY <2>2, <2>3, <2>4, <2>5 DEF Fills, RowsFilled, FillInHand, FilledOnce, Behind, Unfilled, Holds
<1>4. CASE NothingToDo \/ EvaluationThrows \/ RiskBlocks \/ OrderFails
  <2>1. PICK row \in Rows : /\ PutBack(row) /\ row.qty = tick.copy.qty
                            /\ row.ticks \in {tick.copy.ticks, tick.copy.ticks + 1}
    BY <1>4, EvaluatedRow
  <2>2. /\ tick.stage = "signals" /\ tick.inst \in Insts /\ tick.copy \in Rows
        /\ tick' = Loop /\ UNCHANGED <<orders, taken, held, crashes>> /\ Held
    BY <1>4, EvaluatedRow DEF Held
  <2>3. /\ Holds(tick.inst, tick.copy.qty) /\ Unfilled(tick.inst, tick.copy.ticks)
    BY <2>2 DEF Fills, RowsFilled, CopiesCurrent, Current, Behind
  <2>4. row.ticks \in 0 .. MaxTicks /\ tick.copy.ticks \in 0 .. MaxTicks
    BY <2>2 DEF Rows
  <2>5. Unfilled(tick.inst, row.ticks)
    BY <1>0, <2>1, <2>3, <2>4 DEF Unfilled
  <2> QED
    BY <2>1, <2>2, <2>3, <2>4, <2>5, PutBackFills DEF PutBack, Put
<1>5. ASSUME NEW side \in Sides, NEW type \in Types, NEW n \in 1 .. MaxQty, Execute(side, type, n) PROVE Fills'
  <2> DEFINE i == tick.inst
             k == tick.copy.ticks
             o == <<i, side, k>>
  <2>1. /\ tick.stage = "signals" /\ tick.copy \in Rows /\ i \in Insts /\ Held /\ Listing
        /\ orders \in [OrderIds -> Nat]
        /\ taken \in [Insts -> Nat] /\ held \in [Insts -> Nat]
    BY <1>5 DEF Execute, TypeInv, TypeOK, CountsOK, Held, Listing
  <2>2. /\ tick'.stage = "filled" /\ tick'.inst = i /\ tick'.todo = tick.todo
        /\ tick'.copy = [tick.copy EXCEPT !.blocks = 0]
        /\ tick'.qty = Booked(tick.copy.qty, side, n)
        /\ store' = store
    BY <1>5 DEF Execute
  <2>3. tick'.copy.ticks = k /\ tick'.copy.qty = tick.copy.qty /\ k \in 0 .. MaxTicks
    BY <2>1, <2>2 DEF Rows
  <2>4. Holds(i, tick.copy.qty) /\ Unfilled(i, k)
    BY <2>1 DEF Fills, RowsFilled, CopiesCurrent, Current, Behind
  <2>5. /\ o \in OrderIds /\ orders[o] <= crashes /\ crashes' = crashes /\ crashes \in Nat
        /\ orders' = [orders EXCEPT ![o] = @ + 1]
    <3>1. o \in OrderIds /\ orders[o] <= crashes
      BY <1>0, <2>1, <2>3, <2>4 DEF OrderIds, Unfilled
    <3> QED
      BY <1>5, <3>1, <2>1 DEF Execute, TypeInv, CountsOK
  <2>6. /\ crashes = 0 => taken'[i] = tick'.qty /\ (i \notin LimitInsts => held'[i] = tick'.qty)
        /\ \A j \in Insts : j # i => taken'[j] = taken[j] /\ held'[j] = held[j]
    BY <1>5, <2>1, <2>2, <2>4 DEF Execute, Types, Holds
  <2>7. ASSUME NEW j \in Insts, j # i, NEW m, Unfilled(j, m)
        PROVE  Unfilled(j, m)'
    BY <2>1, <2>5, <2>7 DEF Unfilled
  <2>8. RowsFilled'
    BY <2>1, <2>2, <2>5, <2>6, <2>7 DEF Fills, RowsFilled, CopiesCurrent, Current, Behind, Unfilled, Holds
  <2>9. CopiesCurrent'
    BY <2>1, <2>2, <2>3 DEF Fills, CopiesCurrent, Current, Listing, Held
  <2>10. FillInHand'
    BY <1>0, <2>1, <2>2, <2>3, <2>4, <2>5, <2>6 DEF FillInHand, Unfilled, Holds
  <2>11. FilledOnce'
    BY <2>1, <2>5 DEF Fills, FilledOnce
  <2> QED
    BY <2>8, <2>9, <2>10, <2>11 DEF Fills
<1>6. ASSUME NEW atLimit \in BOOLEAN, Record(atLimit) PROVE Fills'
  <2> DEFINE row == [tick.copy EXCEPT !.qty = tick.qty, !.atLimit = atLimit, !.ticks = @ + 1,
                        !.status = IF atLimit THEN "halted" ELSE @]
  <2>1. /\ PutBack(row) /\ tick.stage = "filled" /\ Held
        /\ tick' = [stage |-> "notify", inst |-> tick.inst, copy |-> row, todo |-> tick.todo]
        /\ UNCHANGED <<orders, taken, held, crashes>>
    BY <1>6 DEF Record, Held
  <2>2. row \in Rows /\ row.qty = tick.qty /\ row.ticks = tick.copy.ticks + 1
    BY <2>1, RecordedRow
  <2>3. Holds(tick.inst, row.qty) /\ Unfilled(tick.inst, row.ticks)
    BY <2>1, <2>2 DEF Fills, FillInHand
  <2> QED
    BY <2>1, <2>2, <2>3, RowFields, PutBackFills DEF PutBack, Put
<1>7. CASE Notify
  <2>1. /\ tick.stage = "notify" /\ tick.copy \in Rows /\ tick.inst \in Insts /\ Held
        /\ tick' = Loop /\ UNCHANGED <<orders, taken, held, crashes>>
    BY <1>7 DEF Notify, TypeInv, TypeOK, Held
  <2>2. CASE store' = [store EXCEPT ![tick.inst] = tick.copy]
    <3>1. Holds(tick.inst, tick.copy.qty) /\ Unfilled(tick.inst, tick.copy.ticks)
      BY <2>1 DEF Fills, RowsFilled, CopiesCurrent, Current, Behind
    <3> QED
      BY <2>1, <2>2, <3>1, RowFields, PutBackFills
  <2>3. CASE UNCHANGED store
    BY <2>1, <2>3
    DEF Loop, Fills, RowsFilled, CopiesCurrent, Current, FillInHand, FilledOnce, Behind, Unfilled, Holds,
        Listing, Held
  <2> QED
    BY <1>7, <2>2, <2>3 DEF Notify, Put
<1> QED
  BY <1>1, <1>2, <1>3, <1>4, <1>5, <1>6, <1>7 DEF Tick

\* A user's edit keeps position and tick count, or arms for the first time.
LEMMA EditFills ==
    ASSUME TypeInv, Fills, UNCHANGED <<tick, orders, taken, held, crashes>>,
           \A i \in Insts :
               \/ store'[i] = store[i]
               \/ store[i] # absent /\ store'[i] # absent
                     /\ store'[i].qty = store[i].qty /\ store'[i].ticks = store[i].ticks
               \/ store[i] = absent /\ store'[i] = newArmed
    PROVE  Fills'
<1>1. \A i \in Insts : \A x : Current(x, i) => Current(x, i)'
  BY DEF Current
<1>2. CopiesCurrent'
  BY <1>1 DEF Fills, CopiesCurrent, Listing, Held, TypeInv, TypeOK, CopiesOK
<1>3. \A i \in Insts : store[i] = absent => ~Behind(i)
  BY DEF Fills, CopiesCurrent, Current, Behind, Held
<1>4. newArmed.qty = 0 /\ newArmed.ticks = 0 /\ newArmed # absent
  BY DEF newArmed, absent
<1>5. RowsFilled'
  BY <1>3, <1>4 DEF Fills, RowsFilled, Behind, Unfilled, Holds
<1> QED
  BY <1>2, <1>5 DEF Fills, FillInHand, FilledOnce, Unfilled, Holds

LEMMA UserFills ==
    ASSUME ~Rearms, TypeInv, Fills, User \/ HaltUser
    PROVE  Fills'
<1>1. ASSUME NEW i \in Insts, Arm(i) PROVE Fills'
  BY <1>1, EditFills DEF Arm, Put, TypeInv, TypeOK
<1>2. ASSUME NEW i \in Insts, NEW s \in {"paused", "armed", "stopped"}, SetStatus(i, s) PROVE Fills'
  <2>1. store[i] \in Rows /\ store' = [store EXCEPT ![i] = [store[i] EXCEPT !.status = s]]
    BY <1>2 DEF SetStatus, Put, TypeInv, TypeOK
  <2>2. /\ [store[i] EXCEPT !.status = s] \in Rows
        /\ [store[i] EXCEPT !.status = s].qty = store[i].qty
        /\ [store[i] EXCEPT !.status = s].ticks = store[i].ticks
    BY <2>1 DEF Rows
  <2>3. store[i] # absent /\ [store[i] EXCEPT !.status = s] # absent
    BY <2>1, <2>2, RowFields
  <2> QED
    BY <1>2, <2>1, <2>2, <2>3, EditFills DEF SetStatus, TypeInv, TypeOK
<1>3. CASE HaltUser
  <2>1. \A i \in Insts : store[i].status \in {"armed", "paused"} => store[i] \in Rows
    BY DEF TypeInv, TypeOK, absent
  <2>2. \A i \in Insts : store[i] \in Rows =>
            /\ [store[i] EXCEPT !.status = "halted"] \in Rows
            /\ [store[i] EXCEPT !.status = "halted"].qty = store[i].qty
            /\ [store[i] EXCEPT !.status = "halted"].ticks = store[i].ticks
    BY DEF Rows
  <2> QED
    BY <1>3, <2>1, <2>2, RowFields, EditFills DEF HaltUser
<1> QED
  BY <1>1, <1>2, <1>3 DEF User

\* The tick is forgotten: the row in hand, if any, comes back.
LEMMA CrashFills ==
    ASSUME TypeInv, Fills, Crash
    PROVE  Fills'
<1>1. /\ crashes \in Nat /\ crashes' = crashes + 1 /\ orders \in [OrderIds -> Nat]
      /\ UNCHANGED <<store, orders, taken, held>> /\ tick'.stage = "idle"
  BY DEF Crash, TypeInv, CountsOK, idle
<1>2. FilledOnce'
  BY <1>1 DEF Fills, FilledOnce
<1>3. ASSUME NEW i \in Insts, store[i] # absent PROVE Unfilled(i, store[i].ticks)'
  <2>1. store[i].ticks \in Nat /\ MaxTicks \in Nat
    BY <1>3, BoundAssumption DEF TypeInv, TypeOK, Rows
  <2> SUFFICES ASSUME NEW side \in Sides, NEW m \in store[i].ticks .. MaxTicks
               PROVE  orders[<<i, side, m>>] <= crashes + 1
    BY <1>1 DEF Unfilled
  <2>2. <<i, side, m>> \in OrderIds
    BY <2>1 DEF OrderIds
  <2> QED
    BY <2>2 DEF Fills, FilledOnce
<1>4. ASSUME NEW i \in Insts, store[i] = absent PROVE Unfilled(i, 0)'
  <2> SUFFICES ASSUME NEW side \in Sides, NEW m \in 0 .. MaxTicks
               PROVE  orders[<<i, side, m>>] <= crashes + 1
    BY <1>1 DEF Unfilled
  <2>1. <<i, side, m>> \in OrderIds
    BY DEF OrderIds
  <2> QED
    BY <2>1 DEF Fills, FilledOnce
<1>5. RowsFilled'
  BY <1>1, <1>3, <1>4 DEF RowsFilled, Holds
<1> QED
  BY <1>1, <1>2, <1>5 DEF Fills, CopiesCurrent, FillInHand, Listing, Held

LEMMA FillsInvariant ==
    ASSUME ~Rearms
    PROVE  Spec => []Fills
<1>1. ASSUME Init PROVE Fills
  BY <1>1, BoundAssumption
  DEF Init, idle, Fills, RowsFilled, CopiesCurrent, FillInHand, FilledOnce, Unfilled, Holds, OrderIds,
      Listing, Held
<1>2. ASSUME TypeInv, Fills, [Next]_vars PROVE Fills'
  <2>1. CASE UNCHANGED vars
    BY <1>2, <2>1
    DEF vars, Fills, RowsFilled, CopiesCurrent, Current, FillInHand, FilledOnce, Behind,
        Unfilled, Holds, Listing, Held
  <2> QED
    BY <1>2, <2>1, TickFills, UserFills, CrashFills DEF Next
<1> QED
  BY <1>1, <1>2, TypeInvariant, PTL DEF Spec

\* Where instances are armed once, the paper venue takes one client_order_id at
\* most once more than the process died, whatever ticks fail and whatever edits
\* meet them: a crash repeats the tranche it cut off and no other.
THEOREM CrashRepeatsATranche ==
    ASSUME ~Rearms
    PROVE  Spec => [](\A o \in OrderIds : orders[o] <= crashes + 1)
<1>1. Fills => \A o \in OrderIds : orders[o] <= crashes + 1
  BY DEF Fills, FilledOnce
<1> QED
  BY <1>1, FillsInvariant, PTL

\* In particular, while the process lives it never takes one twice.
THEOREM TranchesOnce ==
    ASSUME ~Rearms
    PROVE  Spec => []TranchesFillOnce
<1>1. Fills => TranchesFillOnce
  BY DEF Fills, FilledOnce, TranchesFillOnce
<1> QED
  BY <1>1, FillsInvariant, PTL

\* And meanwhile a row's position counts each order that the venue took, once,
\* except between an order and its put, and, where no rule's order is a limit
\* order, it is what the venue executed.
THEOREM PositionsMatch ==
    ASSUME ~Rearms
    PROVE  Spec => []PositionMatchesOrders
<1>1. Fills => PositionMatchesOrders
  BY DEF Fills, RowsFilled, Holds, Behind, PositionMatchesOrders
<1> QED
  BY <1>1, FillsInvariant, PTL
===============================================================================
