--------------------------- MODULE PlanRunnerProofs ---------------------------
(***************************************************************************)
(* Proofs about plan mode, for any plans, any number of turns and edits.   *)
(***************************************************************************)
EXTENDS PlanRunner, FiniteSetTheorems, TLAPS

Pending(e) == {i \in DOMAIN e.steps : e.steps[i] = "pending"}
\* The steps that a turn can still begin.
Left(e) == {i \in Pending(e) : i >= e.cursor}
Failed(e) == \E i \in DOMAIN e.steps : e.steps[i] = "failed"
StopsOnFailure(e) == Failed(e) => Left(e) = {}
Timed(e) == e.grace \/ e.sweep

\* Entry `f` of plan p was made of entry `e`: steps are begun and never come
\* back, a failure leaves nothing to begin, and one of the timers goes on.
Onward(p, e, f) ==
    /\ f \in Entries(p)
    /\ Pending(f) \subseteq Pending(e) /\ Left(f) \subseteq Left(e)
    /\ StopsOnFailure(e) => StopsOnFailure(f)
    /\ Timed(e) => Timed(f)
    /\ f.mode = e.mode

\* And no action has answered meanwhile.
From(p, e, f) ==
    /\ Onward(p, e, f)
    /\ \A i \in DOMAIN Steps[p] :
          /\ f.steps[i] = "ok" => e.steps[i] = "ok"
          /\ e.steps[i] \in Over => f.steps[i] \in Over

(***************************************************************************)
(* The helpers.                                                            *)
(***************************************************************************)

LEMMA PlanLength ==
    ASSUME NEW p \in Plans
    PROVE  Len(Steps[p]) \in Nat /\ DOMAIN Steps[p] = 1 .. Len(Steps[p])
  BY StepsAssumption

LEMMA LeastExists ==
    ASSUME NEW S, S \subseteq Nat, S # {}
    PROVE  \E i \in S : \A j \in S : i <= j
<1> DEFINE R == OpToRel(<, Nat)
<1>1. \E i \in S : \A j \in S : <<j, i>> \notin R
  <2>1. IsWellFoundedOn(R, Nat)
    BY NatLessThanWellFounded
  <2> HIDE DEF R
  <2> QED
    BY <2>1, WFMin
<1>2. R = {ss \in Nat \X Nat : ss[1] < ss[2]}
  BY Zenon DEF OpToRel
<1> HIDE DEF R
<1>3. PICK i \in S : \A j \in S : <<j, i>> \notin R
  BY <1>1
<1>4. \A j \in S : ~(j < i)
  BY <1>2, <1>3
<1> QED
  BY <1>4

LEMMA GreatestExists ==
    ASSUME NEW S, NEW n \in Nat, S \subseteq 1 .. n, S # {}
    PROVE  \E i \in S : \A j \in S : j <= i
<1> DEFINE T == {n - i : i \in S}
<1>1. T \subseteq Nat
  <2> SUFFICES ASSUME NEW i \in S PROVE n - i \in Nat
    OBVIOUS
  <2> QED
    OBVIOUS
<1>2. T # {}
  OBVIOUS
<1> HIDE DEF T
<1>3. PICK m \in T : \A k \in T : m <= k
  BY <1>1, <1>2, LeastExists
<1>4. PICK i \in S : m = n - i
  BY DEF T
<1>5. \A j \in S : m <= n - j
  BY <1>3 DEF T
<1> QED
  BY <1>4, <1>5

LEMMA EntryFields ==
    ASSUME NEW p \in Plans, NEW e \in Entries(p)
    PROVE  /\ DOMAIN e.steps = DOMAIN Steps[p] /\ e.status \in Statuses
           /\ e.cursor \in 1 .. Len(Steps[p]) + 1 /\ e.grace \in BOOLEAN /\ e.sweep \in BOOLEAN
           /\ e # unsaved /\ e # gone
           /\ Pending(e) \subseteq DOMAIN Steps[p] /\ Left(e) \subseteq Pending(e)
<1>1. e.status \notin {"unsaved", "gone"}
  BY DEF Entries, Statuses, TERMINAL_STATUSES
<1> QED
  BY <1>1 DEF Entries, Pending, Left, unsaved, gone

LEMMA FromSame ==
    ASSUME NEW p \in Plans, NEW e \in Entries(p) PROVE From(p, e, e)
  BY DEF From, Onward

LEMMA FromAgain ==
    ASSUME NEW p \in Plans, NEW e \in Entries(p), NEW f, NEW g, From(p, e, f), From(p, f, g)
    PROVE  From(p, e, g)
  BY DEF From, Onward

\* A change of status, clarify_nudges or timers.
LEMMA FromAnnotated ==
    ASSUME NEW p \in Plans, NEW e \in Entries(p), NEW f \in Entries(p),
           f.steps = e.steps, f.cursor = e.cursor, f.mode = e.mode, Timed(e) => Timed(f)
    PROVE  From(p, e, f)
  BY DEF From, Onward, Pending, Left, StopsOnFailure, Failed

LEMMA FromStatus ==
    ASSUME NEW p \in Plans, NEW e \in Entries(p), NEW st \in Statuses
    PROVE  From(p, e, [e EXCEPT !.status = st])
<1>1. [e EXCEPT !.status = st] \in Entries(p)
  BY DEF Entries
<1> QED
  BY <1>1, FromAnnotated DEF Timed, Entries

LEMMA FromNudges ==
    ASSUME NEW p \in Plans, NEW e \in Entries(p)
    PROVE  From(p, e, [e EXCEPT !.nudges = 0]) /\ From(p, e, [e EXCEPT !.nudges = 1])
<1>1. [e EXCEPT !.nudges = 0] \in Entries(p) /\ [e EXCEPT !.nudges = 1] \in Entries(p)
  BY DEF Entries
<1>2. From(p, e, [e EXCEPT !.nudges = 0])
  BY <1>1, FromAnnotated DEF Timed, Entries
<1>3. From(p, e, [e EXCEPT !.nudges = 1])
  BY <1>1, FromAnnotated DEF Timed, Entries
<1> QED
  BY <1>2, <1>3

\* What updatePlan leaves in the store: a terminal entry has its short timer.
Closed(e) == e.status \in TERMINAL_STATUSES => e.grace

LEMMA FromUpdated ==
    ASSUME NEW p \in Plans, NEW e \in Entries(p)
    PROVE  From(p, e, updated(e)) /\ Closed(updated(e))
<1>1. updated(e) \in Entries(p)
  BY DEF updated, Entries
<1>2. From(p, e, updated(e))
  BY <1>1, FromAnnotated DEF updated, Timed, Entries
<1> QED
  BY <1>2 DEF updated, Closed, Entries

LEMMA FromDecided ==
    ASSUME NEW p \in Plans, NEW e \in Entries(p)
    PROVE  From(p, e, Decided(p, e)) /\ Closed(Decided(p, e))
<1> DEFINE f == [e EXCEPT !.status = decideStatus(p, e)]
<1>1. decideStatus(p, e) \in Statuses
  BY DEF decideStatus, Statuses, TERMINAL_STATUSES
<1>2. From(p, e, f)
  BY <1>1, FromStatus
<1>3. From(p, f, updated(f)) /\ Closed(updated(f))
  BY <1>2, FromUpdated DEF From, Onward
<1> QED
  BY <1>2, <1>3, FromAgain DEF Decided

LEMMA FromAwaiting ==
    ASSUME NEW p \in Plans, NEW e \in Entries(p)
    PROVE  From(p, e, Awaiting(e)) /\ Closed(Awaiting(e))
<1> DEFINE f == [e EXCEPT !.status = "awaiting_approval"]
<1>1. From(p, e, f)
  BY FromStatus DEF Statuses
<1>2. From(p, f, updated(f)) /\ Closed(updated(f))
  BY <1>1, FromUpdated DEF From, Onward
<1> QED
  BY <1>1, <1>2, FromAgain DEF Awaiting

LEMMA FromAdvanced ==
    ASSUME NEW p \in Plans, NEW e \in Entries(p)
    PROVE  From(p, e, advanceCursor(p, e))
<1> DEFINE end == Len(Steps[p]) + 1
           ahead == {i \in DOMAIN Steps[p] : i >= e.cursor /\ e.steps[i] = "pending"}
           c == CHOOSE i \in ahead \union {end} : \A j \in ahead : i <= j
<1>1. Len(Steps[p]) \in Nat /\ DOMAIN Steps[p] = 1 .. Len(Steps[p]) /\ e.cursor \in 1 .. end
  BY PlanLength, EntryFields
<1>2. \E i \in ahead \union {end} : \A j \in ahead : i <= j
  <2>1. PICK i \in ahead \union {end} : \A j \in ahead \union {end} : i <= j
    <3>1. ahead \union {end} \subseteq Nat /\ ahead \union {end} # {}
      BY <1>1
    <3> HIDE DEF ahead, end
    <3> QED
      BY <3>1, LeastExists
  <2> QED
    BY <2>1
<1>3. c \in ahead \union {end}
  <2> HIDE DEF ahead, end
  <2> QED
    BY <1>2
<1>4. c \in e.cursor .. end
  <2> HIDE DEF c
  <2>1. ASSUME NEW i \in ahead \union {end} PROVE i \in e.cursor .. end
    BY <1>1
  <2> QED
    BY <1>3, <2>1
<1>5. advanceCursor(p, e) = [e EXCEPT !.cursor = c]
  BY DEF advanceCursor
<1> HIDE DEF c, ahead
<1>6. [e EXCEPT !.cursor = c] \in Entries(p)
  BY <1>1, <1>4 DEF Entries
<1> DEFINE f == [e EXCEPT !.cursor = c]
<1>7. f.cursor = c /\ f.steps = e.steps /\ f.mode = e.mode /\ f.grace = e.grace /\ f.sweep = e.sweep
  BY DEF Entries
<1>8. Pending(f) = Pending(e) /\ (Failed(f) <=> Failed(e)) /\ (Timed(f) <=> Timed(e))
  BY <1>7 DEF Pending, Failed, Timed
<1>9. Left(f) \subseteq Left(e)
  BY <1>1, <1>4, <1>7, <1>8, EntryFields DEF Left
<1>10. f \in Entries(p)
  BY <1>6
<1> HIDE DEF f
<1>11. From(p, e, f)
  BY <1>7, <1>8, <1>9, <1>10 DEF From, Onward, StopsOnFailure
<1> QED
  BY <1>5, <1>11 DEF f

\* Some steps are begun or skipped.
LEMMA FromMarked ==
    ASSUME NEW p \in Plans, NEW e \in Entries(p), NEW f \in Entries(p),
           f.cursor = e.cursor, f.mode = e.mode, f.grace = e.grace, f.sweep = e.sweep,
           \A i \in DOMAIN Steps[p] :
              \/ f.steps[i] = e.steps[i] \/ f.steps[i] = "skipped"
              \/ f.steps[i] = "in_progress" /\ e.steps[i] = "pending"
    PROVE  From(p, e, f)
<1>1. DOMAIN e.steps = DOMAIN Steps[p] /\ DOMAIN f.steps = DOMAIN Steps[p]
  BY EntryFields
<1>2. Pending(f) \subseteq Pending(e)
  BY <1>1 DEF Pending
<1>3. Failed(f) => Failed(e)
  BY <1>1 DEF Failed
<1> QED
  BY <1>2, <1>3 DEF From, Onward, Left, StopsOnFailure, Timed, Over

LEMMA FromInProgress ==
    ASSUME NEW p \in Plans, NEW e \in Entries(p), NEW S, S \subseteq Pending(e)
    PROVE  From(p, e, InProgress(e, S)) /\ S \intersect Pending(InProgress(e, S)) = {}
<1> DEFINE f == InProgress(e, S)
<1>1. f \in Entries(p)
  BY DEF InProgress, Entries, StepStatuses
<1>2. /\ f.cursor = e.cursor /\ f.mode = e.mode /\ f.grace = e.grace /\ f.sweep = e.sweep
      /\ \A i \in DOMAIN Steps[p] : f.steps[i] = IF i \in S THEN "in_progress" ELSE e.steps[i]
  BY DEF InProgress, Entries
<1> HIDE DEF f
<1>3. From(p, e, f)
  BY <1>1, <1>2, FromMarked DEF Pending
<1>4. S \intersect Pending(f) = {}
  BY <1>1, <1>2, EntryFields DEF Pending
<1> QED
  BY <1>3, <1>4 DEF f

LEMMA OnwardOk ==
    ASSUME NEW p \in Plans, NEW e \in Entries(p), NEW S
    PROVE  /\ Onward(p, e, markStepsOk(e, S))
           /\ \A i \in DOMAIN Steps[p] \ S : markStepsOk(e, S).steps[i] = e.steps[i]
<1> DEFINE f == markStepsOk(e, S)
<1>1. f \in Entries(p)
  BY DEF markStepsOk, Entries, StepStatuses
<1>2. /\ f.cursor = e.cursor /\ f.mode = e.mode /\ f.grace = e.grace /\ f.sweep = e.sweep
      /\ \A i \in DOMAIN Steps[p] : f.steps[i] = IF i \in S THEN "ok" ELSE e.steps[i]
  BY DEF markStepsOk, Entries
<1>3. DOMAIN e.steps = DOMAIN Steps[p] /\ DOMAIN f.steps = DOMAIN Steps[p]
  BY <1>1, EntryFields
<1> HIDE DEF f
<1>4. Pending(f) \subseteq Pending(e) /\ (Failed(f) => Failed(e))
  BY <1>2, <1>3 DEF Pending, Failed
<1>5. Onward(p, e, f)
  BY <1>1, <1>2, <1>4 DEF Onward, Left, StopsOnFailure, Timed
<1> QED
  BY <1>2, <1>5 DEF f

LEMMA FromSkipped ==
    ASSUME NEW p \in Plans, NEW e \in Entries(p), NEW n \in DOMAIN Steps[p]
    PROVE  From(p, e, [e EXCEPT !.steps[n] = "skipped"])
<1> DEFINE f == [e EXCEPT !.steps[n] = "skipped"]
<1>1. f \in Entries(p)
  BY DEF Entries, StepStatuses
<1>2. /\ f.cursor = e.cursor /\ f.mode = e.mode /\ f.grace = e.grace /\ f.sweep = e.sweep
      /\ \A i \in DOMAIN Steps[p] : f.steps[i] = IF i = n THEN "skipped" ELSE e.steps[i]
  BY DEF Entries
<1> HIDE DEF f
<1>3. From(p, e, f)
  BY <1>1, <1>2, FromMarked
<1> QED
  BY <1>3 DEF f

LEMMA OnwardFailed ==
    ASSUME NEW p \in Plans, NEW e \in Entries(p), NEW bad, bad \subseteq DOMAIN Steps[p], bad # {}
    PROVE  /\ Onward(p, e, markStepsFailedAndBail(p, e, bad))
           /\ \A i \in DOMAIN Steps[p] \ bad :
                 LET f == markStepsFailedAndBail(p, e, bad)
                 IN  f.steps[i] = e.steps[i] \/ (e.steps[i] = "pending" /\ f.steps[i] = "skipped")
<1> DEFINE c == CHOOSE i \in bad : \A j \in bad : j <= i
           f == markStepsFailedAndBail(p, e, bad)
<1>1. DOMAIN Steps[p] = 1 .. Len(Steps[p]) /\ Len(Steps[p]) \in Nat /\ DOMAIN e.steps = DOMAIN Steps[p]
  BY PlanLength, EntryFields
<1>2. \E i \in bad : \A j \in bad : j <= i
  BY <1>1, GreatestExists
<1>3. c \in bad /\ \A j \in bad : j <= c
  BY <1>2
<1>4. /\ f.steps = [i \in DOMAIN e.steps |->
                      CASE i \in bad -> "failed"
                        [] i \notin bad /\ e.steps[i] = "pending" /\ (\E b \in bad : b < i) -> "skipped"
                        [] OTHER -> e.steps[i]]
      /\ f.cursor = c /\ f.mode = e.mode /\ f.grace = e.grace /\ f.sweep = e.sweep
  BY DEF markStepsFailedAndBail, Entries
<1>5. f \in Entries(p)
  <2> HIDE DEF c
  <2>1. c \in 1 .. Len(Steps[p]) + 1
    BY <1>1, <1>3
  <2>2. f = [e EXCEPT !.steps = f.steps, !.cursor = c, !.status = "failed"]
    BY <1>4 DEF markStepsFailedAndBail, Entries, c
  <2>3. f.steps \in [DOMAIN Steps[p] -> StepStatuses]
    BY <1>1, <1>4 DEF Entries, StepStatuses
  <2> HIDE DEF f
  <2> QED
    BY <2>1, <2>2, <2>3 DEF Entries, Statuses, TERMINAL_STATUSES
<1> HIDE DEF f, c
<1>6. Pending(f) \subseteq Pending(e)
  BY <1>4 DEF Pending
<1>7. Left(f) = {}
  <2> SUFFICES ASSUME NEW i \in Left(f) PROVE FALSE
    OBVIOUS
  <2>1. i \in DOMAIN e.steps /\ f.steps[i] = "pending" /\ i >= c
    BY <1>4 DEF Left, Pending
  <2>2. i \notin bad /\ e.steps[i] = "pending"
    BY <1>4, <2>1
  <2>3. c < i
    BY <1>1, <1>3, <2>1, <2>2
  <2> QED
    BY <1>3, <1>4, <2>1, <2>2, <2>3
<1>8. Onward(p, e, f)
  BY <1>4, <1>5, <1>6, <1>7 DEF Onward, StopsOnFailure, Timed
<1>9. \A i \in DOMAIN Steps[p] \ bad :
         f.steps[i] = e.steps[i] \/ (e.steps[i] = "pending" /\ f.steps[i] = "skipped")
  BY <1>1, <1>4
<1> QED
  BY <1>8, <1>9 DEF f

\* The steps that are begun next can be begun.
LEMMA NextWrite ==
    ASSUME NEW p \in Plans, NEW e \in Entries(p)
    PROVE  \/ nextWriteStep(p, e) = None
           \/ nextWriteStep(p, e) \in Left(e) \intersect Ready(p, e) \intersect Writes(p)
<1> DEFINE ahead == {i \in Ready(p, e) \intersect Writes(p) : i >= e.cursor}
<1>1. ahead \subseteq Left(e) \intersect Ready(p, e) \intersect Writes(p)
  BY EntryFields DEF Ready, Left, Pending
<1>2. ahead \subseteq Nat
  BY PlanLength DEF Writes
<1>3. CASE ahead = {}
  BY <1>3 DEF nextWriteStep
<1>4. CASE ahead # {}
  <2>1. nextWriteStep(p, e) = CHOOSE i \in ahead : \A j \in ahead : i <= j
    BY <1>4 DEF nextWriteStep
  <2> HIDE DEF ahead
  <2>2. \E i \in ahead : \A j \in ahead : i <= j
    BY <1>2, <1>4, LeastExists
  <2>3. nextWriteStep(p, e) \in ahead
    BY <2>1, <2>2
  <2> QED
    BY <1>1, <2>3
<1> QED
  BY <1>3, <1>4

LEMMA NextReads ==
    ASSUME NEW p \in Plans, NEW e \in Entries(p)
    PROVE  readableSteps(p, e) \subseteq Left(e) \intersect Ready(p, e)
  BY EntryFields DEF readableSteps, Ready, Left, Pending

(***************************************************************************)
(* The invariant.                                                          *)
(***************************************************************************)

\* Some turn was told to run the rest of plan p.
Batched(p) == \E u \in Turns : turn[u].plan = p /\ turn[u].cmd = "APPROVE_BATCH"

\* What starts the execution of steps; a new plan's first reads end before a write.
AskedFor == {"APPROVE_NEXT", "APPROVE_BATCH", "SKIP_STEP"}
Starting == AskedFor \union {"new"}

WellFormed(x) ==
    /\ x.at = "idle" => x = fresh
    /\ x.at \in {"decide", "decompose", "reads"} => x.wrote = 0
    /\ x.at \in {"decide", "decompose", "done"} => x.todo = {}
    /\ x.at = "reads" => x.cmd \in Starting
    /\ x.at = "decide" => x.cmd = "none" /\ x.plan \in Plans
    /\ x.at = "decide" => x.seen.next \in Writes(x.plan) \union {None}
    /\ x.at = "decompose" => x.cmd = "new"
    /\ x.at \in {"reads", "write"} =>
          x.plan \in Plans /\ x.todo \subseteq DOMAIN Steps[x.plan] /\ x.todo # {}
TurnsOK == \A t \in Turns : WellFormed(turn[t]) /\ (turn[t].wrote > 1 => Batched(turn[t].plan))

\* A pending step was never sent, and a failed plan has nothing left to begin.
StoreOK ==
    \A p \in Plans :
        /\ plans[p] = unsaved => \A i \in DOMAIN Steps[p] : sent[p][i] = 0
        /\ Saved(p) =>
              /\ \A i \in Pending(plans[p]) : sent[p][i] = 0
              /\ StopsOnFailure(plans[p])
              /\ plans[p].mode = "batch" => Batched(p)

EndedOK ==
    /\ \A p \in Plans : ended[p] = "replaced" => plans[p] = gone
    /\ \A p \in Plans : plans[p] = unsaved => ended[p] = "no"
    /\ active # NoPlan => ended[active] = "no"

\* One turn at most waits for a step, and a step is `ok` when it has answered.
FlightOK ==
    /\ \A t \in Turns : \A i \in turn[t].todo : sent[turn[t].plan][i] = 1
    /\ \A t, u \in Turns : turn[t].plan = turn[u].plan /\ t # u =>
          turn[t].todo \intersect turn[u].todo = {}
    /\ \A p \in Plans : \A i \in DOMAIN Steps[p] :
          Saved(p) /\ plans[p].steps[i] = "ok" => HasAnswered(p, i)

\* What TypeOK leaves out.
Tables == plans = [p \in Plans |-> plans[p]] /\ sent = [p \in Plans |-> sent[p]]

PlanInv ==
    /\ Tables /\ TypeOK /\ TurnsOK /\ StoreOK /\ StepsRunOnce /\ ActivePlanIsLive /\ EndedOK
    /\ FlightOK /\ DependenciesMet

\* An entry that turn record `r` may leave in the store for plan p.
Sound(p, r, e) ==
    /\ e \in Entries(p) /\ plans[p] # gone
    /\ \A i \in Pending(e) : sent[p][i] = 0
    /\ StopsOnFailure(e)
    /\ Saved(p) => Left(e) \subseteq Left(plans[p])
    /\ e.mode = "batch" => r.cmd = "APPROVE_BATCH" \/ Batched(p)
    /\ plans[p] = unsaved \/ active = p => Timed(e)
    /\ \A i \in DOMAIN Steps[p] \ r.todo :
          /\ e.steps[i] = "ok" => Saved(p) /\ plans[p].steps[i] = "ok"
          /\ Saved(p) /\ plans[p].steps[i] \in Over => e.steps[i] \in Over

LEMMA SoundFrom ==
    ASSUME NEW p \in Plans, NEW r, NEW e, NEW f, Sound(p, r, e), From(p, e, f)
    PROVE  Sound(p, r, f)
  BY DEF Sound, From, Onward

\* The answers that turn record `r` has got are marked.
LEMMA SoundMarked ==
    ASSUME NEW p \in Plans, NEW r, NEW e, NEW f, Sound(p, r, e), Onward(p, e, f),
           \A i \in DOMAIN Steps[p] \ r.todo :
              f.steps[i] = e.steps[i] \/ (e.steps[i] = "pending" /\ f.steps[i] = "skipped")
    PROVE  Sound(p, r, f)
  BY DEF Sound, Onward, Over

LEMMA SoundOk ==
    ASSUME NEW p \in Plans, NEW r, NEW e, Sound(p, r, e), NEW S, S \subseteq r.todo
    PROVE  Sound(p, r, markStepsOk(e, S)) /\ markStepsOk(e, S).mode = e.mode
<1> DEFINE f == markStepsOk(e, S)
<1>1. e \in Entries(p)
  BY DEF Sound
<1>2. Onward(p, e, f) /\ \A i \in DOMAIN Steps[p] \ S : f.steps[i] = e.steps[i]
  BY <1>1, OnwardOk
<1> HIDE DEF f
<1>3. Sound(p, r, f)
  BY <1>2, SoundMarked
<1> QED
  BY <1>2, <1>3 DEF Onward, f

LEMMA SoundFailed ==
    ASSUME NEW p \in Plans, NEW r, NEW e, Sound(p, r, e),
           NEW bad, bad \subseteq DOMAIN Steps[p], bad \subseteq r.todo, bad # {}
    PROVE  Sound(p, r, markStepsFailedAndBail(p, e, bad))
<1> DEFINE f == markStepsFailedAndBail(p, e, bad)
<1>1. e \in Entries(p)
  BY DEF Sound
<1>2. /\ Onward(p, e, f)
      /\ \A i \in DOMAIN Steps[p] \ bad :
            f.steps[i] = e.steps[i] \/ (e.steps[i] = "pending" /\ f.steps[i] = "skipped")
  BY <1>1, OnwardFailed
<1> HIDE DEF f
<1>3. Sound(p, r, f)
  BY <1>2, SoundMarked
<1> QED
  BY <1>3 DEF f

\* What is in the store may be left there.
LEMMA StoredIsSound ==
    ASSUME PlanInv, NEW p \in Plans, Saved(p), NEW r
    PROVE  plans[p] \in Entries(p) /\ Sound(p, r, plans[p])
<1>1. plans[p] \in Entries(p) /\ plans[p] # gone /\ plans[p] # unsaved
  BY DEF PlanInv, TypeOK, Saved, gone, unsaved
<1>2. active = p => Timed(plans[p])
  BY RunnerAssumption DEF PlanInv, ActivePlanIsLive, Timed
<1> QED
  BY <1>1, <1>2 DEF PlanInv, StoreOK, Sound

LEMMA NewIsSound ==
    ASSUME PlanInv, NEW p \in Plans, plans[p] = unsaved, NEW r
    PROVE  NewEntry(p) \in Entries(p) /\ Sound(p, r, NewEntry(p))
<1> DEFINE e == NewEntry(p)
<1>1. e \in Entries(p)
  BY PlanLength DEF NewEntry, Entries, Statuses, StepStatuses
<1>2. /\ ~Failed(e) /\ Timed(e) /\ e.mode # "batch"
      /\ Pending(e) \subseteq DOMAIN Steps[p]
  BY DEF NewEntry, Failed, Timed, Pending
<1>3. plans[p] # gone /\ ~Saved(p)
  BY DEF unsaved, gone, Saved
<1> HIDE DEF e
<1>4. \A i \in DOMAIN Steps[p] : e.steps[i] = "pending"
  BY DEF NewEntry, e
<1>5. Sound(p, r, e)
  BY <1>1, <1>2, <1>3, <1>4 DEF Sound, StopsOnFailure, PlanInv, StoreOK
<1> QED
  BY <1>1, <1>5 DEF e

(***************************************************************************)
(* The parts of a turn.                                                    *)
(***************************************************************************)

\* (A cancelled plan is out of its room and has no timer.)
ClosedIfLive(p, f) == plans[p] = unsaved \/ active = p => Closed(f)

\* A turn record that plan p is handled with.
Record(p, r) ==
    r \in Turn /\ r.plan = p /\ (r.wrote > 1 => Batched(p))

\* What turn t does to plan p between two awaits.
Stretch(t, p, r) ==
    \E f \in Entries(p), x \in Turn :
        /\ Sound(p, r, f) /\ ClosedIfLive(p, f) /\ Keep(p, f)
        /\ turn' = [turn EXCEPT ![t] = x]
        /\ x.at \in {"reads", "write", "done"} /\ x.plan = p /\ x.cmd = r.cmd
        /\ x.at = "reads" => x.wrote = 0
        /\ x.wrote > 1 => Batched(p)
        /\ x.at = "reads" => x.cmd \in Starting
        /\ x.wrote > r.wrote /\ Saved(p) => Left(plans[p]) # {}
        /\ x.wrote > r.wrote => r.cmd \in AskedFor \/ plans[p].mode = "batch"
        /\ x.todo \subseteq DOMAIN Steps[p] /\ (x.at # "done" <=> x.todo # {})
        /\ x.todo \intersect Pending(f) = {}
        /\ \A i \in x.todo : \A d \in Steps[p][i].needs : f.steps[d] = "ok"
        /\ \A i \in x.todo : sent[p][i] = 0
        /\ (x.todo = {} /\ sent' = sent) \/ Invoke(p, x.todo)
        /\ modal' = modal \/ modal' \in {p} \X Writes(p)

LEMMA DoneStretch ==
    ASSUME NEW t \in Turns, NEW p \in Plans, NEW r, Record(p, r),
           NEW f, Sound(p, r, f), ClosedIfLive(p, f), Keep(p, f), Done(t, r), sent' = sent,
           modal' = modal \/ modal' \in {p} \X Writes(p)
    PROVE  Stretch(t, p, r)
<1> DEFINE x == [r EXCEPT !.at = "done", !.todo = {}]
<1>1. /\ x \in Turn /\ x.at = "done" /\ x.todo = {} /\ x.wrote = r.wrote
      /\ x.plan = p /\ x.cmd = r.cmd
  BY DEF Record, Turn
<1>2. turn' = [turn EXCEPT ![t] = x] /\ f \in Entries(p)
  BY DEF Done, Await, Sound
<1>3. r.wrote \in Nat
  BY DEF Record, Turn
<1> HIDE DEF x
<1>4. /\ x.wrote > 1 => Batched(p)
      /\ ~(x.wrote > r.wrote)
  BY <1>1, <1>3 DEF Record
<1> QED
  BY <1>1, <1>2, <1>4 DEF Stretch

\* The steps that the turn's new record `x` waits for are marked, and handed to
\* their actions.
LEMMA BeginStretch ==
    ASSUME NEW t \in Turns, NEW p \in Plans, NEW r,
           NEW e, Sound(p, r, e), NEW x \in Turn,
           x.at \in {"reads", "write"}, x.plan = p, x.cmd = r.cmd,
           x.todo \subseteq Left(e) \intersect Ready(p, e), x.todo # {},
           x.at = "reads" => x.wrote = 0 /\ x.cmd \in Starting, x.wrote > 1 => Batched(p),
           x.wrote > r.wrote => r.cmd \in AskedFor \/ plans[p].mode = "batch",
           turn' = [turn EXCEPT ![t] = x], Invoke(p, x.todo), modal' = modal,
           NEW f, From(p, InProgress(e, x.todo), f), Closed(f), Keep(p, f),
           f.steps = InProgress(e, x.todo).steps
    PROVE  Stretch(t, p, r)
<1> DEFINE S == x.todo
<1>1. e \in Entries(p) /\ S \subseteq Pending(e) /\ S \subseteq DOMAIN Steps[p]
  BY EntryFields DEF Sound
<1>2. From(p, e, InProgress(e, S)) /\ S \intersect Pending(InProgress(e, S)) = {}
  BY <1>1, FromInProgress
<1>3. Sound(p, r, f) /\ S \intersect Pending(f) = {} /\ f \in Entries(p)
  <2>1. Sound(p, r, InProgress(e, S))
    BY <1>2, SoundFrom
  <2> QED
    BY <1>2, <2>1, SoundFrom DEF From, Onward
<1>4. Saved(p) => Left(plans[p]) # {}
  BY DEF Sound
<1>5. \A i \in S : sent[p][i] = 0
  BY <1>1 DEF Sound
<1>6. ASSUME NEW i \in S, NEW d \in Steps[p][i].needs PROVE f.steps[d] = "ok"
  <2>1. e.steps[d] = "ok" /\ d \in DOMAIN Steps[p]
    BY <1>1, <1>6, StepsAssumption DEF Ready
  <2>2. d \notin S
    BY <1>1, <2>1 DEF Pending
  <2> QED
    BY <1>1, <2>1, <2>2 DEF InProgress, Entries
<1> QED
  BY <1>1, <1>3, <1>4, <1>5, <1>6 DEF Stretch, ClosedIfLive

LEMMA RunWriteStretch ==
    ASSUME NEW t \in Turns, NEW p \in Plans, NEW r, Record(p, r), r.wrote > 0 => Batched(p),
           NEW e, Sound(p, r, e), RunWrite(t, r, e),
           r.cmd \in AskedFor \/ plans[p].mode = "batch"
    PROVE  Stretch(t, p, r)
<1> DEFINE i == nextWriteStep(p, e)
           g == InProgress(e, {i})
           h == [g EXCEPT !.status = "executing"]
           q == [r EXCEPT !.wrote = @ + 1]
<1>1. e \in Entries(p) /\ r.plan = p /\ r.wrote \in Nat
  BY DEF Sound, Record, Turn
<1>2. CASE i = None
  <2>1. Keep(p, Decided(p, e)) /\ Done(t, r) /\ sent' = sent /\ modal' = modal
    BY <1>1, <1>2 DEF RunWrite
  <2>2. Sound(p, r, Decided(p, e)) /\ Closed(Decided(p, e))
    BY <1>1, FromDecided, SoundFrom
  <2> QED
    BY <2>1, <2>2, DoneStretch DEF ClosedIfLive
<1>3. CASE i # None
  <2>1. /\ Keep(p, updated(h)) /\ Await(t, q, "write", {i})
        /\ Invoke(p, {i}) /\ modal' = modal
    BY <1>1, <1>3 DEF RunWrite
  <2>2. {i} \subseteq Left(e) \intersect Ready(p, e)
    BY <1>1, <1>3, NextWrite
  <2>3. From(p, g, updated(h)) /\ Closed(updated(h)) /\ updated(h).steps = g.steps
    <3>2. g \in Entries(p)
      BY <1>1, <2>2, EntryFields, FromInProgress DEF From, Onward
    <3> HIDE DEF g
    <3>3. From(p, g, h) /\ h.steps = g.steps
      BY <3>2, FromStatus DEF Statuses, Entries
    <3> HIDE DEF h
    <3>4. h \in Entries(p)
      BY <3>3 DEF From, Onward
    <3>5. From(p, h, updated(h)) /\ Closed(updated(h)) /\ updated(h).steps = h.steps
      BY <3>4, FromUpdated DEF updated, Entries
    <3> QED
      BY <3>2, <3>3, <3>5, FromAgain
  <2> DEFINE x == [q EXCEPT !.at = "write", !.todo = {i}]
  <2>4. {i} \subseteq Nat
    BY <1>1, <2>2, EntryFields, PlanLength
  <2>5. /\ x \in Turn /\ x.at = "write" /\ x.todo = {i} /\ x.wrote = r.wrote + 1
        /\ x.plan = p /\ x.cmd = r.cmd
    <3> DEFINE S == {i}
               n == r.wrote + 1
    <3>1. S \subseteq Nat /\ n \in Nat
      BY <1>1, <2>4
    <3>2. x = [r EXCEPT !.wrote = n, !.at = "write", !.todo = S]
      BY DEF Record, Turn
    <3> HIDE DEF x, S, n
    <3>3. x \in Turn /\ x.at = "write" /\ x.todo = S /\ x.wrote = n /\ x.plan = p /\ x.cmd = r.cmd
      BY <3>1, <3>2 DEF Record, Turn
    <3> QED
      BY <3>3 DEF S, n
  <2>6. turn' = [turn EXCEPT ![t] = x]
    BY <2>1 DEF Await
  <2>7. x.wrote > 1 => Batched(p)
    BY <1>1, <2>5
  <2> HIDE DEF i, h, q, x
  <2> QED
    BY <2>1, <2>2, <2>3, <2>5, <2>6, <2>7, BeginStretch DEF g
<1> QED
  BY <1>2, <1>3

LEMMA PresentStretch ==
    ASSUME NEW t \in Turns, NEW p \in Plans, NEW r, Record(p, r),
           NEW e, Sound(p, r, e), PresentPlan(t, r, e)
    PROVE  Stretch(t, p, r)
<1> DEFINE i == nextWriteStep(p, e)
           h == [e EXCEPT !.status = "completed"]
<1>1. e \in Entries(p) /\ r.plan = p
  BY DEF Sound, Record
<1>2. Done(t, r) /\ sent' = sent
  BY DEF PresentPlan
<1>3. CASE i = None
  <2>1. Keep(p, updated(h)) /\ modal' = modal
    BY <1>1, <1>3 DEF PresentPlan
  <2>2. From(p, e, h)
    BY <1>1, FromStatus DEF Statuses, TERMINAL_STATUSES
  <2> HIDE DEF h
  <2>3. Sound(p, r, updated(h)) /\ Closed(updated(h))
    BY <2>2, FromUpdated, SoundFrom DEF From, Onward
  <2> QED
    BY <1>2, <2>1, <2>3, DoneStretch DEF ClosedIfLive
<1>4. CASE i # None
  <2>1. Keep(p, Awaiting(e)) /\ ShowModal(p, i)
    BY <1>1, <1>4 DEF PresentPlan
  <2>2. i \in Writes(p)
    BY <1>1, <1>4, NextWrite
  <2>3. modal' = modal \/ modal' \in {p} \X Writes(p)
    BY <2>1, <2>2 DEF ShowModal
  <2>4. Sound(p, r, Awaiting(e)) /\ Closed(Awaiting(e))
    BY <1>1, FromAwaiting, SoundFrom
  <2> QED
    BY <1>2, <2>1, <2>3, <2>4, DoneStretch DEF ClosedIfLive
<1> QED
  BY <1>3, <1>4

LEMMA AfterReadsStretch ==
    ASSUME NEW t \in Turns, NEW p \in Plans, NEW r, Record(p, r), r.wrote = 0,
           r.cmd \in Starting, NEW e, Sound(p, r, e), AfterReads(t, r, e)
    PROVE  Stretch(t, p, r)
  BY PresentStretch, RunWriteStretch DEF AfterReads, Starting

LEMMA DrainStretch ==
    ASSUME NEW t \in Turns, NEW p \in Plans, NEW r, Record(p, r), r.wrote = 0,
           r.cmd \in Starting, NEW e, Sound(p, r, e), DrainReads(t, r, e)
    PROVE  Stretch(t, p, r)
<1> DEFINE wave == readableSteps(p, e)
           g == InProgress(e, wave)
<1>1. e \in Entries(p) /\ r.plan = p
  BY DEF Sound, Record
<1>2. CASE wave = {}
  BY <1>1, <1>2, AfterReadsStretch DEF DrainReads
<1>3. CASE wave # {}
  <2>1. /\ Keep(p, updated(g)) /\ Await(t, r, "reads", wave)
        /\ Invoke(p, wave) /\ modal' = modal
    BY <1>1, <1>3 DEF DrainReads
  <2>2. wave \subseteq Left(e) \intersect Ready(p, e)
    BY <1>1, NextReads
  <2>3. g \in Entries(p)
    BY <1>1, <2>2, EntryFields, FromInProgress DEF From, Onward
  <2>4. From(p, g, updated(g)) /\ Closed(updated(g)) /\ updated(g).steps = g.steps
    BY <2>3, FromUpdated DEF updated, Entries
  <2> DEFINE x == [r EXCEPT !.at = "reads", !.todo = wave]
  <2>5. wave \subseteq Nat
    BY <1>1, <2>2, EntryFields, PlanLength
  <2>6. /\ x \in Turn /\ x.at = "reads" /\ x.todo = wave /\ x.wrote = 0
        /\ x.plan = p /\ x.cmd = r.cmd
    <3> HIDE DEF wave
    <3> QED
      BY <2>5 DEF Record, Turn
  <2>7. turn' = [turn EXCEPT ![t] = x]
    BY <2>1 DEF Await
  <2>8. /\ From(p, InProgress(e, x.todo), updated(g)) /\ ~(x.wrote > 1) /\ ~(x.wrote > r.wrote)
        /\ updated(g).steps = InProgress(e, x.todo).steps
    BY <2>4, <2>6
  <2>9. x.todo \subseteq Left(e) \intersect Ready(p, e) /\ x.todo # {} /\ Invoke(p, x.todo) /\ modal' = modal
    BY <1>3, <2>1, <2>2, <2>6
  <2> HIDE DEF wave, x, g
  <2> QED
    BY <2>1, <2>4, <2>6, <2>7, <2>8, <2>9, BeginStretch
<1> QED
  BY <1>2, <1>3

(***************************************************************************)
(* The steps.                                                              *)
(***************************************************************************)

LEMMA TurnStep ==
    ASSUME TypeOK, TurnsOK, NEW t \in Turns, NEW x \in Turn, turn' = [turn EXCEPT ![t] = x],
           WellFormed(x), x.wrote > 1 => Batched(x.plan),
           turn[t].cmd = "APPROVE_BATCH" => x.cmd = turn[t].cmd /\ x.plan = turn[t].plan
    PROVE  /\ turn' \in [Turns -> Turn] /\ TurnsOK'
           /\ \A q : Batched(q) => Batched(q)'
           /\ x.cmd = "APPROVE_BATCH" => Batched(x.plan)'
<1>1. turn' \in [Turns -> Turn] /\ turn'[t] = x /\ \A u \in Turns \ {t} : turn'[u] = turn[u]
  BY DEF TypeOK
<1>2. \A q : Batched(q) => Batched(q)'
  BY <1>1 DEF Batched
<1>3. TurnsOK'
  <2>1. ASSUME NEW u \in Turns, u # t
        PROVE  WellFormed(turn'[u]) /\ (turn'[u].wrote > 1 => (Batched(turn[u].plan))')
    BY <1>1, <1>2, <2>1 DEF TurnsOK, Batched
  <2>2. WellFormed(turn'[t]) /\ (turn'[t].wrote > 1 => (Batched(turn[t].plan))')
    BY <1>1, <1>2 DEF Batched
  <2> QED
    BY <2>1, <2>2 DEF TurnsOK, WellFormed
<1> QED
  BY <1>1, <1>2, <1>3 DEF Batched

LEMMA KeepStep ==
    ASSUME PlanInv, NEW p \in Plans, NEW f \in Entries(p), plans[p] # gone, ClosedIfLive(p, f),
           plans[p] = unsaved \/ active = p => Timed(f), Keep(p, f)
    PROVE  /\ plans'[p] = f
           /\ \A q \in Plans \ {p} :
                 plans'[q] = plans[q] \/ (plans'[q] = gone /\ plans[p] = unsaved /\ active = q)
           /\ active' \in Plans \union {NoPlan}
           /\ active' # NoPlan => active' = active \/ (active' = p /\ plans[p] = unsaved)
           /\ \A q \in Plans : plans'[q] \in Entries(q) \union {unsaved, gone}
           /\ ActivePlanIsLive'
<1>1. /\ \A q \in Plans : plans'[q] = CASE q = p -> f [] q \in Replaced(p) -> gone [] OTHER -> plans[q]
      /\ active' = LET room == IF plans[p] = unsaved THEN p ELSE active
                   IN  IF f.grace /\ room = p THEN NoPlan ELSE room
  BY DEF Keep
<1>2. p \notin Replaced(p) /\ \A q \in Replaced(p) : plans[p] = unsaved /\ active = q
  BY DEF Replaced
<1>3. /\ plans'[p] = f
      /\ \A q \in Plans \ {p} :
            plans'[q] = plans[q] \/ (plans'[q] = gone /\ plans[p] = unsaved /\ active = q)
  BY <1>1, <1>2
<1>4. /\ active' \in Plans \union {NoPlan}
      /\ active' # NoPlan => active' = active \/ (active' = p /\ plans[p] = unsaved)
  BY <1>1 DEF PlanInv, TypeOK
<1>5. \A q \in Plans : plans'[q] \in Entries(q) \union {unsaved, gone}
  BY <1>3 DEF PlanInv, TypeOK
<1>6. ActivePlanIsLive'
  <2> SUFFICES ASSUME active' # NoPlan
               PROVE  /\ plans'[active'].status \notin {"unsaved", "gone"} \union TERMINAL_STATUSES
                      /\ plans'[active'].sweep
    BY DEF ActivePlanIsLive, Saved
  <2>1. CASE active' = p
    <3>1. ~f.grace /\ (plans[p] = unsaved \/ active = p)
      BY <1>1, <2>1, RunnerAssumption
    <3>2. f.sweep /\ f.status \notin TERMINAL_STATUSES
      BY <3>1 DEF Timed, Closed, ClosedIfLive
    <3>3. f.status \notin {"unsaved", "gone"}
      BY EntryFields DEF Statuses, TERMINAL_STATUSES
    <3> QED
      BY <1>3, <2>1, <3>2, <3>3
  <2>2. CASE active' # p
    <3>1. active' = active /\ plans[p] # unsaved
      BY <1>1, <2>2
    <3>2. plans'[active] = plans[active]
      BY <1>3, <1>4, <2>2, <3>1
    <3> QED
      BY <3>1, <3>2 DEF PlanInv, ActivePlanIsLive, Saved
  <2> QED
    BY <2>1, <2>2
<1> QED
  BY <1>3, <1>4, <1>5, <1>6

LEMMA EntryIsSaved ==
    ASSUME TypeOK, NEW p \in Plans, plans[p] \notin {unsaved, gone}
    PROVE  Saved(p)
<1>1. plans[p] \in Entries(p)
  BY DEF TypeOK
<1>2. plans[p].status \in Statuses
  BY <1>1, EntryFields
<1> QED
  BY <1>2 DEF Saved, Statuses, TERMINAL_STATUSES

\* A turn's steps answer, others are begun.
LEMMA FlightStep ==
    ASSUME PlanInv, NEW t \in Turns, NEW p \in Plans, NEW r, NEW x, NEW f \in Entries(p),
           r.todo = {} \/ (p = turn[t].plan /\ r.todo = turn[t].todo),
           turn'[t] = x, \A u \in Turns \ {t} : turn'[u] = turn[u],
           x.plan = p, x.todo \subseteq DOMAIN Steps[p],
           \A i \in x.todo : sent[p][i] = 0 /\ \A d \in Steps[p][i].needs : f.steps[d] = "ok",
           \A i \in DOMAIN Steps[p] \ r.todo :
              /\ f.steps[i] = "ok" => Saved(p) /\ plans[p].steps[i] = "ok"
              /\ Saved(p) /\ plans[p].steps[i] \in Over => f.steps[i] \in Over,
           plans[p] # gone, plans'[p] = f,
           \A q \in Plans \ {p} : plans'[q] = plans[q] \/ plans'[q] = gone,
           \A q \in Plans \ {p} : sent'[q] = sent[q],
           \A i \in DOMAIN Steps[p] : sent'[p][i] = IF i \in x.todo THEN 1 ELSE sent[p][i]
    PROVE  FlightOK' /\ DependenciesMet'
<1>1. FlightOK /\ DependenciesMet /\ TurnsOK /\ TypeOK
  BY DEF PlanInv
<1>2. ASSUME NEW u \in Turns, turn[u].todo # {}
      PROVE  turn[u].plan \in Plans /\ turn[u].todo \subseteq DOMAIN Steps[turn[u].plan]
  BY <1>1, <1>2 DEF TurnsOK, WellFormed, TypeOK, Turn, fresh
<1>3. \A u \in Turns \ {t} : turn[u].plan = p => turn[u].todo \intersect x.todo = {}
  BY <1>1 DEF FlightOK
\* What had answered goes on having answered.
<1>4. ASSUME NEW q \in Plans, NEW i \in DOMAIN Steps[q], HasAnswered(q, i) PROVE HasAnswered(q, i)'
  <2>1. sent'[q][i] = 1
    BY <1>4 DEF HasAnswered
  <2>2. ~(q = p /\ i \in x.todo)
    BY <1>4 DEF HasAnswered
  <2> QED
    BY <1>4, <2>1, <2>2 DEF HasAnswered, Waits
\* And what the turn waited for has.
<1>5. ASSUME NEW i \in r.todo, i \in DOMAIN Steps[p] PROVE HasAnswered(p, i)'
  <2>1. sent[p][i] = 1 /\ i \notin x.todo /\ turn[t].plan = p /\ i \in turn[t].todo
    BY <1>1, <1>5 DEF FlightOK
  <2>2. \A u \in Turns \ {t} : turn[u].plan = p => i \notin turn[u].todo
    BY <1>1, <2>1 DEF FlightOK
  <2> QED
    BY <1>5, <2>1, <2>2 DEF HasAnswered, Waits
<1>6. ASSUME NEW i \in DOMAIN Steps[p], f.steps[i] = "ok" PROVE HasAnswered(p, i)'
  BY <1>1, <1>4, <1>5, <1>6 DEF FlightOK
<1>7. FlightOK'
  <2>1. ASSUME NEW u \in Turns, NEW i \in turn'[u].todo PROVE sent'[turn'[u].plan][i] = 1
    <3>1. CASE u = t
      BY <2>1, <3>1
    <3>2. CASE u # t
      BY <1>1, <1>2, <2>1, <3>2 DEF FlightOK
    <3> QED
      BY <3>1, <3>2
  <2>2. ASSUME NEW u \in Turns, NEW v \in Turns, turn'[u].plan = turn'[v].plan, u # v
        PROVE  turn'[u].todo \intersect turn'[v].todo = {}
    BY <1>1, <1>3, <2>2 DEF FlightOK
  <2>3. ASSUME NEW q \in Plans, NEW i \in DOMAIN Steps[q],
               plans'[q].status \notin {"unsaved", "gone"}, plans'[q].steps[i] = "ok"
        PROVE  HasAnswered(q, i)'
    <3>1. CASE q = p
      BY <1>6, <2>3, <3>1
    <3>2. CASE q # p
      BY <1>1, <1>4, <2>3, <3>2 DEF FlightOK, Saved, gone
    <3> QED
      BY <3>1, <3>2
  <2> QED
    BY <2>1, <2>2, <2>3 DEF FlightOK, Saved
<1>8. DependenciesMet'
  <2> SUFFICES ASSUME NEW q \in Plans, NEW i \in DOMAIN Steps[q], sent'[q][i] > 0,
                      NEW d \in Steps[q][i].needs
               PROVE  /\ HasAnswered(q, d)'
                      /\ plans'[q].status \notin {"unsaved", "gone"} => plans'[q].steps[d] \in Over
    BY DEF DependenciesMet, Saved
  <2>1. d \in DOMAIN Steps[q]
    BY StepsAssumption
  <2>2. CASE q = p /\ i \in x.todo
    BY <1>6, <2>1, <2>2 DEF Over
  <2>3. CASE ~(q = p /\ i \in x.todo)
    <3>1. sent[q][i] > 0
      BY <2>3
    <3>2. HasAnswered(q, d) /\ (Saved(q) => plans[q].steps[d] \in Over)
      BY <1>1, <3>1 DEF DependenciesMet
    <3>3. CASE q = p
      <4>1. d \notin r.todo
        BY <3>2, <3>3 DEF HasAnswered, Waits
      <4>2. Saved(p)
        <5>1. plans[p] # unsaved
          BY <1>1, <3>1, <3>3 DEF PlanInv, StoreOK
        <5>2. plans[p] # gone
          OBVIOUS
        <5> QED
          BY <1>1, <5>1, <5>2, EntryIsSaved
      <4>3. HasAnswered(p, d)'
        BY <1>4, <2>1, <3>2, <3>3
      <4>4. f.steps[d] \in Over
        BY <2>1, <3>2, <3>3, <4>1, <4>2
      <4> QED
        BY <3>3, <4>3, <4>4
    <3>4. CASE q # p
      BY <1>4, <2>1, <3>2, <3>4 DEF Saved, gone
    <3> QED
      BY <3>3, <3>4
  <2> QED
    BY <2>2, <2>3
<1> QED
  BY <1>7, <1>8

LEMMA StretchStep ==
    ASSUME PlanInv, NEW t \in Turns, NEW p \in Plans, NEW r, Stretch(t, p, r),
           turn[t].cmd = "APPROVE_BATCH" => r.cmd = turn[t].cmd /\ p = turn[t].plan,
           r.todo = {} \/ (p = turn[t].plan /\ r.todo = turn[t].todo), edits' = edits,
           \/ ended' = ended
           \/ /\ plans[p] = unsaved
              /\ ended' = [q \in Plans |-> IF q \in Replaced(p) THEN "replaced" ELSE ended[q]]
    PROVE  PlanInv'
<1>1. PICK f \in Entries(p), x \in Turn :
        /\ Sound(p, r, f) /\ ClosedIfLive(p, f) /\ Keep(p, f)
        /\ turn' = [turn EXCEPT ![t] = x]
        /\ x.at \in {"reads", "write", "done"} /\ x.plan = p /\ x.cmd = r.cmd
        /\ x.at = "reads" => x.wrote = 0 /\ x.cmd \in Starting
        /\ x.wrote > 1 => Batched(p)
        /\ x.todo \subseteq DOMAIN Steps[p] /\ (x.at # "done" <=> x.todo # {})
        /\ x.todo \intersect Pending(f) = {}
        /\ \A i \in x.todo : \A d \in Steps[p][i].needs : f.steps[d] = "ok"
        /\ \A i \in x.todo : sent[p][i] = 0
        /\ (x.todo = {} /\ sent' = sent) \/ Invoke(p, x.todo)
        /\ modal' = modal \/ modal' \in {p} \X Writes(p)
  BY DEF Stretch
<1>2. /\ turn' \in [Turns -> Turn] /\ TurnsOK'
      /\ \A q : Batched(q) => Batched(q)'
      /\ r.cmd = "APPROVE_BATCH" => Batched(p)'
  <2>1. WellFormed(x)
    BY <1>1 DEF WellFormed
  <2>2. x.wrote > 1 => Batched(x.plan)
    BY <1>1
  <2>3. turn[t].cmd = "APPROVE_BATCH" => x.cmd = turn[t].cmd /\ x.plan = turn[t].plan
    BY <1>1
  <2>4. TypeOK /\ TurnsOK
    BY DEF PlanInv
  <2> QED
    BY <1>1, <2>1, <2>2, <2>3, <2>4, TurnStep
<1>3. /\ plans'[p] = f
      /\ \A q \in Plans \ {p} :
            plans'[q] = plans[q] \/ (plans'[q] = gone /\ plans[p] = unsaved /\ active = q)
      /\ active' \in Plans \union {NoPlan}
      /\ active' # NoPlan => active' = active \/ (active' = p /\ plans[p] = unsaved)
      /\ \A q \in Plans : plans'[q] \in Entries(q) \union {unsaved, gone}
      /\ ActivePlanIsLive'
  BY <1>1, KeepStep DEF Sound
<1>4. /\ \A q \in Plans \ {p} : sent'[q] = sent[q]
      /\ sent'[p] \in [DOMAIN Steps[p] -> Nat]
      /\ \A i \in DOMAIN Steps[p] : sent'[p][i] = IF i \in x.todo THEN 1 ELSE sent[p][i]
  <2>0. sent[p] \in [DOMAIN Steps[p] -> Nat]
    BY DEF PlanInv, TypeOK
  <2>1. CASE x.todo = {} /\ sent' = sent
    BY <2>0, <2>1
  <2>2. CASE Invoke(p, x.todo)
    <3>1. sent' = [sent EXCEPT ![p] = [i \in DOMAIN sent[p] |-> IF i \in x.todo THEN sent[p][i] + 1 ELSE sent[p][i]]]
      BY <2>2 DEF Invoke
    <3>2. sent = [q \in Plans |-> sent[q]]
      BY DEF PlanInv, Tables
    <3> DEFINE row == [i \in DOMAIN sent[p] |-> IF i \in x.todo THEN sent[p][i] + 1 ELSE sent[p][i]]
    <3>3. \A i \in DOMAIN Steps[p] : row[i] = IF i \in x.todo THEN 1 ELSE sent[p][i]
      BY <1>1, <2>0
    <3>4. row \in [DOMAIN Steps[p] -> Nat]
      BY <2>0
    <3>5. sent' = [sent EXCEPT ![p] = row]
      BY <3>1
    <3> HIDE DEF row
    <3> QED
      BY <3>2, <3>3, <3>4, <3>5
  <2> QED
    BY <1>1, <2>1, <2>2
<1>5. TypeOK'
  <2>1. modal' \in {noModal} \union UNION {{q} \X Writes(q) : q \in Plans}
    BY <1>1 DEF PlanInv, TypeOK
  <2>2. \A q \in Plans : sent'[q] \in [DOMAIN Steps[q] -> Nat]
    BY <1>4 DEF PlanInv, TypeOK
  <2>3. ended' \in [Plans -> {"no", "cancelled", "replaced"}]
    BY DEF PlanInv, TypeOK
  <2> QED
    BY <1>2, <1>3, <2>1, <2>2, <2>3 DEF PlanInv, TypeOK
<1>6. StoreOK'
  <2> SUFFICES ASSUME NEW q \in Plans
               PROVE  /\ plans'[q] = unsaved => \A i \in DOMAIN Steps[q] : sent'[q][i] = 0
                      /\ plans'[q].status \notin {"unsaved", "gone"} =>
                            /\ \A i \in Pending(plans'[q]) : sent'[q][i] = 0
                            /\ StopsOnFailure(plans'[q])
                            /\ plans'[q].mode = "batch" => Batched(q)'
    BY DEF StoreOK, Saved, Pending, StopsOnFailure, Failed, Left
  <2>1. CASE q = p
    <3>1. plans'[p] # unsaved
      BY <1>3, EntryFields
    <3>2. \A i \in Pending(f) : sent'[p][i] = 0
      BY <1>1, <1>4, EntryFields DEF Sound
    <3>3. StopsOnFailure(f) /\ (f.mode = "batch" => Batched(p)')
      BY <1>1, <1>2 DEF Sound
    <3> QED
      BY <1>3, <2>1, <3>1, <3>2, <3>3
  <2>2. CASE q # p /\ plans'[q] = plans[q]
    BY <1>2, <1>4, <2>2 DEF PlanInv, StoreOK, Saved
  <2>3. CASE plans'[q] = gone
    BY <2>3 DEF gone, unsaved
  <2> QED
    BY <1>3, <2>1, <2>2, <2>3
<1>7. StepsRunOnce'
  <2>1. \A i \in DOMAIN Steps[p] : sent'[p][i] <= 1
    BY <1>4 DEF PlanInv, StepsRunOnce, TypeOK
  <2> QED
    BY <1>4, <2>1 DEF PlanInv, StepsRunOnce, TypeOK
<1>8. EndedOK'
  <2>0. plans[p] # gone /\ f # unsaved /\ f # gone
    BY <1>1, EntryFields DEF Sound
  <2>1. CASE ended' = ended
    BY <1>3, <2>0, <2>1 DEF PlanInv, EndedOK
  <2>2. CASE /\ plans[p] = unsaved
             /\ ended' = [q \in Plans |-> IF q \in Replaced(p) THEN "replaced" ELSE ended[q]]
    <3>1. p \notin Replaced(p)
      BY DEF Replaced
    <3>2. \A q \in Replaced(p) : plans'[q] = gone /\ active # NoPlan /\ q = active
      BY <1>1, <3>1, RunnerAssumption DEF Keep, Replaced
    <3>3. \A q \in Plans : plans'[q] = unsaved => plans[q] = unsaved /\ ended'[q] = ended[q]
      BY <1>3, <2>0, <2>2, <3>2 DEF gone, unsaved
    <3>4. \A q \in Plans : plans[q] = gone => plans'[q] = gone
      BY <1>3, <2>0
    <3>5. active' # NoPlan => ended'[active'] = "no"
      BY <1>1, <1>3, <2>2, <3>1, <3>2 DEF PlanInv, EndedOK, Keep
    <3> QED
      BY <2>2, <3>2, <3>3, <3>4, <3>5 DEF PlanInv, EndedOK
  <2> QED
    BY <2>1, <2>2
<1>9. Tables'
  <2>1. plans' = [q \in Plans |-> plans'[q]]
    BY <1>1 DEF Keep
  <2>2. sent' = [q \in Plans |-> sent'[q]]
    BY <1>1 DEF Invoke, PlanInv, Tables
  <2> QED
    BY <2>1, <2>2 DEF Tables
<1>10. turn'[t] = x /\ \A u \in Turns \ {t} : turn'[u] = turn[u]
  BY <1>1 DEF PlanInv, TypeOK
<1>11. FlightOK' /\ DependenciesMet'
  <2>1. /\ x.plan = p /\ x.todo \subseteq DOMAIN Steps[p] /\ f \in Entries(p) /\ plans[p] # gone
        /\ \A i \in x.todo : sent[p][i] = 0 /\ \A d \in Steps[p][i].needs : f.steps[d] = "ok"
        /\ \A i \in DOMAIN Steps[p] \ r.todo :
              /\ f.steps[i] = "ok" => Saved(p) /\ plans[p].steps[i] = "ok"
              /\ Saved(p) /\ plans[p].steps[i] \in Over => f.steps[i] \in Over
    BY <1>1 DEF Sound
  <2> QED
    BY <1>3, <1>4, <1>10, <2>1, FlightStep
<1> QED
  BY <1>2, <1>3, <1>5, <1>6, <1>7, <1>8, <1>9, <1>11 DEF PlanInv

\* A step that begins no step of a plan: entries are annotated, cancelled or
\* removed.
Calmed(q, e, f) ==
    /\ e \in Entries(q) /\ f \in Entries(q)
    /\ Pending(f) \subseteq Pending(e) /\ f.mode = e.mode
    /\ StopsOnFailure(e) => StopsOnFailure(f)
    /\ \A i \in DOMAIN Steps[q] :
          /\ f.steps[i] = "ok" => e.steps[i] = "ok"
          /\ e.steps[i] \in Over => f.steps[i] \in Over

\* No turn begins a step, and one that starts takes up the room's plan or none.
Quiet ==
    /\ sent' = sent
    /\ \A u \in Turns :
          /\ turn'[u].wrote = turn[u].wrote
          /\ turn[u].at = "idle" => turn'[u].plan \in {NoPlan, active}
          /\ turn'[u].todo = {} \/ (turn'[u].todo = turn[u].todo /\ turn'[u].plan = turn[u].plan)

LEMMA CalmStep ==
    ASSUME PlanInv, Quiet,
           turn' \in [Turns -> Turn], TurnsOK', \A q : Batched(q) => Batched(q)',
           plans' = [q \in Plans |-> plans'[q]],
           \A q \in Plans : plans'[q] = plans[q] \/ plans'[q] = gone \/ Calmed(q, plans[q], plans'[q]),
           active' \in {active, NoPlan}, active' # NoPlan => plans'[active] = plans[active],
           modal' \in {noModal} \union UNION {{q} \X Writes(q) : q \in Plans},
           edits' \subseteq UNION {{q} \X Writes(q) \X Writes(q) : q \in Plans},
           ended' \in [Plans -> {"no", "cancelled", "replaced"}],
           \A q \in Plans :
              ended'[q] = ended[q] \/ (ended'[q] = "cancelled" /\ Saved(q) /\ active' # q)
    PROVE  PlanInv'
<1>0. sent' = sent
  BY DEF Quiet
<1>1. Tables'
  BY <1>0 DEF PlanInv, Tables
<1>2. TypeOK'
  BY <1>0 DEF PlanInv, TypeOK, Calmed
<1>3. StoreOK'
  <2> SUFFICES ASSUME NEW q \in Plans
               PROVE  /\ plans'[q] = unsaved => \A i \in DOMAIN Steps[q] : sent[q][i] = 0
                      /\ plans'[q].status \notin {"unsaved", "gone"} =>
                            /\ \A i \in Pending(plans'[q]) : sent[q][i] = 0
                            /\ StopsOnFailure(plans'[q])
                            /\ plans'[q].mode = "batch" => Batched(q)'
    BY <1>0 DEF StoreOK, Saved, Pending, StopsOnFailure, Failed, Left
  <2>1. CASE plans'[q] = plans[q]
    BY <2>1 DEF PlanInv, StoreOK, Saved
  <2>2. CASE plans'[q] = gone
    BY <2>2 DEF gone, unsaved
  <2>3. CASE Calmed(q, plans[q], plans'[q])
    <3>1. Saved(q)
      BY <2>3, EntryFields DEF Calmed, Saved, Statuses, TERMINAL_STATUSES
    <3>2. plans'[q] # unsaved
      BY <2>3, EntryFields DEF Calmed
    <3> QED
      BY <2>3, <3>1, <3>2 DEF PlanInv, StoreOK, Calmed
  <2> QED
    BY <2>1, <2>2, <2>3
<1>4. StepsRunOnce'
  BY <1>0 DEF PlanInv, StepsRunOnce
<1>5. ActivePlanIsLive'
  BY DEF PlanInv, ActivePlanIsLive, Saved
<1>6. EndedOK'
  <2>1. ASSUME NEW q \in Plans PROVE plans[q] = gone => plans'[q] = gone
    BY EntryFields DEF Calmed
  <2>2. ASSUME NEW q \in Plans PROVE plans'[q] = unsaved => plans[q] = unsaved /\ ~Saved(q)
    BY EntryFields DEF Calmed, Saved, unsaved, gone
  <2>3. active' # NoPlan => active' \in Plans /\ active' = active
    BY DEF PlanInv, TypeOK
  <2> QED
    BY <2>1, <2>2, <2>3 DEF PlanInv, EndedOK
<1>7. ASSUME NEW q \in Plans, plans'[q].status \notin {"unsaved", "gone"}
      PROVE  /\ Saved(q)
             /\ \A i \in DOMAIN Steps[q] :
                   /\ plans'[q].steps[i] = "ok" => plans[q].steps[i] = "ok"
                   /\ plans[q].steps[i] \in Over => plans'[q].steps[i] \in Over
  <2>1. CASE plans'[q] = plans[q]
    BY <1>7, <2>1 DEF Saved
  <2>2. CASE plans'[q] = gone
    BY <1>7, <2>2 DEF gone
  <2>3. CASE Calmed(q, plans[q], plans'[q])
    BY <2>3, EntryFields DEF Calmed, Saved, Statuses, TERMINAL_STATUSES
  <2> QED
    BY <2>1, <2>2, <2>3
<1>8. ASSUME NEW q \in Plans, NEW i \in DOMAIN Steps[q], HasAnswered(q, i) PROVE HasAnswered(q, i)'
  BY <1>0, <1>8 DEF HasAnswered, Waits, Quiet
<1>9. FlightOK'
  <2>1. FlightOK
    BY DEF PlanInv
  <2>2. \A u \in Turns : \A i \in turn'[u].todo : sent'[turn'[u].plan][i] = 1
    BY <2>1 DEF FlightOK, Quiet
  <2>3. \A u, v \in Turns : turn'[u].plan = turn'[v].plan /\ u # v =>
            turn'[u].todo \intersect turn'[v].todo = {}
    BY <2>1 DEF FlightOK, Quiet
  <2>4. \A q \in Plans : \A i \in DOMAIN Steps[q] :
            plans'[q].status \notin {"unsaved", "gone"} /\ plans'[q].steps[i] = "ok" => HasAnswered(q, i)'
    BY <1>7, <1>8, <2>1 DEF FlightOK
  <2> QED
    BY <2>2, <2>3, <2>4 DEF FlightOK, Saved
<1>10. DependenciesMet'
  <2> SUFFICES ASSUME NEW q \in Plans, NEW i \in DOMAIN Steps[q], sent'[q][i] > 0,
                      NEW d \in Steps[q][i].needs
               PROVE  /\ HasAnswered(q, d)'
                      /\ plans'[q].status \notin {"unsaved", "gone"} => plans'[q].steps[d] \in Over
    BY DEF DependenciesMet, Saved
  <2>1. d \in DOMAIN Steps[q]
    BY StepsAssumption
  <2>2. HasAnswered(q, d) /\ (Saved(q) => plans[q].steps[d] \in Over)
    BY <1>0 DEF PlanInv, DependenciesMet
  <2> QED
    BY <1>7, <1>8, <2>1, <2>2
<1> QED
  BY <1>1, <1>2, <1>3, <1>4, <1>5, <1>6, <1>9, <1>10 DEF PlanInv

\* A turn does what one stretch of code does.
Began ==
    \E t \in Turns, p \in Plans, r \in Turn :
        Stretch(t, p, r) /\ r.wrote = turn[t].wrote /\ (turn[t].at = "idle" => active = p)

LEMMA Unstarted ==
    ASSUME TypeOK, TurnsOK
    PROVE  \A u \in Turns : turn[u].at = "idle" => turn[u].plan = NoPlan
  BY DEF TurnsOK, WellFormed, fresh

\* A turn that ends, or goes on to the language model.
LEMMA TurnMoves ==
    ASSUME PlanInv, NEW t \in Turns, NEW x \in Turn, turn' = [turn EXCEPT ![t] = x],
           x.wrote = turn[t].wrote, WellFormed(x), x.todo = {}, sent' = sent,
           x.wrote > 1 => x.plan = turn[t].plan,
           turn[t].cmd = "APPROVE_BATCH" => x.cmd = turn[t].cmd /\ x.plan = turn[t].plan,
           turn[t].at = "idle" => x.plan \in {NoPlan, active}
    PROVE  /\ turn' \in [Turns -> Turn] /\ TurnsOK' /\ Quiet
           /\ \A q : Batched(q) => Batched(q)'
<1>1. x.wrote > 1 => Batched(x.plan)
  BY DEF PlanInv, TurnsOK
<1>2. TypeOK /\ TurnsOK
  BY DEF PlanInv
<1>3. Quiet
  BY <1>2, Unstarted DEF Quiet, TypeOK
<1> QED
  BY <1>1, <1>2, <1>3, TurnStep

LEMMA OnlyTurnMoves ==
    ASSUME PlanInv, Quiet, UNCHANGED <<plans, active, modal, edits, sent, ended>>,
           turn' \in [Turns -> Turn], TurnsOK', \A q : Batched(q) => Batched(q)'
    PROVE  PlanInv'
<1>1. /\ plans' = [q \in Plans |-> plans'[q]]
      /\ modal' \in {noModal} \union UNION {{q} \X Writes(q) : q \in Plans}
      /\ edits' \subseteq UNION {{q} \X Writes(q) \X Writes(q) : q \in Plans}
      /\ ended' \in [Plans -> {"no", "cancelled", "replaced"}]
  BY DEF PlanInv, Tables, TypeOK
<1> QED
  BY <1>1, CalmStep

LEMMA CalmFrom ==
    ASSUME NEW q \in Plans, NEW e \in Entries(q), NEW f, From(q, e, f)
    PROVE  Calmed(q, e, f)
  BY DEF From, Onward, Calmed

\* cancelPlan ends the turn.
LEMMA CancelStep ==
    ASSUME PlanInv, NEW p \in Plans, Saved(p), NEW f, From(p, plans[p], f),
           f.status = plans[p].status, CancelPlan(p, f),
           Quiet, turn' \in [Turns -> Turn], TurnsOK', \A q : Batched(q) => Batched(q)',
           UNCHANGED <<modal, edits, sent>>
    PROVE  PlanInv'
<1>1. plans[p] \in Entries(p) /\ f \in Entries(p) /\ Tables
  BY StoredIsSound DEF From, Onward, PlanInv
<1>2. /\ modal' \in {noModal} \union UNION {{q} \X Writes(q) : q \in Plans}
      /\ edits' \subseteq UNION {{q} \X Writes(q) \X Writes(q) : q \in Plans}
      /\ ended \in [Plans -> {"no", "cancelled", "replaced"}]
  BY DEF PlanInv, TypeOK
<1>3. CASE f.status \in TERMINAL_STATUSES
  <2>1. plans' = [plans EXCEPT ![p] = f] /\ UNCHANGED <<active, ended>>
    BY <1>3 DEF CancelPlan
  <2>2. active # p
    BY <1>3, RunnerAssumption DEF PlanInv, ActivePlanIsLive
  <2>3. Calmed(p, plans[p], f)
    BY <1>1, CalmFrom
  <2>4. plans' = [q \in Plans |-> plans'[q]] /\ plans'[p] = f /\ \A q \in Plans \ {p} : plans'[q] = plans[q]
    BY <1>1, <2>1 DEF Tables
  <2>5. active # NoPlan => plans'[active] = plans[active]
    BY <2>2, <2>4 DEF PlanInv, TypeOK
  <2> QED
    BY <1>2, <2>1, <2>3, <2>4, <2>5, CalmStep
<1>4. CASE f.status \notin TERMINAL_STATUSES
  <2> DEFINE g == [f EXCEPT !.status = "cancelled", !.sweep = FALSE]
  <2>1. /\ plans' = [plans EXCEPT ![p] = g]
        /\ active' = IF active = p THEN NoPlan ELSE active
        /\ ended' = [ended EXCEPT ![p] = "cancelled"]
    BY <1>4 DEF CancelPlan
  <2>2. g \in Entries(p) /\ g.steps = f.steps /\ g.cursor = f.cursor /\ g.mode = f.mode
    BY <1>1 DEF Entries, Statuses, TERMINAL_STATUSES
  <2> HIDE DEF g
  <2>3. Pending(g) = Pending(f) /\ (StopsOnFailure(f) => StopsOnFailure(g))
    BY <2>2 DEF Pending, StopsOnFailure, Failed, Left
  <2>4. Calmed(p, plans[p], g)
    BY <1>1, <2>2, <2>3 DEF Calmed, From, Onward
  <2>5. plans' = [q \in Plans |-> plans'[q]] /\ plans'[p] = g /\ \A q \in Plans \ {p} : plans'[q] = plans[q]
    BY <1>1, <2>1 DEF Tables
  <2>6. active' \in {active, NoPlan} /\ active' # p
    BY <2>1, RunnerAssumption
  <2>7. active' # NoPlan => plans'[active] = plans[active]
    BY <2>5, <2>6 DEF PlanInv, TypeOK
  <2>8. /\ ended' \in [Plans -> {"no", "cancelled", "replaced"}]
        /\ \A q \in Plans : ended'[q] = ended[q] \/ (ended'[q] = "cancelled" /\ Saved(q) /\ active' # q)
    BY <1>2, <2>1, <2>6
  <2> QED
    BY <1>2, <2>4, <2>5, <2>6, <2>7, <2>8, CalmStep
<1> QED
  BY <1>3, <1>4

\* applyContinuation.
LEMMA ObeyStep ==
    ASSUME PlanInv, NEW t \in Turns, NEW r, r.plan \in Plans, Saved(r.plan),
           Record(r.plan, r), r.wrote = 0, r.todo = {}, r.seen.next \in Writes(r.plan) \union {None},
           turn[t].wrote = 0, turn[t].cmd # "APPROVE_BATCH", turn[t].at = "idle" => active = r.plan,
           Obey(t, r, plans[r.plan]), edits' = edits
    PROVE  PlanInv' /\ (Quiet \/ Began)
<1> DEFINE p == r.plan
           e == plans[p]
           next == r.seen.next
           skip(h) == [h EXCEPT !.steps[next] = "skipped"]
           Answer(f) == Keep(p, f) /\ Done(t, r) /\ UNCHANGED <<modal, sent, ended>>
           End(f) == CancelPlan(p, f) /\ Done(t, r) /\ UNCHANGED <<modal, sent>>
           x == [r EXCEPT !.at = "done", !.todo = {}]
<1>1. p \in Plans /\ e \in Entries(p) /\ Sound(p, r, e) /\ r \in Turn /\ r.plan = p
  BY StoredIsSound DEF Record
<1>2. PICK heard \in {IF r.seen.nudges = 0 THEN e ELSE updated([e EXCEPT !.nudges = 0])} :
          \/ r.cmd = "CANCEL_PLAN" /\ End(heard)
          \/ r.cmd = "SKIP_STEP" /\ next = None /\ Answer(heard)
          \/ /\ r.cmd = "SKIP_STEP" /\ next # None
             /\ DrainReads(t, r, Decided(p, advanceCursor(p, skip(heard))))
             /\ UNCHANGED ended
          \/ /\ r.cmd = "APPROVE_BATCH"
             /\ DrainReads(t, r, updated([heard EXCEPT !.mode = "batch"])) /\ UNCHANGED ended
          \/ r.cmd = "APPROVE_NEXT" /\ DrainReads(t, r, heard) /\ UNCHANGED ended
          \/ r.cmd = "EXECUTION_STATUS" /\ Answer(heard)
          \/ r.cmd = "DELEGATE" /\ next = None /\ Answer(heard)
          \/ /\ r.cmd = "DELEGATE" /\ next # None
             /\ Keep(p, Awaiting(heard)) /\ ShowModal(p, next) /\ Done(t, r)
             /\ UNCHANGED <<sent, ended>>
          \/ r.cmd = "MODIFY" /\ Answer(Awaiting([e EXCEPT !.nudges = 0]))
          \/ r.cmd = "NON_TRADING" /\ Answer(heard)
          \/ r.cmd = "UNCLEAR" /\ r.seen.nudges = 0 /\ Answer(updated([e EXCEPT !.nudges = 1]))
          \/ r.cmd = "UNCLEAR" /\ r.seen.nudges = 1 /\ End(e)
  BY Zenon DEF Obey
<1>3. heard \in Entries(p) /\ From(p, e, heard) /\ heard.status = e.status
      /\ Sound(p, r, heard) /\ ClosedIfLive(p, heard)
  <2>1. active = p => Closed(e)
    BY RunnerAssumption DEF PlanInv, ActivePlanIsLive, Closed
  <2>2. e # unsaved
    BY <1>1, EntryFields
  <2>3. CASE heard = e
    BY <1>1, <2>1, <2>2, <2>3, FromSame DEF ClosedIfLive
  <2>4. CASE heard = updated([e EXCEPT !.nudges = 0])
    <3> DEFINE h == [e EXCEPT !.nudges = 0]
    <3>1. From(p, e, h) /\ h.status = e.status
      <4>1. h.status = e.status
        BY <1>1 DEF Entries
      <4> HIDE DEF e
      <4> QED
        BY <1>1, <4>1, FromNudges
    <3> HIDE DEF h
    <3>2. h \in Entries(p)
      BY <3>1 DEF From, Onward
    <3>3. From(p, h, updated(h)) /\ Closed(updated(h)) /\ updated(h).status = h.status
      <4>1. updated(h).status = h.status
        BY <3>2 DEF updated, Entries
      <4> QED
        BY <3>2, <4>1, FromUpdated
    <3>4. From(p, e, updated(h))
      BY <1>1, <3>1, <3>3, FromAgain
    <3>5. heard = updated(h)
      BY <2>4 DEF h
    <3> HIDE DEF e
    <3> QED
      BY <1>1, <3>1, <3>3, <3>4, <3>5, SoundFrom DEF ClosedIfLive, From, Onward
  <2> QED
    BY <1>2, <2>3, <2>4
<1>4. ASSUME Stretch(t, p, r), ended' = ended PROVE PlanInv' /\ Began
  BY <1>1, <1>4, StretchStep DEF Began
<1>5. ASSUME NEW f, Sound(p, r, f), ClosedIfLive(p, f), Answer(f) PROVE PlanInv' /\ Began
  BY <1>4, <1>5, DoneStretch
<1>6. ASSUME NEW f, Sound(p, r, f), DrainReads(t, r, f), ended' = ended, r.cmd \in AskedFor
      PROVE  PlanInv' /\ Began
  BY <1>4, <1>6, DrainStretch DEF Starting
<1>7. ASSUME NEW f, From(p, e, f), f.status = e.status, End(f) PROVE PlanInv' /\ Quiet
  <2>1. x \in Turn /\ x.at = "done" /\ x.wrote = r.wrote /\ x.plan = p /\ x.todo = {}
    BY <1>1 DEF Turn
  <2>2. turn' = [turn EXCEPT ![t] = x] /\ sent' = sent
    BY <1>7 DEF Done, Await
  <2>3. WellFormed(x)
    BY <2>1 DEF WellFormed
  <2>4. ~(x.wrote > 1) /\ x.wrote = turn[t].wrote
    BY <2>1
  <2> HIDE DEF x, e
  <2>5. turn' \in [Turns -> Turn] /\ TurnsOK' /\ Quiet /\ \A q : Batched(q) => Batched(q)'
    BY <2>1, <2>2, <2>3, <2>4, TurnMoves
  <2> QED
    BY <1>7, <2>5, CancelStep DEF e
<1>8. CASE \/ r.cmd = "CANCEL_PLAN" /\ End(heard)
           \/ r.cmd = "UNCLEAR" /\ r.seen.nudges = 1 /\ End(e)
  BY <1>1, <1>3, <1>7, <1>8, FromSame
<1>9. CASE Answer(heard)
  BY <1>3, <1>5, <1>9
<1>10. CASE /\ r.cmd = "SKIP_STEP" /\ next # None
            /\ DrainReads(t, r, Decided(p, advanceCursor(p, skip(heard))))
            /\ UNCHANGED ended
  <2> DEFINE f == skip(heard)
             g == advanceCursor(p, f)
             d == Decided(p, g)
  <2>1. From(p, heard, f)
    BY <1>3, <1>10, FromSkipped DEF Writes
  <2> HIDE DEF f
  <2>2. From(p, f, g) /\ g \in Entries(p)
    BY <2>1, FromAdvanced DEF From, Onward
  <2> HIDE DEF g
  <2>3. From(p, g, d)
    BY <2>2, FromDecided
  <2> HIDE DEF d, p
  <2>4. Sound(p, r, d)
    BY <1>1, <1>3, <2>1, <2>2, <2>3, SoundFrom
  <2>5. DrainReads(t, r, d)
    BY <1>10 DEF d, g, f, p
  <2> QED
    BY <1>6, <1>10, <2>4, <2>5 DEF AskedFor
<1>11. CASE r.cmd = "APPROVE_BATCH" /\ DrainReads(t, r, updated([heard EXCEPT !.mode = "batch"]))
            /\ UNCHANGED ended
  <2> DEFINE g == [heard EXCEPT !.mode = "batch"]
  <2>1. /\ g \in Entries(p) /\ g.steps = heard.steps /\ g.cursor = heard.cursor
        /\ g.grace = heard.grace /\ g.sweep = heard.sweep
    BY <1>3 DEF Entries
  <2> HIDE DEF g, p
  <2>2. /\ Pending(g) = Pending(heard) /\ Left(g) = Left(heard)
        /\ (Failed(g) <=> Failed(heard)) /\ (Timed(g) <=> Timed(heard))
    BY <2>1 DEF Pending, Left, Failed, Timed
  <2>3. Sound(p, r, g)
    BY <1>3, <1>11, <2>1, <2>2 DEF Sound, StopsOnFailure
  <2>4. Sound(p, r, updated(g))
    BY <1>1, <2>1, <2>3, FromUpdated, SoundFrom DEF p
  <2>5. DrainReads(t, r, updated(g))
    BY <1>11 DEF g
  <2> QED
    BY <1>6, <1>11, <2>4, <2>5 DEF AskedFor
<1>12. CASE r.cmd = "APPROVE_NEXT" /\ DrainReads(t, r, heard) /\ UNCHANGED ended
  BY <1>3, <1>6, <1>12 DEF AskedFor
<1>13. CASE /\ r.cmd = "DELEGATE" /\ next # None
            /\ Keep(p, Awaiting(heard)) /\ ShowModal(p, next) /\ Done(t, r)
            /\ UNCHANGED <<sent, ended>>
  <2>1. modal' = modal \/ modal' \in {p} \X Writes(p)
    BY <1>13 DEF ShowModal
  <2>2. Sound(p, r, Awaiting(heard)) /\ ClosedIfLive(p, Awaiting(heard))
    BY <1>3, FromAwaiting, SoundFrom DEF ClosedIfLive
  <2>3. Stretch(t, p, r)
    BY <1>13, <2>1, <2>2, DoneStretch
  <2> QED
    BY <1>4, <1>13, <2>3
<1>14. CASE Answer(Awaiting([e EXCEPT !.nudges = 0]))
  <2> DEFINE h == [e EXCEPT !.nudges = 0]
  <2>1. From(p, e, h) /\ h \in Entries(p)
    BY <1>1, FromNudges DEF From, Onward
  <2> HIDE DEF h
  <2>2. From(p, h, Awaiting(h)) /\ Closed(Awaiting(h))
    BY <2>1, FromAwaiting
  <2>3. Sound(p, r, Awaiting(h)) /\ ClosedIfLive(p, Awaiting(h))
    BY <1>1, <2>1, <2>2, SoundFrom DEF ClosedIfLive
  <2>4. Answer(Awaiting(h))
    BY <1>14 DEF h
  <2> QED
    BY <1>5, <2>3, <2>4
<1>15. CASE Answer(updated([e EXCEPT !.nudges = 1]))
  <2> DEFINE h == [e EXCEPT !.nudges = 1]
  <2>1. From(p, e, h) /\ h \in Entries(p)
    BY <1>1, FromNudges DEF From, Onward
  <2> HIDE DEF h
  <2>2. From(p, h, updated(h)) /\ Closed(updated(h))
    BY <2>1, FromUpdated
  <2>3. Sound(p, r, updated(h)) /\ ClosedIfLive(p, updated(h))
    BY <1>1, <2>1, <2>2, SoundFrom DEF ClosedIfLive
  <2>4. Answer(updated(h))
    BY <1>15 DEF h
  <2> QED
    BY <1>5, <2>3, <2>4
<1> HIDE DEF p, e, next, skip, Answer, End, x
<1> QED
  BY <1>2, <1>8, <1>9, <1>10, <1>11, <1>12, <1>13, <1>14, <1>15

\* A turn that does nothing to the plans any more.
LEMMA DoneQuietly ==
    ASSUME PlanInv, NEW t \in Turns, NEW r \in Turn, Done(t, r),
           r.wrote = turn[t].wrote, r.plan = turn[t].plan,
           turn[t].cmd = "APPROVE_BATCH" => r.cmd = turn[t].cmd,
           UNCHANGED <<plans, active, modal, edits, sent, ended>>
    PROVE  PlanInv' /\ Quiet
<1> DEFINE x == [r EXCEPT !.at = "done", !.todo = {}]
<1>1. /\ x \in Turn /\ x.at = "done" /\ x.wrote = r.wrote /\ x.plan = r.plan /\ x.cmd = r.cmd
      /\ x.todo = {}
  BY DEF Turn
<1>2. turn' = [turn EXCEPT ![t] = x]
  BY DEF Done, Await
<1> HIDE DEF x
<1>3. WellFormed(x)
  BY <1>1 DEF WellFormed
<1>4. turn[t].at = "idle" => x.plan \in {NoPlan, active}
  BY <1>1, Unstarted DEF PlanInv
<1>5. turn' \in [Turns -> Turn] /\ TurnsOK' /\ Quiet /\ \A q : Batched(q) => Batched(q)'
  BY <1>1, <1>2, <1>3, <1>4, TurnMoves
<1> QED
  BY <1>5, OnlyTurnMoves

LEMMA TurnFacts ==
    ASSUME PlanInv, NEW t \in Turns
    PROVE  /\ turn[t] \in Turn /\ WellFormed(turn[t])
           /\ turn[t].wrote > 1 => Batched(turn[t].plan)
           /\ turn[t].wrote \in Nat
  BY DEF PlanInv, TypeOK, TurnsOK, Turn

LEMMA ContinueStep ==
    ASSUME PlanInv, NEW t \in Turns, Continue(t) PROVE PlanInv' /\ (Quiet \/ Began)
<1> DEFINE p == active
           r0 == [fresh EXCEPT !.plan = p, !.seen = Seen(p)]
<1>1. /\ turn[t] = fresh /\ p \in Plans /\ Saved(p) /\ plans[p] \in Entries(p) /\ edits' = edits
      /\ turn[t].wrote = 0 /\ turn[t].cmd = "none" /\ turn[t].plan = NoPlan
  <2>1. turn[t].at = "idle" /\ active # NoPlan /\ edits' = edits
    BY DEF Continue, Arrives
  <2>2. turn[t] = fresh
    BY <2>1, TurnFacts DEF WellFormed
  <2>3. p \in Plans /\ Saved(p)
    BY <2>1 DEF PlanInv, TypeOK, ActivePlanIsLive
  <2>4. plans[p] \in Entries(p)
    BY <2>3, StoredIsSound
  <2> QED
    BY <2>1, <2>2, <2>3, <2>4 DEF fresh
<1>2. nextWriteStep(p, plans[p]) \in Writes(p) \union {None} /\ plans[p].nudges \in 0 .. 1
  BY <1>1, NextWrite DEF Entries
<1>3. /\ r0 \in Turn /\ r0.plan = p /\ r0.wrote = 0 /\ r0.cmd = "none" /\ r0.todo = {}
      /\ r0.seen.next \in Writes(p) \union {None}
  <2> DEFINE seen == Seen(p)
  <2>1. seen \in [next : Nat, nudges : 0 .. 1] /\ seen.next \in Writes(p) \union {None}
    BY <1>1, <1>2, PlanLength DEF Seen, Writes, None
  <2> HIDE DEF seen
  <2>2. fresh \in Turn /\ fresh.wrote = 0 /\ fresh.cmd = "none" /\ fresh.todo = {}
    BY DEF fresh, Turn, None
  <2>3. r0 = [fresh EXCEPT !.plan = p, !.seen = seen]
    BY DEF seen
  <2> HIDE DEF r0
  <2> QED
    BY <1>1, <2>1, <2>2, <2>3 DEF Turn
<1>4. ASSUME NEW c \in Commands, Obey(t, [r0 EXCEPT !.cmd = c], plans[p])
      PROVE  PlanInv' /\ (Quiet \/ Began)
  <2> DEFINE r == [r0 EXCEPT !.cmd = c]
  <2>1. r \in Turn /\ r.plan = p /\ r.wrote = 0 /\ r.seen = r0.seen /\ r.todo = {}
    BY <1>3 DEF Turn
  <2> HIDE DEF r0
  <2>2. Record(p, r)
    BY <2>1 DEF Record
  <2>3. Obey(t, r, plans[r.plan])
    BY <1>4, <2>1
  <2> HIDE DEF r
  <2> QED
    BY <1>1, <1>3, <2>1, <2>2, <2>3, ObeyStep
<1>5. ASSUME Await(t, r0, "decide", {}), UNCHANGED <<plans, active, modal, sent, ended>>
      PROVE  PlanInv' /\ Quiet
  <2> DEFINE x == [r0 EXCEPT !.at = "decide", !.todo = {}]
  <2>1. /\ x \in Turn /\ x.at = "decide" /\ x.wrote = 0 /\ x.plan = p /\ x.cmd = "none"
        /\ x.seen = r0.seen /\ x.todo = {}
    <3> HIDE DEF r0
    <3> QED
      BY <1>3 DEF Turn
  <2>2. turn' = [turn EXCEPT ![t] = x]
    BY <1>5 DEF Await
  <2> HIDE DEF x, r0
  <2>3. WellFormed(x)
    BY <1>1, <1>3, <2>1 DEF WellFormed
  <2>4. ~(x.wrote > 1)
    BY <2>1
  <2>5. turn' \in [Turns -> Turn] /\ TurnsOK' /\ Quiet /\ \A q : Batched(q) => Batched(q)'
    BY <1>1, <1>5, <2>1, <2>2, <2>3, <2>4, TurnMoves
  <2> QED
    BY <1>1, <1>5, <2>5, OnlyTurnMoves
<1> QED
  BY <1>4, <1>5 DEF Continue

LEMMA DecideStep ==
    ASSUME PlanInv, NEW t \in Turns, Decide(t) PROVE PlanInv' /\ (Quiet \/ Began)
<1>0. PICK c \in Decisions : \E r \in {[turn[t] EXCEPT !.cmd = c]} :
         IF Saved(r.plan) THEN Obey(t, r, plans[r.plan])
         ELSE Done(t, r) /\ UNCHANGED <<plans, active, modal, sent, ended>>
  BY DEF Decide
<1>1. PICK r \in {[turn[t] EXCEPT !.cmd = c]} :
         IF Saved(r.plan) THEN Obey(t, r, plans[r.plan])
         ELSE Done(t, r) /\ UNCHANGED <<plans, active, modal, sent, ended>>
  BY <1>0
<1>2. turn[t].at = "decide" /\ edits' = edits
  BY DEF Decide
<1>3. /\ turn[t].wrote = 0 /\ turn[t].cmd = "none" /\ turn[t].plan \in Plans
      /\ turn[t].seen.next \in Writes(turn[t].plan) \union {None} /\ turn[t] \in Turn
      /\ turn[t].todo = {}
  BY <1>2, TurnFacts DEF WellFormed
<1>4. r \in Turn /\ r.wrote = 0 /\ r.plan = turn[t].plan /\ r.seen = turn[t].seen /\ r.todo = {}
  <2>1. r = [turn[t] EXCEPT !.cmd = c]
    OBVIOUS
  <2> QED
    BY <1>3, <2>1 DEF Turn
<1>5. CASE Saved(r.plan)
  <2>1. Record(r.plan, r)
    BY <1>4 DEF Record
  <2> QED
    BY <1>1, <1>2, <1>3, <1>4, <1>5, <2>1, ObeyStep
<1>6. CASE ~Saved(r.plan)
  BY <1>1, <1>2, <1>3, <1>4, <1>6, DoneQuietly
<1> QED
  BY <1>5, <1>6

\* A request for a new plan, which may find that the room's plan is past its TTL.
LEMMA NewRequestStep ==
    ASSUME PlanInv, NEW t \in Turns, NewRequest(t) PROVE PlanInv' /\ Quiet
<1> DEFINE x == [[fresh EXCEPT !.cmd = "new"] EXCEPT !.at = "decompose", !.todo = {}]
<1>1. turn[t] = fresh
  BY TurnFacts DEF NewRequest, Arrives, WellFormed
<1>2. /\ x \in Turn /\ x.at = "decompose" /\ x.wrote = 0 /\ x.plan = NoPlan /\ x.cmd = "new"
      /\ x.todo = {}
  <2>1. fresh \in Turn /\ fresh.wrote = 0 /\ fresh.plan = NoPlan
    BY DEF fresh, Turn, None
  <2>2. x = [fresh EXCEPT !.cmd = "new", !.at = "decompose", !.todo = {}]
    BY DEF fresh
  <2> HIDE DEF x
  <2> QED
    BY <2>1, <2>2 DEF Turn
<1>3. turn' = [turn EXCEPT ![t] = x]
  BY DEF NewRequest, Await
<1> HIDE DEF x
<1>4. WellFormed(x) /\ ~(x.wrote > 1)
  BY <1>2 DEF WellFormed
<1>5. turn' \in [Turns -> Turn] /\ TurnsOK' /\ Quiet /\ \A q : Batched(q) => Batched(q)'
  <2>1. turn[t].wrote = 0 /\ turn[t].cmd # "APPROVE_BATCH" /\ sent' = sent
    BY <1>1 DEF fresh, NewRequest
  <2> QED
    BY <1>2, <1>3, <1>4, <2>1, TurnMoves
<1>6. UNCHANGED <<modal, edits, sent, ended>>
  BY DEF NewRequest
<1>7. CASE UNCHANGED <<plans, active>>
  BY <1>5, <1>6, <1>7, OnlyTurnMoves
<1>8. CASE plans' = [plans EXCEPT ![active] = gone] /\ active' = NoPlan
  <2>1. /\ plans' = [q \in Plans |-> plans'[q]]
        /\ \A q \in Plans : plans'[q] = plans[q] \/ plans'[q] = gone
    BY <1>8 DEF PlanInv, Tables
  <2>2. /\ modal' \in {noModal} \union UNION {{q} \X Writes(q) : q \in Plans}
        /\ edits' \subseteq UNION {{q} \X Writes(q) \X Writes(q) : q \in Plans}
        /\ ended' \in [Plans -> {"no", "cancelled", "replaced"}]
    BY <1>6 DEF PlanInv, TypeOK
  <2> QED
    BY <1>5, <1>6, <1>8, <2>1, <2>2, CalmStep
<1> QED
  BY <1>5, <1>7, <1>8 DEF NewRequest

LEMMA SavePlanStep ==
    ASSUME PlanInv, NEW t \in Turns, NEW p \in Plans, SavePlan(t, p) PROVE PlanInv' /\ Began
<1> DEFINE r == [turn[t] EXCEPT !.plan = p]
<1>1. /\ turn[t].at = "decompose" /\ turn[t] \in Turn /\ turn[t].wrote = 0 /\ turn[t].cmd = "new"
      /\ turn[t].todo = {}
  BY TurnFacts DEF SavePlan, WellFormed
<1>2. r \in Turn /\ r.plan = p /\ r.wrote = 0 /\ r.cmd = "new" /\ r.todo = {}
  BY <1>1 DEF Turn
<1>3. /\ plans[p] = unsaved /\ DrainReads(t, r, NewEntry(p)) /\ edits' = edits
      /\ ended' = [q \in Plans |-> IF q \in Replaced(p) THEN "replaced" ELSE ended[q]]
  BY DEF SavePlan
<1> HIDE DEF r
<1>4. Record(p, r) /\ Sound(p, r, NewEntry(p))
  BY <1>2, <1>3, NewIsSound DEF Record
<1>5. Stretch(t, p, r)
  BY <1>2, <1>3, <1>4, DrainStretch DEF Starting
<1>6. PlanInv'
  BY <1>1, <1>2, <1>3, <1>5, StretchStep
<1> QED
  BY <1>1, <1>2, <1>5, <1>6 DEF Began

LEMMA DecomposeStep ==
    ASSUME PlanInv, NEW t \in Turns, Decompose(t) PROVE PlanInv' /\ (Quiet \/ Began)
<1>1. CASE NoPlanMade(t)
  BY <1>1, TurnFacts, DoneQuietly DEF NoPlanMade
<1> QED
  BY <1>1, SavePlanStep DEF Decompose

\* A turn that waits for its actions.
LEMMA WaitingTurn ==
    ASSUME PlanInv, NEW t \in Turns, turn[t].at \in {"reads", "write"}
    PROVE  /\ turn[t].plan \in Plans /\ Record(turn[t].plan, turn[t])
           /\ turn[t].todo \subseteq DOMAIN Steps[turn[t].plan] /\ turn[t].todo # {}
           /\ turn[t].at = "reads" => turn[t].wrote = 0 /\ turn[t].cmd \in Starting
  BY TurnFacts DEF WellFormed, Record

LEMMA StretchOf ==
    ASSUME PlanInv, NEW t \in Turns, Stretch(t, turn[t].plan, turn[t]),
           turn[t].plan \in Plans, turn[t].at # "idle", edits' = edits, ended' = ended
    PROVE  PlanInv' /\ Began
  BY StretchStep, TurnFacts DEF Began

LEMMA ReadsReturnStep ==
    ASSUME PlanInv, NEW t \in Turns, ReadsReturn(t) PROVE PlanInv' /\ (Quiet \/ Began)
<1> DEFINE r == turn[t]
           p == r.plan
<1>1. r.at = "reads" /\ UNCHANGED <<edits, ended>>
  BY DEF ReadsReturn
<1>2. /\ p \in Plans /\ Record(p, r) /\ r.wrote = 0 /\ r \in Turn /\ r.cmd \in Starting
      /\ r.todo \subseteq DOMAIN Steps[p]
  BY <1>1, WaitingTurn, TurnFacts
<1>3. PICK good \in SUBSET r.todo :
        LET e == markStepsOk(plans[p], good)
            bad == r.todo \ good
        IN  CASE ~Saved(p) -> Done(t, r) /\ UNCHANGED <<plans, active, modal, sent>>
              [] Saved(p) /\ bad = {} -> DrainReads(t, r, Decided(p, advanceCursor(p, e)))
              [] Saved(p) /\ bad # {} ->
                    AfterReads(t, r, Decided(p, advanceCursor(p, markStepsFailedAndBail(p, e, bad))))
  BY DEF ReadsReturn
<1> DEFINE e == markStepsOk(plans[p], good)
           bad == r.todo \ good
           b == markStepsFailedAndBail(p, e, bad)
<1>4. CASE ~Saved(p)
  BY <1>1, <1>2, <1>3, <1>4, DoneQuietly
<1>5. ASSUME Saved(p) PROVE e \in Entries(p) /\ Sound(p, r, e)
  <2>1. Sound(p, r, plans[p])
    BY <1>2, <1>5, StoredIsSound
  <2>2. Sound(p, r, e)
    BY <1>2, <2>1, SoundOk
  <2> QED
    BY <2>2 DEF Sound
<1>6. ASSUME Saved(p), NEW f, Sound(p, r, f)
      PROVE  Sound(p, r, Decided(p, advanceCursor(p, f)))
  <2> HIDE DEF e, r, p
  <2>1. f \in Entries(p)
    BY <1>6 DEF Sound
  <2>2. advanceCursor(p, f) \in Entries(p) /\ Sound(p, r, advanceCursor(p, f))
    BY <1>2, <1>6, <2>1, FromAdvanced, SoundFrom DEF From, Onward
  <2> QED
    BY <1>2, <2>2, FromDecided, SoundFrom
<1>7. CASE Saved(p) /\ bad = {}
  <2>1. DrainReads(t, r, Decided(p, advanceCursor(p, e)))
    BY <1>3, <1>7
  <2>2. Sound(p, r, Decided(p, advanceCursor(p, e)))
    BY <1>5, <1>6, <1>7
  <2> HIDE DEF e
  <2>3. Stretch(t, p, r)
    BY <1>2, <2>1, <2>2, DrainStretch
  <2> QED
    BY <1>1, <1>2, <2>3, StretchOf
<1>8. CASE Saved(p) /\ bad # {}
  <2>1. AfterReads(t, r, Decided(p, advanceCursor(p, b)))
    BY <1>3, <1>8
  <2>2. Sound(p, r, b)
    <3> HIDE DEF e
    <3> QED
      BY <1>2, <1>5, <1>8, SoundFailed
  <2>3. Sound(p, r, Decided(p, advanceCursor(p, b)))
    BY <1>6, <1>8, <2>2
  <2> HIDE DEF b
  <2>4. Stretch(t, p, r)
    BY <1>2, <2>1, <2>3, AfterReadsStretch
  <2> QED
    BY <1>1, <1>2, <2>4, StretchOf
<1> QED
  BY <1>4, <1>7, <1>8

LEMMA WriteSucceedsStep ==
    ASSUME PlanInv, NEW t \in Turns, WriteSucceeds(t) PROVE PlanInv' /\ Began
<1> DEFINE r == turn[t]
           p == r.plan
           ok == markStepsOk(plans[p], r.todo)
           f == advanceCursor(p, ok)
           e == Decided(p, f)
           next == nextWriteStep(p, e)
<1>1. r.at = "write" /\ Saved(p) /\ UNCHANGED <<edits, ended>>
  BY DEF WriteSucceeds
<1>2. p \in Plans /\ Record(p, r)
  BY <1>1, WaitingTurn
<1>3. IF e.mode = "batch" THEN RunWrite(t, r, e)
      ELSE /\ Done(t, r) /\ UNCHANGED sent
           /\ IF next = None THEN Keep(p, Decided(p, e)) /\ UNCHANGED modal
              ELSE Keep(p, Awaiting(e)) /\ ShowModal(p, next)
  BY DEF WriteSucceeds
<1>4. plans[p] \in Entries(p) /\ Sound(p, r, plans[p])
  BY <1>1, <1>2, StoredIsSound
<1>5. Sound(p, r, ok) /\ ok.mode = plans[p].mode /\ ok \in Entries(p)
  BY <1>2, <1>4, SoundOk DEF Sound
<1> HIDE DEF ok
<1>6. From(p, ok, f) /\ f \in Entries(p)
  BY <1>2, <1>5, FromAdvanced DEF From, Onward
<1> HIDE DEF f
<1>7. From(p, f, e) /\ e \in Entries(p)
  BY <1>2, <1>6, FromDecided DEF From, Onward
<1> HIDE DEF e
<1>8. Sound(p, r, e) /\ e.mode = plans[p].mode
  <2>1. From(p, ok, e)
    BY <1>2, <1>5, <1>6, <1>7, FromAgain
  <2> QED
    BY <1>2, <1>5, <2>1, SoundFrom DEF From, Onward
<1>9. CASE e.mode = "batch"
  <2>1. Batched(p)
    BY <1>1, <1>2, <1>8, <1>9 DEF PlanInv, StoreOK
  <2>2. Stretch(t, p, r)
    BY <1>2, <1>3, <1>8, <1>9, <2>1, RunWriteStretch
  <2> QED
    BY <1>1, <1>2, <2>2, StretchOf
<1>10. CASE e.mode # "batch"
  <2>1. Done(t, r) /\ sent' = sent
    BY <1>3, <1>10
  <2>2. CASE next = None
    <3>1. Keep(p, Decided(p, e)) /\ modal' = modal
      BY <1>3, <1>10, <2>2
    <3>2. Sound(p, r, Decided(p, e)) /\ ClosedIfLive(p, Decided(p, e))
      BY <1>2, <1>7, <1>8, FromDecided, SoundFrom DEF ClosedIfLive
    <3>3. Stretch(t, p, r)
      BY <1>2, <2>1, <3>1, <3>2, DoneStretch
    <3> QED
      BY <1>1, <1>2, <3>3, StretchOf
  <2>3. CASE next # None
    <3>1. Keep(p, Awaiting(e)) /\ ShowModal(p, next)
      BY <1>3, <1>10, <2>3
    <3>2. next \in Writes(p)
      BY <1>2, <1>7, <2>3, NextWrite
    <3>3. modal' = modal \/ modal' \in {p} \X Writes(p)
      BY <3>1, <3>2 DEF ShowModal
    <3>4. Sound(p, r, Awaiting(e)) /\ ClosedIfLive(p, Awaiting(e))
      BY <1>2, <1>7, <1>8, FromAwaiting, SoundFrom DEF ClosedIfLive
    <3>5. Stretch(t, p, r)
      BY <1>2, <2>1, <3>1, <3>3, <3>4, DoneStretch
    <3> QED
      BY <1>1, <1>2, <3>5, StretchOf
  <2> QED
    BY <2>2, <2>3
<1> QED
  BY <1>9, <1>10

LEMMA WriteFailsStep ==
    ASSUME PlanInv, NEW t \in Turns, WriteFails(t) PROVE PlanInv' /\ Began
<1> DEFINE r == turn[t]
           p == r.plan
           b == markStepsFailedAndBail(p, plans[p], r.todo)
<1>1. /\ r.at = "write" /\ Saved(p) /\ UNCHANGED <<modal, edits, sent, ended>>
      /\ Keep(p, updated(b)) /\ Done(t, r)
  BY DEF WriteFails
<1>2. p \in Plans /\ Record(p, r) /\ r.todo \subseteq DOMAIN Steps[p] /\ r.todo # {}
  BY <1>1, WaitingTurn
<1>3. plans[p] \in Entries(p) /\ Sound(p, r, plans[p])
  BY <1>1, <1>2, StoredIsSound
<1>4. Sound(p, r, b)
  <2> HIDE DEF r, p
  <2> QED
    BY <1>2, <1>3, SoundFailed
<1> HIDE DEF b
<1>5. b \in Entries(p)
  BY <1>4 DEF Sound
<1>6. From(p, b, updated(b)) /\ Closed(updated(b))
  BY <1>2, <1>5, FromUpdated
<1>7. Sound(p, r, updated(b)) /\ ClosedIfLive(p, updated(b))
  BY <1>2, <1>4, <1>6, SoundFrom DEF ClosedIfLive
<1>8. Stretch(t, p, r)
  BY <1>1, <1>2, <1>7, DoneStretch
<1> QED
  BY <1>1, <1>2, <1>8, StretchOf

LEMMA ReturnsStep ==
    ASSUME PlanInv, NEW t \in Turns, Returns(t) PROVE PlanInv' /\ (Quiet \/ Began)
<1>1. CASE WriteUnrecorded(t)
  BY <1>1, TurnFacts, DoneQuietly DEF WriteUnrecorded
<1> QED
  BY <1>1, ReadsReturnStep, WriteSucceedsStep, WriteFailsStep DEF Returns

LEMMA TurnsStay ==
    ASSUME PlanInv, UNCHANGED <<turn, sent>>
    PROVE  /\ turn' \in [Turns -> Turn] /\ TurnsOK' /\ Quiet
           /\ \A q : Batched(q) => Batched(q)'
  BY Unstarted DEF PlanInv, TypeOK, TurnsOK, Batched, Quiet

LEMMA SweepStep ==
    ASSUME PlanInv, NEW p \in Plans, Sweep(p) PROVE PlanInv' /\ Quiet
<1>1. /\ plans' = [plans EXCEPT ![p] = gone]
      /\ active' = IF active = p THEN NoPlan ELSE active
      /\ UNCHANGED <<turn, modal, edits, sent, ended>>
  BY DEF Sweep
<1>2. turn' \in [Turns -> Turn] /\ TurnsOK' /\ Quiet /\ \A q : Batched(q) => Batched(q)'
  BY <1>1, TurnsStay
<1>3. /\ plans' = [q \in Plans |-> plans'[q]]
      /\ \A q \in Plans : plans'[q] = plans[q] \/ plans'[q] = gone
      /\ \A q \in Plans \ {p} : plans'[q] = plans[q]
  BY <1>1 DEF PlanInv, Tables
<1>4. active' \in {active, NoPlan} /\ (active' # NoPlan => plans'[active] = plans[active])
  BY <1>1, <1>3 DEF PlanInv, TypeOK
<1>5. /\ modal' \in {noModal} \union UNION {{q} \X Writes(q) : q \in Plans}
      /\ edits' \subseteq UNION {{q} \X Writes(q) \X Writes(q) : q \in Plans}
      /\ ended' \in [Plans -> {"no", "cancelled", "replaced"}]
  BY <1>1 DEF PlanInv, TypeOK
<1> QED
  BY <1>1, <1>2, <1>3, <1>4, <1>5, CalmStep

LEMMA EditStepStep ==
    ASSUME PlanInv, EditStep PROVE PlanInv' /\ Quiet
<1> DEFINE p == modal[1]
           changed == Cardinality({j \in Writes(p) : j < modal[2]}) + 1
<1>1. /\ modal # noModal /\ Saved(p) /\ changed \in Writes(p)
      /\ edits' = edits \union {<<p, modal[2], changed>>}
      /\ Keep(p, updated(plans[p]))
      /\ UNCHANGED <<turn, modal, sent, ended>>
  BY DEF EditStep
<1> HIDE DEF changed
<1>2. p \in Plans /\ modal[2] \in Writes(p)
  BY <1>1 DEF PlanInv, TypeOK
<1> HIDE DEF p
<1>3. turn' \in [Turns -> Turn] /\ TurnsOK' /\ Quiet /\ \A q : Batched(q) => Batched(q)'
  BY <1>1, TurnsStay
<1>4. plans[p] \in Entries(p) /\ plans[p] # unsaved
  BY <1>1, <1>2, StoredIsSound, EntryFields
<1>5. /\ plans' = [q \in Plans |-> IF q = p THEN updated(plans[p]) ELSE plans[q]]
      /\ active' = IF updated(plans[p]).grace /\ active = p THEN NoPlan ELSE active
  BY <1>1, <1>4 DEF Keep, Replaced
<1>6. Calmed(p, plans[p], updated(plans[p]))
  BY <1>2, <1>4, FromUpdated, CalmFrom
<1>7. active' # NoPlan => plans'[active] = plans[active]
  BY <1>5 DEF PlanInv, ActivePlanIsLive, updated, TypeOK
<1>8. edits' \subseteq UNION {{q} \X Writes(q) \X Writes(q) : q \in Plans}
  BY <1>1, <1>2 DEF PlanInv, TypeOK
<1>9. /\ modal' \in {noModal} \union UNION {{q} \X Writes(q) : q \in Plans}
      /\ ended' \in [Plans -> {"no", "cancelled", "replaced"}]
  BY <1>1 DEF PlanInv, TypeOK
<1>10. /\ plans' = [q \in Plans |-> plans'[q]] /\ active' \in {active, NoPlan}
       /\ \A q \in Plans : plans'[q] = plans[q] \/ Calmed(q, plans[q], plans'[q])
  BY <1>5, <1>6
<1> QED
  BY <1>1, <1>3, <1>7, <1>8, <1>9, <1>10, CalmStep

LEMMA InitInv == Init => PlanInv
<1> SUFFICES ASSUME Init PROVE PlanInv
  OBVIOUS
<1>1. TypeOK
  <2>1. fresh \in Turn
    BY DEF fresh, Turn, None
  <2> QED
    BY <2>1 DEF Init, TypeOK, noModal
<1>2. TurnsOK
  BY DEF Init, TurnsOK, WellFormed, fresh
<1>3. Tables /\ StoreOK
  BY DEF Init, Tables, StoreOK, Saved, unsaved
<1>4. StepsRunOnce /\ ActivePlanIsLive /\ EndedOK
  BY DEF Init, StepsRunOnce, ActivePlanIsLive, EndedOK
<1>5. FlightOK /\ DependenciesMet
  BY DEF Init, FlightOK, DependenciesMet, fresh, Saved, unsaved
<1> QED
  BY <1>1, <1>2, <1>3, <1>4, <1>5 DEF PlanInv

LEMMA NextStep == PlanInv /\ [Next]_vars => PlanInv' /\ (Quiet \/ Began)
<1> SUFFICES ASSUME PlanInv, [Next]_vars PROVE PlanInv' /\ (Quiet \/ Began)
  OBVIOUS
<1>1. ASSUME NEW t \in Turns, Continue(t) \/ Decide(t) \/ NewRequest(t) \/ Decompose(t) \/ Returns(t)
      PROVE  PlanInv' /\ (Quiet \/ Began)
  BY <1>1, ContinueStep, DecideStep, NewRequestStep, DecomposeStep, ReturnsStep
<1>2. ASSUME NEW p \in Plans, Sweep(p) PROVE PlanInv' /\ Quiet
  BY <1>2, SweepStep
<1>3. CASE UNCHANGED vars
  <2>1. UNCHANGED turn /\ UNCHANGED <<plans, active, modal, edits, sent, ended>>
    BY <1>3 DEF vars
  <2> QED
    BY <2>1, TurnsStay, OnlyTurnMoves
<1> QED
  BY <1>1, <1>2, <1>3, EditStepStep DEF Next

LEMMA PlanInvariant == Spec => []PlanInv
<1>1. PlanInv /\ [Next]_vars => PlanInv'
  BY NextStep
<1> QED
  BY <1>1, InitInv, PTL DEF Spec

(***************************************************************************)
(* The theorems.                                                           *)
(***************************************************************************)

\* Type correctness of the plan store, the turns and the modal.
THEOREM PlanTypes == Spec => []TypeOK
<1>1. PlanInv => TypeOK
  BY DEF PlanInv
<1> QED
  BY <1>1, PlanInvariant, PTL

\* No step of a plan is handed to its action twice, however many messages are
\* handled at once and whatever they were told: a step is only begun while it is
\* pending, is marked in the same stretch, and nothing makes it pending again.
THEOREM StepsOnce == Spec => []StepsRunOnce
<1>1. PlanInv => StepsRunOnce
  BY DEF PlanInv
<1> QED
  BY <1>1, PlanInvariant, PTL

\* One turn runs several writes of a plan only after somebody approved the rest.
THEOREM OneWriteATurn == Spec => []OneWritePerTurn
<1>1. PlanInv => OneWritePerTurn
  BY DEF PlanInv, TurnsOK, Batched, OneWritePerTurn
<1> QED
  BY <1>1, PlanInvariant, PTL

\* The room's plan can go on and has its TTL timer.
THEOREM ActiveIsLive == Spec => []ActivePlanIsLive
<1>1. PlanInv => ActivePlanIsLive
  BY DEF PlanInv
<1> QED
  BY <1>1, PlanInvariant, PTL

\* A step that was handed to its action found all it depends on done: each of
\* those was handed over exactly once and has answered, and is not failed in the
\* store (`ok`, or `skipped` by a late "skip"), whatever turns overlap.
THEOREM DependenciesFirst == Spec => []DependenciesMet
<1>1. PlanInv => DependenciesMet
  BY DEF PlanInv
<1> QED
  BY <1>1, PlanInvariant, PTL

\* A turn that begins a write had one to begin.
LEMMA BeginsLeft ==
    ASSUME PlanInv, Quiet \/ Began, NEW t \in Turns, NEW p \in Plans, Begins(t, p)
    PROVE  /\ plans[p] # gone
           /\ Saved(p) => Left(plans[p]) # {}
           /\ turn'[t].cmd \in AskedFor \/ plans[p].mode = "batch"
<1>1. turn \in [Turns -> Turn]
  BY DEF PlanInv, TypeOK
<1>2. turn[t].wrote \in Nat
  BY <1>1 DEF Turn
<1>3. ~Quiet
  BY <1>2 DEF Quiet, Begins
<1>4. PICK u \in Turns, q \in Plans, r \in Turn : Stretch(u, q, r) /\ r.wrote = turn[u].wrote
  BY <1>3 DEF Began
<1>5. PICK f \in Entries(q), x \in Turn :
        /\ Sound(q, r, f) /\ turn' = [turn EXCEPT ![u] = x] /\ x.plan = q
        /\ x.wrote > r.wrote /\ Saved(q) => Left(plans[q]) # {}
        /\ x.cmd = r.cmd /\ (x.wrote > r.wrote => r.cmd \in AskedFor \/ plans[q].mode = "batch")
  BY <1>4 DEF Stretch
<1>6. u = t
  BY <1>1, <1>2, <1>5 DEF Begins
<1>7. q = p /\ x.wrote > r.wrote
  BY <1>1, <1>4, <1>5, <1>6 DEF Begins
<1>8. turn'[t] = x
  BY <1>1, <1>5, <1>6
<1> QED
  BY <1>5, <1>7, <1>8 DEF Sound

\* After a step of a plan failed, no turn begins another write of it, whichever of
\* the turns under way meets the failure.
THEOREM FailureStops == Spec => FailureStopsWrites
<1>1. ASSUME PlanInv, [Next]_vars, NEW t \in Turns, NEW p \in Plans, Begins(t, p), Saved(p),
             NEW i \in DOMAIN Steps[p]
      PROVE  plans[p].steps[i] # "failed"
  <2>1. Left(plans[p]) # {}
    BY <1>1, NextStep, BeginsLeft
  <2>2. StopsOnFailure(plans[p]) /\ i \in DOMAIN plans[p].steps
    BY <1>1, StoredIsSound, EntryFields DEF PlanInv, StoreOK
  <2> QED
    BY <2>1, <2>2 DEF StopsOnFailure, Failed
<1>2. PlanInv /\ [Next]_vars =>
        [\A t \in Turns, p \in Plans :
            Begins(t, p) /\ Saved(p) => \A i \in DOMAIN Steps[p] : plans[p].steps[i] # "failed"]_vars
  BY <1>1
<1> QED
  BY <1>2, PlanInvariant, PTL DEF Spec, FailureStopsWrites

\* A plan that was replaced or swept begins no write, and one that was cancelled
\* or replaced is no new turn's plan.
THEOREM EndedRest == Spec => EndedPlansRest
<1>1. ASSUME PlanInv, [Next]_vars, NEW t \in Turns, NEW p \in Plans
      PROVE  /\ Begins(t, p) => plans[p] # gone /\ ended[p] # "replaced"
             /\ turn[t].at = "idle" /\ turn'[t].plan = p => ended[p] = "no"
  <2>1. Quiet \/ Began
    BY <1>1, NextStep
  <2>2. Begins(t, p) => plans[p] # gone /\ ended[p] # "replaced"
    BY <1>1, <2>1, BeginsLeft DEF PlanInv, EndedOK
  <2>3. ASSUME turn[t].at = "idle", turn'[t].plan = p PROVE p = active
    <3>1. CASE Quiet
      BY <2>3, <3>1, RunnerAssumption DEF Quiet
    <3>2. CASE Began
      <4>1. PICK u \in Turns, q \in Plans, r \in Turn :
               Stretch(u, q, r) /\ (turn[u].at = "idle" => active = q)
        BY <3>2 DEF Began
      <4>2. PICK x \in Turn : turn' = [turn EXCEPT ![u] = x] /\ x.plan = q
        BY <4>1 DEF Stretch
      <4>3. turn[t].plan = NoPlan /\ turn \in [Turns -> Turn]
        BY <1>1, <2>3, Unstarted DEF PlanInv, TypeOK
      <4> QED
        BY <2>3, <4>1, <4>2, <4>3, RunnerAssumption
    <3> QED
      BY <2>1, <3>1, <3>2
  <2> QED
    BY <1>1, <2>2, <2>3, RunnerAssumption DEF PlanInv, EndedOK
<1>2. PlanInv /\ [Next]_vars =>
        [\A t \in Turns, p \in Plans :
            /\ Begins(t, p) => plans[p] # gone /\ ended[p] # "replaced"
            /\ turn[t].at = "idle" /\ turn'[t].plan = p => ended[p] = "no"]_vars
  BY <1>1
<1> QED
  BY <1>2, PlanInvariant, PTL DEF Spec, EndedPlansRest

\* What is left of "the user approves every write" (WritesApproved, which SKIP_STEP
\* breaks): a turn begins a write on an approval, on a skip, or when the rest of
\* the plan was approved, and on nothing else, the first turn of a plan included.
WritesAskedFor ==
    [][\A t \in Turns, p \in Plans :
          Begins(t, p) => turn'[t].cmd \in AskedFor \/ plans[p].mode = "batch"]_vars

THEOREM OnlySkipSlipsThrough == Spec => WritesAskedFor
<1>1. ASSUME PlanInv, [Next]_vars, NEW t \in Turns, NEW p \in Plans, Begins(t, p)
      PROVE  turn'[t].cmd \in AskedFor \/ plans[p].mode = "batch"
  BY <1>1, NextStep, BeginsLeft
<1>2. PlanInv /\ [Next]_vars =>
        [\A t \in Turns, p \in Plans :
            Begins(t, p) => turn'[t].cmd \in AskedFor \/ plans[p].mode = "batch"]_vars
  BY <1>1
<1> QED
  BY <1>2, PlanInvariant, PTL DEF Spec, WritesAskedFor

(***************************************************************************)
(* The edits.  What the client sends is a position among the writes, what  *)
(* the server takes it for is an index into the steps.                     *)
(***************************************************************************)

Position(p, i) == Cardinality({j \in Writes(p) : j < i}) + 1
ReadsBefore(p, i) == {j \in 1 .. i - 1 : j \notin Writes(p)}

\* A write's position is never above its index, and is its index exactly when
\* no read stands before it.
LEMMA PositionOfWrite ==
    ASSUME NEW p \in Plans, NEW i \in Writes(p)
    PROVE  /\ Position(p, i) \in Nat /\ Position(p, i) <= i
           /\ Position(p, i) = i <=> ReadsBefore(p, i) = {}
<1> DEFINE before == {j \in Writes(p) : j < i}
<1>1. i \in Nat /\ 1 <= i /\ Writes(p) \subseteq Nat \ {0}
  BY PlanLength DEF Writes
<1>2. before \subseteq 1 .. i - 1
  BY <1>1
<1>3. IsFiniteSet(1 .. i - 1) /\ Cardinality(1 .. i - 1) = i - 1
  <2>1. 1 \in Int /\ i - 1 \in Int /\ (1 > i - 1 => i - 1 = 0) /\ (i - 1) - 1 + 1 = i - 1
    BY <1>1
  <2> QED
    BY <2>1, FS_Interval
<1>4. before = 1 .. i - 1 <=> ReadsBefore(p, i) = {}
  BY <1>1 DEF ReadsBefore
<1> HIDE DEF before
<1>5. /\ IsFiniteSet(before) /\ Cardinality(before) <= i - 1
      /\ Cardinality(before) = i - 1 => before = 1 .. i - 1
  BY <1>2, <1>3, FS_Subset
<1>6. Cardinality(before) \in Nat
  BY <1>5, FS_CardinalityType
<1>7. Position(p, i) = Cardinality(before) + 1
  BY DEF Position, before
<1> QED
  BY <1>1, <1>3, <1>4, <1>5, <1>6, <1>7

\* An edit is of a write that a modal showed, at the step its position names.
EditsOK ==
    \A x \in edits : \E p \in Plans : \E i \in Writes(p) :
        x = <<p, i, Position(p, i)>> /\ Position(p, i) \in Writes(p)

LEMMA EditsInvariant == Spec => []EditsOK
<1>1. Init => EditsOK
  BY DEF Init, EditsOK
<1>2. ASSUME PlanInv, EditsOK, [Next]_vars PROVE EditsOK'
  <2>1. CASE edits' = edits
    BY <1>2, <2>1 DEF EditsOK
  <2>2. CASE EditStep
    <3> DEFINE p == modal[1]
               i == modal[2]
    <3>1. /\ modal # noModal /\ Position(p, i) \in Writes(p)
          /\ edits' = edits \union {<<p, i, Position(p, i)>>}
      BY <2>2 DEF EditStep, Position
    <3>2. p \in Plans /\ i \in Writes(p)
      BY <1>2, <3>1 DEF PlanInv, TypeOK
    <3> QED
      BY <1>2, <3>1, <3>2 DEF EditsOK
  <2>3. edits' = edits \/ EditStep
    BY <1>2 DEF Next, vars, Continue, Decide, NewRequest, Decompose, NoPlanMade, SavePlan, Returns,
       ReadsReturn, WriteSucceeds, WriteFails, WriteUnrecorded, Sweep
  <2> QED
    BY <2>1, <2>2, <2>3
<1> QED
  BY <1>1, <1>2, PlanInvariant, PTL DEF Spec

\* On any plan the user's edit lands on the step that the modal shows if and only
\* if no read stands before that step.
THEOREM EditsReach ==
    Spec => [](\A x \in edits : x[3] = x[2] <=> ReadsBefore(x[1], x[2]) = {})
<1>1. EditsOK => \A x \in edits : x[3] = x[2] <=> ReadsBefore(x[1], x[2]) = {}
  BY PositionOfWrite DEF EditsOK
<1> QED
  BY <1>1, EditsInvariant, PTL

\* And where it misses, it changes an earlier write of the plan, never a later one.
THEOREM EditsNeverAhead == Spec => [](\A x \in edits : x[3] <= x[2])
<1>1. EditsOK => \A x \in edits : x[3] <= x[2]
  BY PositionOfWrite DEF EditsOK
<1> QED
  BY <1>1, EditsInvariant, PTL
================================================================================
