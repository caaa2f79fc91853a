------------------------- MODULE FallbackPollerProofs -------------------------
(***************************************************************************)
(* Proofs about the fallback poller, for any orders, accounts, cycles,     *)
(* ladder and threshold.                                                   *)
(*                                                                         *)
(* The argument: every step of a cycle is, to the ledger, a step of some   *)
(* of Reconciliation's probes or none at all.  So the poller implements    *)
(* Reconciliation, and what ReconciliationProofs shows of that holds of it *)
(* without being proved again.                                             *)
(***************************************************************************)
EXTENDS FallbackPoller, TLAPS

RP == INSTANCE ReconciliationProofs WITH Probes <- Cycles \X Cids, probe <- probes

\* Mapping the rows of the cycles is what the types of `at` are needed for.
RowsTypeOK  == at \in [Cycles -> [Cids -> RowStages]]
OneInHand   == \A k \in Cycles : \A c, d \in Cids : InHand(k, c) /\ InHand(k, d) => c = d
CountersOK ==
    /\ age \in [Cids -> 0 .. Rungs]
    /\ attempts \in [Cids -> 0 .. Rungs]
    /\ streak \in [Accounts -> 0 .. DowngradeAfter + 1]
    /\ keys \in [Accounts -> BOOLEAN]
    /\ downgraded \subseteq Accounts

PollerInv == RP!ReconInv /\ RowsTypeOK /\ OneInHand /\ CountersOK

(***************************************************************************)
(* A row as a probe.                                                       *)
(***************************************************************************)

\* What a row of each stage is to the ledger.
LEMMA ProbeOfRow ==
    ASSUME NEW c, NEW row \in RowStages
    PROVE  /\ row.stage \in {"idle", "hook"} => probeOf(row, c) = Recon!idle
           /\ row.stage \in {"listed", "due", "query"}
                => probeOf(row, c) = [stage |-> "query", cid |-> c]
           /\ row.stage \in {"write", "announce"}
                => /\ row.state \in PendingOrderState
                   /\ probeOf(row, c) = [stage |-> row.stage, cid |-> c, state |-> row.state]
  BY DEF probeOf, RowStages, Recon!idle

\* The rows that are stored can be read back.
LEMMA StageRows ==
    /\ \A s \in {"idle", "listed", "due", "query", "hook"} : [stage |-> s] \in RowStages
    /\ idle \in RowStages /\ idle.stage = "idle"
    /\ \A s \in {"write", "announce"}, x \in PendingOrderState :
          [stage |-> s, state |-> x] \in RowStages
  BY DEF RowStages, idle

\* When one row moves, one probe does.
LEMMA PutRow ==
    ASSUME RowsTypeOK, NEW k \in Cycles, NEW c \in Cids, NEW row \in RowStages, Put(k, c, row)
    PROVE  /\ RowsTypeOK'
           /\ \A l \in Cycles, d \in Cids :
                 at'[l][d] = IF l = k /\ d = c THEN row ELSE at[l][d]
           /\ probes' = [probes EXCEPT ![<<k, c>>] = probeOf(row, c)]
<1>1. at' \in [Cycles -> [Cids -> RowStages]]
  BY DEF Put, RowsTypeOK
<1>2. \A l \in Cycles, d \in Cids : at'[l][d] = IF l = k /\ d = c THEN row ELSE at[l][d]
  BY DEF Put, RowsTypeOK
<1>3. probes' = [p \in Cycles \X Cids |-> probeOf(at'[p[1]][p[2]], p[2])]
  BY DEF probes, probeOf
<1>4. probes = [p \in Cycles \X Cids |-> probeOf(at[p[1]][p[2]], p[2])]
  BY DEF probes
<1>5. \A p \in Cycles \X Cids :
         probes'[p] = IF p = <<k, c>> THEN probeOf(row, c) ELSE probes[p]
  <2> SUFFICES ASSUME NEW l \in Cycles, NEW d \in Cids
               PROVE  probes'[<<l, d>>] = IF <<l, d>> = <<k, c>> THEN probeOf(row, c)
                                          ELSE probes[<<l, d>>]
    OBVIOUS
  <2>1. probes'[<<l, d>>] = probeOf(at'[l][d], d) /\ probes[<<l, d>>] = probeOf(at[l][d], d)
    BY <1>3, <1>4
  <2> QED
    BY <1>2, <2>1
<1>6. <<k, c>> \in Cycles \X Cids
  OBVIOUS
<1> QED
  BY <1>1, <1>2, <1>3, <1>4, <1>5, <1>6 DEF RowsTypeOK

\* A row's probe.
LEMMA ProbeOfAt ==
    ASSUME RowsTypeOK, NEW k \in Cycles, NEW c \in Cids
    PROVE  /\ probes[<<k, c>>] = probeOf(at[k][c], c)
           /\ at[k][c] \in RowStages
           /\ <<k, c>> \in Cycles \X Cids
  BY DEF probes, RowsTypeOK

\* A step that one row takes on its own, to a stage that is the same to the
\* ledger, is none.
LEMMA SameProbe ==
    ASSUME RowsTypeOK, NEW k \in Cycles, NEW c \in Cids, NEW row \in RowStages, Put(k, c, row),
           probeOf(row, c) = probeOf(at[k][c], c)
    PROVE  probes' = probes
<1>1. probes' = [probes EXCEPT ![<<k, c>>] = probes[<<k, c>>]]
  BY PutRow, ProbeOfAt
<1>2. probes = [p \in Cycles \X Cids |-> probes[p]]
  BY DEF probes
<1> QED
  BY <1>1, <1>2

\* A row that ends early gives its probe up.
LEMMA RowEnds ==
    ASSUME RowsTypeOK, NEW k \in Cycles, NEW c \in Cids, NEW row \in RowStages, Put(k, c, row),
           row.stage \in {"idle", "hook"}, at[k][c].stage \notin {"idle", "hook"},
           UNCHANGED <<ledger, venue, wire, announced>>
    PROVE  Recon!Next
<1> DEFINE S == {<<k, c>>}
<1>1. probes' = [probes EXCEPT ![<<k, c>>] = Recon!idle]
  BY PutRow, ProbeOfRow
<1>2. probes[<<k, c>>] # Recon!idle
  BY ProbeOfAt, ProbeOfRow DEF RowStages, Recon!idle
<1>3. probes = [p \in Cycles \X Cids |-> probes[p]]
  BY DEF probes
<1>4. probes' = [p \in Cycles \X Cids |-> IF p \in S THEN Recon!idle ELSE probes[p]]
  BY <1>1, <1>3
<1>5. S \in SUBSET (Cycles \X Cids)
  OBVIOUS
<1>6. Recon!GiveUp(S)
  BY <1>2, <1>4 DEF Recon!GiveUp
<1> QED
  BY <1>5, <1>6 DEF Recon!Next, Recon!ReconNext

(***************************************************************************)
(* The steps of a cycle, as steps of Reconciliation.                       *)
(***************************************************************************)

\* A cycle's query selects a probe for each of its rows.
LEMMA StartSelects ==
    ASSUME RowsTypeOK, NEW k \in Cycles, StartCycle(k)
    PROVE  RowsTypeOK' /\ Recon!Next
<1> DEFINE listed == {c \in StaleSubmittedOrders : age[c] >= 1}
           S      == {p \in Cycles \X Cids : p[1] = k /\ p[2] \in listed}
           row    == [p \in S |-> p[2]]
           new    == [c \in Cids |-> IF c \in listed THEN [stage |-> "listed"] ELSE idle]
<1>1. at[k] = [c \in Cids |-> idle] /\ at' = [at EXCEPT ![k] = new]
  BY DEF StartCycle
<1>2. listed \subseteq Cids
  BY DEF StaleSubmittedOrders
<1>3. new \in [Cids -> RowStages]
  BY StageRows
<1>4. RowsTypeOK'
  BY <1>1, <1>3 DEF RowsTypeOK
<1>5. \A l \in Cycles, d \in Cids :
         at'[l][d] = IF l = k /\ d \in listed THEN [stage |-> "listed"] ELSE at[l][d]
  BY <1>1 DEF RowsTypeOK
<1>6. \A p \in S : probes[p] = Recon!idle
  <2> SUFFICES ASSUME NEW c \in listed PROVE probes[<<k, c>>] = Recon!idle
    OBVIOUS
  <2>1. c \in Cids /\ at[k][c] = idle
    BY <1>1, <1>2
  <2> QED
    BY <2>1, ProbeOfAt, ProbeOfRow, StageRows
<1>7. probes' = [p \in Cycles \X Cids |->
                   IF p \in S THEN [stage |-> "query", cid |-> row[p]] ELSE probes[p]]
  <2>1. probes' = [p \in Cycles \X Cids |-> probeOf(at'[p[1]][p[2]], p[2])]
    BY DEF probes, probeOf
  <2>2. ASSUME NEW l \in Cycles, NEW d \in Cids
        PROVE  probeOf(at'[l][d], d) = IF <<l, d>> \in S
                  THEN [stage |-> "query", cid |-> row[<<l, d>>]] ELSE probes[<<l, d>>]
    <3>1. <<l, d>> \in S <=> l = k /\ d \in listed
      OBVIOUS
    <3>2. CASE l = k /\ d \in listed
      <4>1. row[<<l, d>>] = d
        BY <3>1, <3>2
      <4>2. probeOf([stage |-> "listed"], d) = [stage |-> "query", cid |-> d]
        BY ProbeOfRow, StageRows
      <4> QED
        BY <1>5, <3>1, <3>2, <4>1, <4>2
    <3>3. CASE ~(l = k /\ d \in listed)
      BY <1>5, <3>1, <3>3, ProbeOfAt
    <3> QED
      BY <3>2, <3>3
  <2> HIDE DEF row, S
  <2> QED
    BY <2>1, <2>2
<1>8. S \in SUBSET (Cycles \X Cids) /\ row \in [S -> Recon!StaleSubmittedOrders]
  BY <1>2 DEF StaleSubmittedOrders, Recon!StaleSubmittedOrders, PolledStates, Recon!PolledStates
<1>9. Recon!Select(S, row)
  BY <1>6, <1>7 DEF Recon!Select, StartCycle
<1> HIDE DEF S, row
<1> QED
  BY <1>4, <1>8, <1>9 DEF Recon!Next, Recon!ReconNext

\* The rows that are not due give theirs up.
LEMMA PlanDrops ==
    ASSUME RowsTypeOK, NEW k \in Cycles, PlanCycle(k)
    PROVE  RowsTypeOK' /\ Recon!Next
<1> DEFINE listed == {c \in Cids : at[k][c].stage = "listed"}
           due    == {c \in listed : age[c] >= thresholdForAttempt(attempts[c])}
           S      == {p \in Cycles \X Cids : p[1] = k /\ at[k][p[2]].stage \notin {"idle", "hook"}
                                              /\ p[2] \notin due}
           new    == [c \in Cids |-> IF c \in due THEN [stage |-> "due"] ELSE idle]
<1>1. at' = [at EXCEPT ![k] = new]
  BY DEF PlanCycle
<1>2. new \in [Cids -> RowStages]
  BY StageRows
<1>3. RowsTypeOK'
  BY <1>1, <1>2 DEF RowsTypeOK
<1>4. \A l \in Cycles, d \in Cids :
         at'[l][d] = IF l # k THEN at[l][d] ELSE IF d \in due THEN [stage |-> "due"] ELSE idle
  BY <1>1 DEF RowsTypeOK
<1>5. \A p \in S : probes[p] # Recon!idle
  <2> SUFFICES ASSUME NEW c \in Cids, at[k][c].stage \notin {"idle", "hook"}
               PROVE  probes[<<k, c>>] # Recon!idle
    OBVIOUS
  <2> QED
    BY ProbeOfAt, ProbeOfRow DEF RowStages, Recon!idle
<1>6. probes' = [p \in Cycles \X Cids |-> IF p \in S THEN Recon!idle ELSE probes[p]]
  <2>1. probes' = [p \in Cycles \X Cids |-> probeOf(at'[p[1]][p[2]], p[2])]
    BY DEF probes, probeOf
  <2>2. ASSUME NEW l \in Cycles, NEW d \in Cids
        PROVE  probeOf(at'[l][d], d) = IF <<l, d>> \in S THEN Recon!idle ELSE probes[<<l, d>>]
    <3>1. <<l, d>> \in S <=> l = k /\ at[k][d].stage \notin {"idle", "hook"} /\ d \notin due
      OBVIOUS
    <3>2. at[l][d] \in RowStages /\ probes[<<l, d>>] = probeOf(at[l][d], d)
      BY ProbeOfAt
    <3>3. CASE l # k
      BY <1>4, <3>1, <3>2, <3>3
    <3>4. CASE l = k /\ d \in due
      <4>1. at[l][d].stage = "listed"
        BY <3>4
      <4>2. probeOf(at[l][d], d) = probeOf([stage |-> "due"], d)
        BY <3>2, <4>1, ProbeOfRow, StageRows
      <4> QED
        BY <1>4, <3>1, <3>2, <3>4, <4>2
    <3>5. CASE l = k /\ d \notin due
      <4>1. probeOf(at'[l][d], d) = Recon!idle
        BY <1>4, <3>5, ProbeOfRow, StageRows
      <4>2. at[l][d].stage \in {"idle", "hook"} => probes[<<l, d>>] = Recon!idle
        BY <3>2, ProbeOfRow
      <4> QED
        BY <3>1, <3>5, <4>1, <4>2
    <3> QED
      BY <3>3, <3>4, <3>5
  <2> HIDE DEF S, due
  <2> QED
    BY <2>1, <2>2
<1>7. Recon!GiveUp(S)
  BY <1>5, <1>6 DEF Recon!GiveUp, PlanCycle
<1>8. S \in SUBSET (Cycles \X Cids)
  OBVIOUS
<1> HIDE DEF S
<1> QED
  BY <1>3, <1>7, <1>8 DEF Recon!Next, Recon!ReconNext

\* The steps of processStaleOrder.
LEMMA ProcessRefines ==
    ASSUME RowsTypeOK, Recon!TypeOK, NEW k \in Cycles, NEW c \in Cids, Process(k, c)
    PROVE  RowsTypeOK' /\ [Recon!Next]_Recon!reconVars
<1> DEFINE p == <<k, c>>
<1>1. /\ p \in Cycles \X Cids /\ at[k][c] \in RowStages
      /\ probes[p] = probeOf(at[k][c], c)
  BY ProbeOfAt
<1>2. CASE Resolves(k, c)
  <2> DEFINE row == [stage |-> "query"]
  <2>1. row \in RowStages /\ at[k][c].stage = "due" /\ Put(k, c, row)
    BY <1>2, StageRows DEF Resolves, Turn
  <2>2. probeOf(row, c) = probeOf(at[k][c], c)
    BY <1>1, <2>1, ProbeOfRow
  <2>3. probes' = probes
    BY <2>1, <2>2, SameProbe
  <2> QED
    BY <1>2, <2>1, <2>3, PutRow DEF Resolves, Recon!reconVars
<1>3. CASE Unresolved(k, c)
  <2>1. PICK row \in {[stage |-> "hook"], idle} : Put(k, c, row)
    BY <1>3 DEF Unresolved
  <2>2. row \in RowStages /\ row.stage \in {"idle", "hook"} /\ at[k][c].stage = "due"
    BY <1>3, <2>1, StageRows DEF Unresolved, Turn
  <2> QED
    BY <1>3, <2>1, <2>2, PutRow, RowEnds DEF Unresolved
<1>4. CASE HookReturns(k, c)
  <2>1. idle \in RowStages /\ at[k][c].stage = "hook" /\ Put(k, c, idle)
    BY <1>4, StageRows DEF HookReturns
  <2>2. probeOf(idle, c) = probeOf(at[k][c], c)
    BY <1>1, <2>1, ProbeOfRow, StageRows
  <2>3. probes' = probes
    BY <2>1, <2>2, SameProbe
  <2> QED
    BY <1>4, <2>1, <2>3, PutRow DEF HookReturns, Recon!reconVars
<1>5. CASE Query(k, c)
  <2> DEFINE x == Recon!BINANCE_STATUS_MAP[venue[c]]
             row == [stage |-> "write", state |-> x]
  <2>1. venue[c] \in Recon!VenueStatuses
    BY <1>5 DEF Query, Recon!TypeOK
  <2>2. x \in PendingOrderState
    BY <2>1 DEF Recon!VenueStatuses, Recon!ClosedStatuses, Recon!BINANCE_STATUS_MAP,
                PendingOrderState
  <2>3. row \in RowStages /\ at[k][c].stage = "query" /\ Put(k, c, row)
    BY <1>5, <2>2, StageRows DEF Query
  <2>4. probes[p] = [stage |-> "query", cid |-> c]
        /\ probeOf(row, c) = [stage |-> "write", cid |-> c, state |-> x]
    BY <1>1, <2>3, ProbeOfRow
  <2>5. Recon!Query(p)
    BY <1>5, <2>3, <2>4, PutRow DEF Query, Recon!Query
  <2> QED
    BY <1>1, <2>3, <2>5, PutRow DEF Recon!Next, Recon!ReconNext
<1>6. CASE GiveUp(k, c)
  <2>1. idle \in RowStages /\ idle.stage \in {"idle", "hook"} /\ Put(k, c, idle)
        /\ at[k][c].stage \notin {"idle", "hook"}
    BY <1>6, StageRows DEF GiveUp
  <2> QED
    BY <1>6, <2>1, PutRow, RowEnds DEF GiveUp
<1>7. CASE WriteBack(k, c)
  <2> DEFINE row == IF Updatable(c) THEN [at[k][c] EXCEPT !.stage = "announce"] ELSE idle
  <2>1. at[k][c] \in [stage : {"write", "announce"}, state : PendingOrderState]
        /\ at[k][c].stage = "write"
    BY <1>1, <1>7 DEF WriteBack, RowStages
  <2>2. [at[k][c] EXCEPT !.stage = "announce"] = [stage |-> "announce", state |-> at[k][c].state]
    BY <2>1
  <2>3. row \in RowStages /\ Put(k, c, row)
    BY <1>7, <2>1, <2>2, StageRows DEF WriteBack
  <2>4. probes[p] = [stage |-> "write", cid |-> c, state |-> at[k][c].state]
    BY <1>1, <2>1, ProbeOfRow
  <2>5. probeOf(row, c) = IF Updatable(c)
            THEN [stage |-> "announce", cid |-> c, state |-> at[k][c].state] ELSE Recon!idle
    BY <2>2, <2>3, StageRows, ProbeOfRow
  <2>6. probes' = [probes EXCEPT ![p] = probeOf(row, c)]
    BY <2>3, PutRow
  <2>7. [probes[p] EXCEPT !.stage = "announce"]
           = [stage |-> "announce", cid |-> c, state |-> at[k][c].state]
    BY <2>4
  <2>8. probes' = [probes EXCEPT ![p] =
            IF Recon!Updatable(c) THEN [probes[p] EXCEPT !.stage = "announce"] ELSE Recon!idle]
    BY <2>5, <2>6, <2>7 DEF Updatable, Recon!Updatable, TERMINAL_STATES, Recon!TERMINAL_STATES
  <2>9. Recon!UpdateOrderState(c, at[k][c].state) /\ UNCHANGED <<venue, wire, announced>>
    BY <1>7 DEF WriteBack, UpdateOrderState, Recon!UpdateOrderState, Updatable, Recon!Updatable,
                TERMINAL_STATES, Recon!TERMINAL_STATES
  <2>10. Recon!WriteBack(p)
    BY <2>4, <2>8, <2>9 DEF Recon!WriteBack
  <2> QED
    BY <1>1, <2>3, <2>10, PutRow DEF Recon!Next, Recon!ReconNext
<1>8. CASE Announce(k, c)
  <2>1. idle \in RowStages /\ at[k][c].stage = "announce" /\ Put(k, c, idle)
        /\ UNCHANGED <<venue, wire>>
    BY <1>8, StageRows DEF Announce
  <2>2. probes[p] = [stage |-> "announce", cid |-> c, state |-> at[k][c].state]
        /\ probeOf(idle, c) = Recon!idle
    BY <1>1, <2>1, ProbeOfRow, StageRows
  <2>3. probes' = [probes EXCEPT ![p] = Recon!idle]
    BY <2>1, <2>2, PutRow
  <2>4. Recon!Announce(p)
    BY <1>8, <2>1, <2>2, <2>3 DEF Announce, Recon!Announce
  <2> QED
    BY <1>1, <2>1, <2>4, PutRow DEF Recon!Next, Recon!ReconNext
<1> QED
  BY <1>2, <1>3, <1>4, <1>5, <1>6, <1>7, <1>8 DEF Process

\* Every step of the poller and of those around it.
LEMMA NextRefines ==
    ASSUME RowsTypeOK, Recon!TypeOK, [PollerNext]_pollerVars
    PROVE  RowsTypeOK' /\ [Recon!Next]_Recon!reconVars
<1>1. ASSUME at' = at PROVE RowsTypeOK' /\ probes' = probes
  BY <1>1 DEF RowsTypeOK, probes, probeOf
<1>2. ASSUME NEW c \in Cids, Grow(c) PROVE RowsTypeOK' /\ [Recon!Next]_Recon!reconVars
  BY <1>1, <1>2 DEF Grow, Recon!reconVars
<1>3. ASSUME NEW a \in Accounts, ChangeKeys(a)
      PROVE  RowsTypeOK' /\ [Recon!Next]_Recon!reconVars
  BY <1>1, <1>3 DEF ChangeKeys, Recon!reconVars
<1>4. CASE Others
  BY <1>1, <1>4 DEF Others, cycleVars, Recon!Next, Recon!ReconNext
<1>5. CASE UNCHANGED pollerVars
  BY <1>1, <1>5 DEF pollerVars, cycleVars, Recon!reconVars
<1> QED
  BY <1>2, <1>3, <1>4, <1>5, StartSelects, PlanDrops, ProcessRefines DEF PollerNext

(***************************************************************************)
(* The invariant.                                                          *)
(***************************************************************************)

\* The two instances of Reconciliation are one.
LEMMA SameModule ==
    /\ Recon!ReconInit <=> RP!ReconInit
    /\ [Recon!Next]_Recon!reconVars => [RP!Next]_RP!reconVars
    /\ Recon!TypeOK <=> RP!TypeOK
    /\ Recon!AnnouncedOutcomesHold <=> RP!AnnouncedOutcomesHold
<1>1. Recon!ReconInit <=> RP!ReconInit
  BY DEF Recon!ReconInit, RP!ReconInit, Recon!LedgerInit, RP!LedgerInit, Recon!idle, RP!idle
<1>2. Recon!Next <=> RP!Next
  BY DEF Recon!Next, RP!Next, Recon!ReconNext, RP!ReconNext,
         Recon!SubmitLands, RP!SubmitLands, Recon!TrackOrder, RP!TrackOrder,
         Recon!VenueMoves, RP!VenueMoves, Recon!Deliver, RP!Deliver,
         Recon!Lose, RP!Lose, Recon!Select, RP!Select, Recon!GiveUp, RP!GiveUp,
         Recon!Query, RP!Query, Recon!NotFound, RP!NotFound,
         Recon!WriteBack, RP!WriteBack, Recon!Announce, RP!Announce,
         Recon!HandleTransition, RP!HandleTransition, Recon!Report, RP!Report,
         Recon!VenueAccepts, RP!VenueAccepts,
         Recon!UpdateOrderState, RP!UpdateOrderState, Recon!Updatable, RP!Updatable,
         Recon!UpsertPendingOrder, RP!UpsertPendingOrder,
         Recon!StaleSubmittedOrders, RP!StaleSubmittedOrders,
         Recon!PolledStates, RP!PolledStates,
         Recon!BINANCE_STATUS_MAP, RP!BINANCE_STATUS_MAP,
         Recon!VenueStatuses, RP!VenueStatuses, Recon!ClosedStatuses, RP!ClosedStatuses,
         Recon!idle, RP!idle, Recon!TERMINAL_STATES, RP!TERMINAL_STATES
<1>3. [Recon!Next]_Recon!reconVars => [RP!Next]_RP!reconVars
  BY <1>2 DEF Recon!reconVars, RP!reconVars
<1>4. Recon!TypeOK <=> RP!TypeOK
  BY DEF Recon!TypeOK, RP!TypeOK, Recon!VenueStatuses, RP!VenueStatuses,
         Recon!ClosedStatuses, RP!ClosedStatuses, Recon!Transitions, RP!Transitions,
         Recon!ProbeType, RP!ProbeType, Recon!idle, RP!idle,
         Recon!PendingOrderState, RP!PendingOrderState
<1>5. Recon!AnnouncedOutcomesHold <=> RP!AnnouncedOutcomesHold
  BY DEF Recon!AnnouncedOutcomesHold, RP!AnnouncedOutcomesHold,
         Recon!TERMINAL_STATES, RP!TERMINAL_STATES
<1> QED
  BY <1>1, <1>3, <1>4, <1>5

\* What ReconciliationProofs assumes of its constants.
LEMMA VenueConstants == RP!MovesAssumption /\ RP!StreamsAssumption
  BY VenueAssumption DEF RP!MovesAssumption, RP!StreamsAssumption, RP!VenueStatuses,
     Recon!VenueStatuses, RP!ClosedStatuses, Recon!ClosedStatuses

LEMMA InitPollerInv ==
    ASSUME PollerInit
    PROVE  Recon!ReconInit /\ PollerInv
<1>1. at = [k \in Cycles |-> [c \in Cids |-> idle]]
  BY DEF PollerInit
<1>2. RowsTypeOK
  BY <1>1, StageRows DEF RowsTypeOK
<1>3. probes = [p \in Cycles \X Cids |-> Recon!idle]
  <2>1. \A p \in Cycles \X Cids : probeOf(at[p[1]][p[2]], p[2]) = Recon!idle
    BY <1>1, StageRows, ProbeOfRow
  <2> QED
    BY <2>1 DEF probes
<1>4. Recon!ReconInit
  BY <1>3 DEF PollerInit, Recon!ReconInit, LedgerInit, Recon!LedgerInit
<1>5. RP!ReconInv
  BY <1>4, SameModule, VenueConstants, RP!InitReconInv
<1>6. OneInHand
  BY <1>1 DEF OneInHand, InHand, idle
<1>7. CountersOK
  BY PollerAssumption DEF PollerInit, CountersOK
<1> QED
  BY <1>2, <1>4, <1>5, <1>6, <1>7 DEF PollerInv

\* A row is taken in hand only when its cycle has none.
LEMMA OneInHandKept ==
    ASSUME RowsTypeOK, OneInHand, [PollerNext]_pollerVars
    PROVE  OneInHand'
<1>1. ASSUME NEW k \in Cycles, NEW c \in Cids, NEW row, Put(k, c, row),
             row.stage = "idle" \/ \A d \in Cids : InHand(k, d) => d = c
      PROVE  OneInHand'
  <2>1. \A l \in Cycles, d \in Cids : at'[l][d] = IF l = k /\ d = c THEN row ELSE at[l][d]
    BY <1>1 DEF Put, RowsTypeOK
  <2> SUFFICES ASSUME NEW l \in Cycles, NEW d \in Cids, NEW e \in Cids,
                      InHand(l, d)', InHand(l, e)'
               PROVE  d = e
    BY DEF OneInHand
  <2>2. CASE l # k
    BY <2>1, <2>2 DEF OneInHand, InHand
  <2>3. CASE l = k /\ row.stage = "idle"
    BY <2>1, <2>3 DEF OneInHand, InHand
  <2>4. CASE l = k /\ \A x \in Cids : InHand(k, x) => x = c
    BY <2>1, <2>4 DEF InHand
  <2> QED
    BY <1>1, <2>2, <2>3, <2>4
<1>2. ASSUME NEW k \in Cycles, NEW new \in [Cids -> RowStages], at' = [at EXCEPT ![k] = new],
             \A c \in Cids : new[c].stage \in {"idle", "listed", "due"}
      PROVE  OneInHand'
  BY <1>2 DEF RowsTypeOK, OneInHand, InHand
<1>3. ASSUME NEW k \in Cycles, StartCycle(k) PROVE OneInHand'
  <2> DEFINE new == [c \in Cids |-> IF c \in {d \in StaleSubmittedOrders : age[d] >= 1}
                                    THEN [stage |-> "listed"] ELSE idle]
  <2>1. new \in [Cids -> RowStages] /\ \A c \in Cids : new[c].stage \in {"idle", "listed", "due"}
    BY StageRows
  <2> QED
    BY <1>2, <1>3, <2>1 DEF StartCycle
<1>4. ASSUME NEW k \in Cycles, PlanCycle(k) PROVE OneInHand'
  <2>1. PICK due \in SUBSET Cids :
           at' = [at EXCEPT ![k] = [c \in Cids |-> IF c \in due THEN [stage |-> "due"] ELSE idle]]
    <3> WITNESS {c \in {d \in Cids : at[k][d].stage = "listed"} :
                    age[c] >= thresholdForAttempt(attempts[c])} \in SUBSET Cids
    <3> QED
      BY <1>4 DEF PlanCycle
  <2> DEFINE new == [c \in Cids |-> IF c \in due THEN [stage |-> "due"] ELSE idle]
  <2>2. new \in [Cids -> RowStages] /\ \A c \in Cids : new[c].stage \in {"idle", "listed", "due"}
    BY StageRows
  <2> QED
    BY <1>2, <2>1, <2>2
<1>5. ASSUME NEW k \in Cycles, NEW c \in Cids, Process(k, c) PROVE OneInHand'
  <2>2. CASE Resolves(k, c) \/ Unresolved(k, c)
    <3>1. (\A d \in Cids : ~InHand(k, d)) /\ \E row : Put(k, c, row)
      BY <2>2 DEF Resolves, Unresolved, Turn
    <3> QED
      BY <1>1, <3>1
  <2>3. CASE HookReturns(k, c) \/ GiveUp(k, c) \/ Announce(k, c)
    BY <1>1, <2>3, StageRows DEF HookReturns, GiveUp, Announce
  <2>4. CASE Query(k, c) \/ WriteBack(k, c)
    <3>1. InHand(k, c) /\ \E row : Put(k, c, row)
      BY <2>4 DEF Query, WriteBack, InHand
    <3>2. \A d \in Cids : InHand(k, d) => d = c
      BY <3>1 DEF OneInHand
    <3> QED
      BY <1>1, <3>1, <3>2
  <2> QED
    BY <1>5, <2>2, <2>3, <2>4 DEF Process
<1>6. ASSUME at' = at PROVE OneInHand'
  BY <1>6 DEF OneInHand, InHand
<1> QED
  BY <1>3, <1>4, <1>5, <1>6 DEF PollerNext, Grow, ChangeKeys, Others, pollerVars, cycleVars

\* The counters stay within their bounds.
LEMMA CountersKept ==
    ASSUME CountersOK, [PollerNext]_pollerVars
    PROVE  CountersOK'
<1> USE PollerAssumption
<1>1. ASSUME NEW k \in Cycles, StartCycle(k) PROVE CountersOK'
  BY <1>1 DEF StartCycle, CountersOK
<1>2. ASSUME NEW k \in Cycles, PlanCycle(k) PROVE CountersOK'
  <2>1. attempts' \in [Cids -> 0 .. Rungs]
    BY <1>2 DEF PlanCycle, CountersOK
  <2> QED
    BY <1>2, <2>1 DEF PlanCycle, CountersOK
<1>3. ASSUME NEW k \in Cycles, NEW c \in Cids, Process(k, c) PROVE CountersOK'
  <2>1. AccountOf[c] \in Accounts
    BY DEF Accounts
  <2>2. CASE Resolves(k, c)
    BY <2>1, <2>2 DEF Resolves, CountersOK
  <2>3. CASE Unresolved(k, c)
    <3>1. streak' \in [Accounts -> 0 .. DowngradeAfter + 1]
      BY <2>1, <2>3 DEF Unresolved, CountersOK
    <3>2. downgraded' \subseteq Accounts
      BY <2>1, <2>3 DEF Unresolved, CountersOK
    <3> QED
      BY <2>3, <3>1, <3>2 DEF Unresolved, CountersOK
  <2>4. CASE \/ HookReturns(k, c) \/ Query(k, c) \/ GiveUp(k, c)
             \/ WriteBack(k, c) \/ Announce(k, c)
    BY <2>4 DEF HookReturns, Query, GiveUp, WriteBack, Announce, CountersOK
  <2> QED
    BY <1>3, <2>2, <2>3, <2>4 DEF Process
<1>4. ASSUME NEW c \in Cids, Grow(c) PROVE CountersOK'
  BY <1>4 DEF Grow, CountersOK
<1>5. ASSUME NEW a \in Accounts, ChangeKeys(a) PROVE CountersOK'
  BY <1>5 DEF ChangeKeys, CountersOK
<1>6. CASE Others \/ UNCHANGED pollerVars
  BY <1>6 DEF Others, pollerVars, cycleVars, CountersOK
<1> QED
  BY <1>1, <1>2, <1>3, <1>4, <1>5, <1>6 DEF PollerNext

LEMMA NextPollerInv ==
    ASSUME PollerInv, [PollerNext]_pollerVars
    PROVE  PollerInv' /\ [Recon!Next]_Recon!reconVars
<1>1. Recon!TypeOK
  BY SameModule DEF PollerInv, RP!ReconInv
<1>2. RowsTypeOK' /\ [Recon!Next]_Recon!reconVars
  BY <1>1, NextRefines DEF PollerInv
<1>3. RP!ReconInv'
  BY <1>2, SameModule, VenueConstants, RP!NextReconInv DEF PollerInv
<1> QED
  BY <1>2, <1>3, OneInHandKept, CountersKept DEF PollerInv

LEMMA PollerInvariant == PollerSpec => []PollerInv
  BY InitPollerInv, NextPollerInv, PTL DEF PollerSpec

(***************************************************************************)
(* The theorems.                                                           *)
(***************************************************************************)

\* The poller's variables keep their types, and a cycle never works on two rows
\* at once, however many cycles overlap.
THEOREM PollerTypes == PollerSpec => []PollerTypeOK
<1>1. PollerInv => PollerTypeOK
  BY SameModule
     DEF PollerInv, RP!ReconInv, RowsTypeOK, OneInHand, CountersOK, PollerTypeOK
<1> QED
  BY <1>1, PollerInvariant, PTL

\* Cycles, ladder, streaks and their downgrades do nothing to the ledger that
\* the probes of Reconciliation would not do.
THEOREM PollerImplements == PollerSpec => ImplementsReconciliation
<1>1. PollerInit => Recon!ReconInit
  BY InitPollerInv
<1>2. PollerInv /\ [PollerNext]_pollerVars => [Recon!Next]_Recon!reconVars
  BY NextPollerInv
<1> QED
  BY <1>1, <1>2, PollerInvariant, PTL DEF PollerSpec, ImplementsReconciliation, Recon!Spec

\* What the poller, or the stream beside it, announces as final is and stays
\* the state of its row.
THEOREM PollerAnnounces == PollerSpec => []AnnouncedOutcomesHold
<1>1. PollerInv => AnnouncedOutcomesHold
  BY SameModule DEF PollerInv, RP!ReconInv, AnnouncedOutcomesHold
<1> QED
  BY <1>1, PollerInvariant, PTL

\* A row opens once and settles once, and only as its order did, whichever
\* cycle or message tells of it.
THEOREM PollerMirrorsVenue == PollerSpec => MirrorsVenue
<1> DEFINE outcomes == [c \in Cids |-> Recon!outcomeOf(c)]
           views    == [c \in Cids |-> Recon!viewOf(c)]
<1>1. Recon!ReconInit => Recon!Mirror!Init
  BY DEF Recon!ReconInit, Recon!LedgerInit, Recon!Mirror!Init, Recon!outcomeOf, Recon!viewOf,
         Recon!ClosedStatuses
<1>2. RP!ReconInv /\ [RP!Next]_RP!reconVars =>
         [RP!Mirror!Next]_<<[c \in Cids |-> RP!outcomeOf(c)], [c \in Cids |-> RP!viewOf(c)]>>
  BY VenueConstants, RP!NextRefines
<1>3. /\ [c \in Cids |-> RP!outcomeOf(c)] = outcomes
      /\ [c \in Cids |-> RP!viewOf(c)] = views
      /\ [c \in Cids |-> RP!outcomeOf(c)]' = outcomes'
      /\ [c \in Cids |-> RP!viewOf(c)]' = views'
  BY DEF Recon!outcomeOf, RP!outcomeOf, Recon!viewOf, RP!viewOf,
         Recon!ClosedStatuses, RP!ClosedStatuses, Recon!TERMINAL_STATES, RP!TERMINAL_STATES,
         Recon!BINANCE_STATUS_MAP, RP!BINANCE_STATUS_MAP, Recon!VenueStatuses, RP!VenueStatuses
<1>4. RP!Mirror!Next => Recon!Mirror!Next
  BY <1>3 DEF RP!Mirror!Next, Recon!Mirror!Next, RP!Mirror!End, Recon!Mirror!End,
         RP!Mirror!Open, Recon!Mirror!Open, RP!Mirror!Settle, Recon!Mirror!Settle,
         Recon!TERMINAL_STATES, RP!TERMINAL_STATES
<1>5. PollerInv /\ [PollerNext]_pollerVars => [Recon!Mirror!Next]_<<outcomes, views>>
  <2> SUFFICES ASSUME PollerInv, [PollerNext]_pollerVars
               PROVE  [Recon!Mirror!Next]_<<outcomes, views>>
    OBVIOUS
  <2>1. [RP!Next]_RP!reconVars
    BY NextPollerInv, SameModule
  <2> QED
    BY <1>2, <1>3, <1>4, <2>1 DEF PollerInv
<1> QED
  BY <1>1, <1>5, InitPollerInv, PollerInvariant, PTL
     DEF PollerSpec, MirrorsVenue, Recon!MirrorsVenue, Recon!Mirror!Spec
=============================================================================
