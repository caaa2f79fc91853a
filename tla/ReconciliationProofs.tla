------------------------- MODULE ReconciliationProofs -------------------------
(***************************************************************************)
(* Proofs about the ledger and its reconciliation, for every set of        *)
(* orders, probes and venue statuses, with and without a stream.           *)
(*                                                                         *)
(* The argument: whatever is on its way to a row, on the wire or in a      *)
(* probe, and whatever a row says, is the order's outcome if it is final   *)
(* at all (Settled).  Outcomes do not change, so it does not matter in     *)
(* which order, how late or how often the writes arrive.                   *)
(***************************************************************************)
EXTENDS Reconciliation, TLAPS

Settled(c, s) == s \in TERMINAL_STATES => s = outcomeOf(c)

RowsSettled   == \A c \in Cids : Settled(c, ledger[c])
WireSettled   == \A t \in wire : Settled(t[1], t[2])
ProbesSettled == \A p \in Probes :
    probe[p].stage \in {"write", "announce"} => Settled(probe[p].cid, probe[p].state)

ReconInv ==
    TypeOK /\ RowsSettled /\ WireSettled /\ ProbesSettled /\ AnnouncedOutcomesHold

(***************************************************************************)
(* Facts about the data.                                                   *)
(***************************************************************************)

\* The map's results are states of the ledger, final for the closed statuses
\* and for no others.
LEMMA StatusMap ==
    \A s \in VenueStatuses :
        /\ BINANCE_STATUS_MAP[s] \in PendingOrderState
        /\ BINANCE_STATUS_MAP[s] \in TERMINAL_STATES <=> s \in ClosedStatuses
  BY DEF VenueStatuses, ClosedStatuses, BINANCE_STATUS_MAP, PendingOrderState,
         TERMINAL_STATES

\* No placeholder is a final state.
LEMMA FinalStates ==
    /\ TERMINAL_STATES \subseteq PendingOrderState
    /\ "pending" \notin TERMINAL_STATES /\ "absent" \notin TERMINAL_STATES
    /\ "absent" \notin PendingOrderState
    /\ "submitted" \in PendingOrderState \ TERMINAL_STATES
    /\ "unknown" \in PendingOrderState \ TERMINAL_STATES
  BY DEF TERMINAL_STATES, PendingOrderState

\* What the venue says of an order is final only if it is the outcome.
LEMMA VenueAnswerSettled ==
    ASSUME NEW c \in Cids, venue[c] \in VenueStatuses
    PROVE  Settled(c, BINANCE_STATUS_MAP[venue[c]])
  BY StatusMap DEF Settled, outcomeOf

\* Settled holds on while outcomes stand.
LEMMA OutcomesStand ==
    ASSUME NEW c, NEW s, Settled(c, s),
           outcomeOf(c) = "pending" \/ outcomeOf(c)' = outcomeOf(c)
    PROVE  Settled(c, s)'
  BY FinalStates DEF Settled

(***************************************************************************)
(* The two ways in which the invariant's variables change.                 *)
(***************************************************************************)

\* The venue takes an order or moves one: outcomes only come into being.
LEMMA VenueStepInv ==
    ASSUME ReconInv, NEW c \in Cids, NEW s \in VenueStatuses,
           venue[c] \notin ClosedStatuses,
           venue' = [venue EXCEPT ![c] = s], Report(c, s),
           UNCHANGED <<ledger, probe, announced>>
    PROVE  ReconInv'
<1>1. TypeOK
  BY DEF ReconInv
<1>2. venue' \in [Cids -> VenueStatuses \union {"none"}] /\ venue'[c] = s
  BY <1>1 DEF TypeOK
<1>3. \A d \in Cids : outcomeOf(d) = "pending" \/ outcomeOf(d)' = outcomeOf(d)
  BY <1>1 DEF TypeOK, outcomeOf
<1>4. \A t \in wire' : t \in wire \/ t = <<c, BINANCE_STATUS_MAP[s]>>
  BY DEF Report
<1>5. BINANCE_STATUS_MAP[s] \in PendingOrderState
  BY StatusMap
<1>6. TypeOK'
  BY <1>1, <1>2, <1>4, <1>5 DEF TypeOK, Transitions
<1>7. Settled(c, BINANCE_STATUS_MAP[s])'
  BY <1>2, StatusMap DEF Settled, outcomeOf
<1>8. RowsSettled'
  BY <1>3, OutcomesStand DEF ReconInv, RowsSettled
<1>9. WireSettled'
  <2>1. \A t \in wire : t[1] \in Cids /\ Settled(t[1], t[2])
    BY <1>1 DEF ReconInv, WireSettled, TypeOK, Transitions
  <2>2. \A t \in wire : Settled(t[1], t[2])'
    BY <1>3, <2>1, OutcomesStand
  <2> QED
    BY <1>4, <1>7, <2>2 DEF WireSettled
<1>10. ProbesSettled'
  <2> SUFFICES ASSUME NEW p \in Probes, probe[p].stage \in {"write", "announce"}
               PROVE  Settled(probe[p].cid, probe[p].state)'
    BY DEF ProbesSettled
  <2>1. probe[p].cid \in Cids
    BY <1>1 DEF TypeOK, ProbeType, idle
  <2>2. Settled(probe[p].cid, probe[p].state)
    BY DEF ReconInv, ProbesSettled
  <2> QED
    BY <1>3, <2>1, <2>2, OutcomesStand
<1>11. AnnouncedOutcomesHold'
  BY DEF ReconInv, AnnouncedOutcomesHold
<1> QED
  BY <1>6, <1>8, <1>9, <1>10, <1>11 DEF ReconInv

\* A row is updated with a state that is settled, and maybe announced.
LEMMA UpdateStepInv ==
    ASSUME ReconInv, NEW c \in Cids, NEW s \in PendingOrderState, Settled(c, s),
           UpdateOrderState(c, s), venue' = venue,
           \/ announced' = announced
           \/ Updatable(c) /\ announced' = announced \union {<<c, s>>}
    PROVE  /\ ledger' \in [Cids -> PendingOrderState \union {"absent"}]
           /\ announced' \subseteq Transitions
           /\ RowsSettled' /\ AnnouncedOutcomesHold'
<1>1. TypeOK
  BY DEF ReconInv
<1>2. \A d \in Cids : ledger'[d] = IF d = c /\ Updatable(c) THEN s ELSE ledger[d]
  BY <1>1 DEF UpdateOrderState, TypeOK
<1>3. ledger' \in [Cids -> PendingOrderState \union {"absent"}]
  BY <1>1 DEF UpdateOrderState, TypeOK
<1>4. announced' \subseteq Transitions
  BY <1>1 DEF TypeOK, Transitions
<1>5. \A d \in Cids : \A x : Settled(d, x)' <=> Settled(d, x)
  BY DEF Settled, outcomeOf
<1>6. RowsSettled'
  <2> SUFFICES ASSUME NEW d \in Cids PROVE Settled(d, ledger'[d])
    BY <1>5 DEF RowsSettled, Settled, outcomeOf
  <2> QED
    BY <1>2 DEF ReconInv, RowsSettled
<1>7. AnnouncedOutcomesHold'
  <2> SUFFICES ASSUME NEW t \in announced', t[2] \in TERMINAL_STATES
               PROVE  ledger'[t[1]] = t[2]
    BY DEF AnnouncedOutcomesHold
  <2>1. CASE t \in announced
    <3>1. t[1] \in Cids /\ ledger[t[1]] = t[2]
      BY <1>1, <2>1 DEF ReconInv, AnnouncedOutcomesHold, TypeOK, Transitions
    <3> QED
      BY <1>2, <3>1 DEF Updatable
  <2>2. CASE t \notin announced
    BY <1>2, <2>2
  <2> QED
    BY <2>1, <2>2
<1> QED
  BY <1>3, <1>4, <1>6, <1>7

\* Probes move on and nothing else happens.
LEMMA ProbesStepInv ==
    ASSUME ReconInv, probe' = [p \in Probes |-> probe'[p]],
           \A p \in Probes :
              \/ probe'[p] = probe[p]
              \/ /\ probe'[p] \in ProbeType
                 /\ probe'[p].stage \in {"write", "announce"}
                       => Settled(probe'[p].cid, probe'[p].state),
           UNCHANGED <<ledger, venue, wire, announced>>
    PROVE  ReconInv'
<1>1. TypeOK'
  BY DEF ReconInv, TypeOK
<1>2. \A d, x : Settled(d, x)' <=> Settled(d, x)
  BY DEF Settled, outcomeOf
<1>3. RowsSettled' /\ WireSettled' /\ AnnouncedOutcomesHold'
  BY <1>2 DEF ReconInv, RowsSettled, WireSettled, AnnouncedOutcomesHold, Settled, outcomeOf
<1>4. ProbesSettled'
  <2> SUFFICES ASSUME NEW q \in Probes, probe'[q].stage \in {"write", "announce"}
               PROVE  Settled(probe'[q].cid, probe'[q].state)
    BY <1>2 DEF ProbesSettled, Settled, outcomeOf
  <2> QED
    BY DEF ReconInv, ProbesSettled
<1> QED
  BY <1>1, <1>3, <1>4 DEF ReconInv

\* One of them does.
LEMMA ProbeStepInv ==
    ASSUME ReconInv, NEW p \in Probes, NEW next \in ProbeType,
           next.stage \in {"write", "announce"} => Settled(next.cid, next.state),
           probe' = [probe EXCEPT ![p] = next],
           UNCHANGED <<ledger, venue, wire, announced>>
    PROVE  ReconInv'
<1>1. /\ probe' = [q \in Probes |-> probe'[q]]
      /\ \A q \in Probes : probe'[q] = IF q = p THEN next ELSE probe[q]
  BY DEF ReconInv, TypeOK
<1> QED
  BY <1>1, ProbesStepInv

\* The same for a probe that also updates its row.
LEMMA ProbeUpdateInv ==
    ASSUME ReconInv, NEW p \in Probes, NEW next \in ProbeType,
           probe[p].stage \in {"write", "announce"},
           next.stage \in {"write", "announce"}
               => next.cid = probe[p].cid /\ next.state = probe[p].state,
           probe' = [probe EXCEPT ![p] = next],
           UpdateOrderState(probe[p].cid, probe[p].state),
           \/ announced' = announced
           \/ /\ Updatable(probe[p].cid)
              /\ announced' = announced \union {<<probe[p].cid, probe[p].state>>},
           UNCHANGED <<venue, wire>>
    PROVE  ReconInv'
<1>1. TypeOK
  BY DEF ReconInv
<1>2. /\ probe[p].cid \in Cids /\ probe[p].state \in PendingOrderState
      /\ Settled(probe[p].cid, probe[p].state)
  BY <1>1 DEF TypeOK, ProbeType, idle, ReconInv, ProbesSettled
<1>3. /\ ledger' \in [Cids -> PendingOrderState \union {"absent"}]
      /\ announced' \subseteq Transitions
      /\ RowsSettled' /\ AnnouncedOutcomesHold'
  BY <1>2, UpdateStepInv
<1>4. TypeOK'
  BY <1>1, <1>3 DEF TypeOK
<1>5. \A d, x : Settled(d, x)' <=> Settled(d, x)
  BY DEF Settled, outcomeOf
<1>6. WireSettled'
  BY <1>5 DEF ReconInv, WireSettled, Settled, outcomeOf
<1>7. \A q \in Probes : probe'[q] = IF q = p THEN next ELSE probe[q]
  BY <1>1 DEF TypeOK
<1>8. ProbesSettled'
  <2> SUFFICES ASSUME NEW q \in Probes, probe'[q].stage \in {"write", "announce"}
               PROVE  Settled(probe'[q].cid, probe'[q].state)
    BY <1>5 DEF ProbesSettled, Settled, outcomeOf
  <2> QED
    BY <1>2, <1>7 DEF ReconInv, ProbesSettled
<1> QED
  BY <1>3, <1>4, <1>6, <1>8 DEF ReconInv

(***************************************************************************)
(* The invariant.                                                          *)
(***************************************************************************)

LEMMA InitReconInv == ReconInit => ReconInv
<1> SUFFICES ASSUME ReconInit PROVE ReconInv
  OBVIOUS
<1>1. TypeOK
  BY DEF ReconInit, LedgerInit, TypeOK, ProbeType, idle
<1>2. RowsSettled
  BY FinalStates DEF ReconInit, LedgerInit, RowsSettled, Settled
<1>3. WireSettled /\ ProbesSettled /\ AnnouncedOutcomesHold
  BY DEF ReconInit, WireSettled, ProbesSettled, AnnouncedOutcomesHold, idle
<1> QED
  BY <1>1, <1>2, <1>3 DEF ReconInv

LEMMA NextReconInv == ReconInv /\ [Next]_reconVars => ReconInv'
<1> SUFFICES ASSUME ReconInv, [Next]_reconVars PROVE ReconInv'
  OBVIOUS
<1>1. TypeOK
  BY DEF ReconInv
<1>2. ASSUME NEW c \in Cids, NEW s \in Moves, VenueMoves(c, s) PROVE ReconInv'
  <2>1. s \in VenueStatuses /\ venue[c] \notin ClosedStatuses
    BY <1>2, MovesAssumption DEF VenueMoves, ClosedStatuses
  <2> QED
    BY <1>2, <2>1, VenueStepInv DEF VenueMoves
<1>3. ASSUME NEW c \in Cids, SubmitLands(c) PROVE ReconInv'
  <2>1. "NEW" \in VenueStatuses /\ venue[c] \notin ClosedStatuses
    BY <1>3 DEF SubmitLands, ClosedStatuses, VenueStatuses
  <2> QED
    BY <1>3, <2>1, VenueStepInv DEF SubmitLands, VenueAccepts
<1>4. ASSUME NEW t \in wire, Deliver(t) PROVE ReconInv'
  <2>1. t[1] \in Cids /\ t[2] \in PendingOrderState /\ Settled(t[1], t[2])
    BY <1>1 DEF TypeOK, Transitions, ReconInv, WireSettled
  <2>2. /\ ledger' \in [Cids -> PendingOrderState \union {"absent"}]
        /\ announced' \subseteq Transitions
        /\ RowsSettled' /\ AnnouncedOutcomesHold'
    BY <1>4, <2>1, UpdateStepInv DEF Deliver, HandleTransition
  <2>3. TypeOK'
    BY <1>1, <1>4, <2>2 DEF Deliver, TypeOK
  <2>4. WireSettled' /\ ProbesSettled'
    BY <1>4 DEF Deliver, ReconInv, WireSettled, ProbesSettled, Settled, outcomeOf
  <2> QED
    BY <2>2, <2>3, <2>4 DEF ReconInv
<1>5. ASSUME NEW t \in wire, Lose(t) PROVE ReconInv'
  BY <1>1, <1>5 DEF Lose, ReconInv, TypeOK, RowsSettled, WireSettled,
                    ProbesSettled, AnnouncedOutcomesHold, Settled, outcomeOf
<1>6. idle \in ProbeType /\ idle.stage = "idle"
  BY DEF ProbeType, idle
<1>7. ASSUME NEW S \in SUBSET Probes, NEW row \in [S -> StaleSubmittedOrders], Select(S, row)
      PROVE  ReconInv'
  <2>1. \A p \in Probes : \/ probe'[p] = probe[p]
                          \/ probe'[p] \in ProbeType /\ probe'[p].stage = "query"
    BY <1>7 DEF Select, ProbeType, StaleSubmittedOrders
  <2>2. UNCHANGED <<ledger, venue, wire, announced>>
        /\ probe' = [p \in Probes |-> probe'[p]]
    BY <1>7 DEF Select
  <2> QED
    BY <2>1, <2>2, ProbesStepInv
<1>8. ASSUME NEW p \in Probes, Query(p) PROVE ReconInv'
  <2> DEFINE c == probe[p].cid
             next == [stage |-> "write", cid |-> c, state |-> BINANCE_STATUS_MAP[venue[c]]]
  <2>1. c \in Cids /\ venue[c] \in VenueStatuses
    BY <1>1, <1>8 DEF Query, TypeOK, ProbeType, idle
  <2>2. BINANCE_STATUS_MAP[venue[c]] \in PendingOrderState
        /\ Settled(c, BINANCE_STATUS_MAP[venue[c]])
    BY <2>1, StatusMap, VenueAnswerSettled
  <2>3. probe' = [probe EXCEPT ![p] = next] /\ UNCHANGED <<ledger, venue, wire, announced>>
    BY <1>8 DEF Query
  <2>4. next \in ProbeType /\ Settled(next.cid, next.state)
    BY <2>1, <2>2 DEF ProbeType
  <2> HIDE DEF next
  <2> QED
    BY <2>3, <2>4, ProbeStepInv
<1>9a. ASSUME NEW S \in SUBSET Probes, GiveUp(S) PROVE ReconInv'
  <2>1. \A p \in Probes : \/ probe'[p] = probe[p]
                          \/ probe'[p] \in ProbeType /\ probe'[p].stage = "idle"
    BY <1>6, <1>9a DEF GiveUp
  <2>2. UNCHANGED <<ledger, venue, wire, announced>>
        /\ probe' = [p \in Probes |-> probe'[p]]
    BY <1>9a DEF GiveUp
  <2> QED
    BY <2>1, <2>2, ProbesStepInv
<1>9. ASSUME NEW p \in Probes, NotFound(p) PROVE ReconInv'
  <2>1. probe' = [probe EXCEPT ![p] = idle] /\ UNCHANGED <<ledger, venue, wire, announced>>
    BY <1>9 DEF NotFound
  <2> QED
    BY <1>6, <2>1, ProbeStepInv
<1>10. ASSUME NEW p \in Probes, WriteBack(p) PROVE ReconInv'
  <2> DEFINE next == IF Updatable(probe[p].cid)
                     THEN [probe[p] EXCEPT !.stage = "announce"] ELSE idle
  <2>1. probe[p] \in [stage : {"write", "announce"}, cid : Cids, state : PendingOrderState]
    BY <1>1, <1>10 DEF WriteBack, TypeOK, ProbeType, idle
  <2>2. /\ next \in ProbeType
        /\ next.stage \in {"write", "announce"}
             => next.cid = probe[p].cid /\ next.state = probe[p].state
    BY <1>6, <2>1 DEF ProbeType
  <2>3. /\ probe' = [probe EXCEPT ![p] = next] /\ UNCHANGED <<venue, wire, announced>>
        /\ UpdateOrderState(probe[p].cid, probe[p].state)
        /\ probe[p].stage \in {"write", "announce"}
    BY <1>1, <1>10 DEF WriteBack, TypeOK
  <2> HIDE DEF next
  <2> QED
    BY <2>2, <2>3, ProbeUpdateInv
<1>11. ASSUME NEW p \in Probes, Announce(p) PROVE ReconInv'
  <2>1. /\ probe' = [probe EXCEPT ![p] = idle] /\ UNCHANGED <<venue, wire>>
        /\ probe[p].stage \in {"write", "announce"}
    BY <1>11 DEF Announce
  <2> QED
    BY <1>6, <1>11, <2>1, ProbeUpdateInv DEF Announce, HandleTransition
<1>12. ASSUME NEW c \in Cids, TrackOrder(c) PROVE ReconInv'
  <2>1. PICK s \in {"submitted", "unknown"} : ledger' = [ledger EXCEPT ![c] = s]
    BY <1>12 DEF TrackOrder, UpsertPendingOrder
  <2>2. \A d \in Cids : ledger'[d] = IF d = c THEN s ELSE ledger[d]
    BY <1>1, <2>1 DEF TypeOK
  <2>3. TypeOK'
    BY <1>1, <1>12, <2>1, FinalStates DEF TrackOrder, TypeOK
  <2>4. RowsSettled'
    BY <1>12, <2>2, FinalStates
       DEF TrackOrder, ReconInv, RowsSettled, Settled, outcomeOf
  <2>5. WireSettled' /\ ProbesSettled'
    BY <1>12 DEF TrackOrder, ReconInv, WireSettled, ProbesSettled, Settled, outcomeOf
  <2>6. AnnouncedOutcomesHold'
    <3> SUFFICES ASSUME NEW t \in announced, t[2] \in TERMINAL_STATES
                 PROVE  ledger'[t[1]] = t[2]
      BY <1>12 DEF TrackOrder, AnnouncedOutcomesHold
    <3>1. t[1] \in Cids /\ ledger[t[1]] = t[2]
      BY <1>1 DEF TypeOK, Transitions, ReconInv, AnnouncedOutcomesHold
    <3> QED
      BY <1>12, <2>2, <3>1, FinalStates DEF TrackOrder
  <2> QED
    BY <2>3, <2>4, <2>5, <2>6 DEF ReconInv
<1>13. ASSUME UNCHANGED reconVars PROVE ReconInv'
  BY <1>1, <1>13 DEF reconVars, ReconInv, TypeOK, RowsSettled, WireSettled,
                     ProbesSettled, AnnouncedOutcomesHold, Settled, outcomeOf
<1> QED
  BY <1>2, <1>3, <1>4, <1>5, <1>7, <1>8, <1>9, <1>9a, <1>10, <1>11, <1>12, <1>13
     DEF Next, ReconNext

\* The strengthened invariant holds throughout.
LEMMA ReconInvariant == Spec => []ReconInv
  BY InitReconInv, NextReconInv, PTL DEF Spec

(***************************************************************************)
(* The theorems.                                                           *)
(***************************************************************************)

\* Rows, venue statuses, transitions on their way, probes and announcements
\* keep their types, in every interleaving of handler, stream and poller.
THEOREM LedgerTypes == Spec => []TypeOK
<1>1. ReconInv => TypeOK
  BY DEF ReconInv
<1> QED
  BY <1>1, ReconInvariant, PTL

\* What handleTransition hands to onTransitionSettled as final is what the row
\* says from then on, so no consumer hears of two outcomes of one order.
THEOREM AnnouncementsHold == Spec => []AnnouncedOutcomesHold
<1>1. ReconInv => AnnouncedOutcomesHold
  BY DEF ReconInv
<1> QED
  BY <1>1, ReconInvariant, PTL

(***************************************************************************)
(* The refinement.                                                         *)
(***************************************************************************)

\* Mapping of the two kinds of steps that change what OrderMirror sees.  A
\* write to a row opens it, settles it as its order ended, or changes nothing
\* in its view.
LEMMA RowStepRefines ==
    ASSUME TypeOK, NEW c \in Cids, NEW s \in PendingOrderState, Settled(c, s),
           venue' = venue, ledger' = [ledger EXCEPT ![c] = s],
           \/ ledger[c] = "absent" /\ s \notin TERMINAL_STATES
           \/ Updatable(c)
    PROVE  [Mirror!Next]_<<[d \in Cids |-> outcomeOf(d)], [d \in Cids |-> viewOf(d)]>>
<1> DEFINE out  == [d \in Cids |-> outcomeOf(d)]
           seen == [d \in Cids |-> viewOf(d)]
<1>1. \A d \in Cids : ledger'[d] = IF d = c THEN s ELSE ledger[d]
  BY DEF TypeOK
<1>2. out' = out
  BY DEF outcomeOf
<1>3. \A d \in Cids : viewOf(d)' = IF d = c THEN viewOf(c)' ELSE viewOf(d)
  BY <1>1 DEF viewOf
<1>4. seen' = [seen EXCEPT ![c] = viewOf(c)']
  BY <1>3
<1>5. s # "absent"
  BY FinalStates
<1>6. CASE ledger[c] = "absent" /\ s \notin TERMINAL_STATES
  <2>1. viewOf(c) = "absent" /\ viewOf(c)' = "open"
    BY <1>1, <1>5, <1>6 DEF viewOf
  <2>2. Mirror!Open(c)
    BY <1>2, <1>4, <2>1 DEF Mirror!Open
  <2> QED
    BY <2>2 DEF Mirror!Next
<1>7. CASE Updatable(c) /\ s \in TERMINAL_STATES
  <2>1. viewOf(c) = "open" /\ viewOf(c)' = s
    BY <1>1, <1>5, <1>7 DEF viewOf, Updatable
  <2>2. s = outcomeOf(c) /\ outcomeOf(c) # "pending"
    BY <1>7, FinalStates DEF Settled
  <2>3. Mirror!Settle(c)
    BY <1>2, <1>4, <2>1, <2>2 DEF Mirror!Settle
  <2> QED
    BY <2>3 DEF Mirror!Next
<1>8. CASE Updatable(c) /\ s \notin TERMINAL_STATES
  <2>1. viewOf(c) = "open" /\ viewOf(c)' = "open"
    BY <1>1, <1>5, <1>8 DEF viewOf, Updatable
  <2>2. seen' = seen
    BY <1>3, <2>1
  <2> QED
    BY <1>2, <2>2
<1> QED
  BY <1>6, <1>7, <1>8

\* A venue step ends an order or leaves its outcome open.
LEMMA VenueStepRefines ==
    ASSUME TypeOK, NEW c \in Cids, NEW s \in VenueStatuses,
           venue[c] \notin ClosedStatuses,
           venue' = [venue EXCEPT ![c] = s], ledger' = ledger
    PROVE  [Mirror!Next]_<<[d \in Cids |-> outcomeOf(d)], [d \in Cids |-> viewOf(d)]>>
<1> DEFINE out  == [d \in Cids |-> outcomeOf(d)]
           seen == [d \in Cids |-> viewOf(d)]
<1>1. \A d \in Cids : venue'[d] = IF d = c THEN s ELSE venue[d]
  BY DEF TypeOK
<1>2. seen' = seen
  BY DEF viewOf
<1>3. \A d \in Cids : outcomeOf(d)' = IF d = c THEN outcomeOf(c)' ELSE outcomeOf(d)
  BY <1>1 DEF outcomeOf
<1>4. out' = [out EXCEPT ![c] = outcomeOf(c)']
  BY <1>3
<1>5. outcomeOf(c) = "pending"
  BY DEF outcomeOf
<1>6. CASE s \in ClosedStatuses
  <2>1. outcomeOf(c)' \in TERMINAL_STATES
    BY <1>1, <1>6, StatusMap DEF outcomeOf
  <2>2. Mirror!End(c, outcomeOf(c)')
    BY <1>2, <1>4, <1>5 DEF Mirror!End
  <2> QED
    BY <2>1, <2>2 DEF Mirror!Next
<1>7. CASE s \notin ClosedStatuses
  <2>1. outcomeOf(c)' = "pending"
    BY <1>1, <1>7 DEF outcomeOf
  <2>2. out' = out
    BY <1>3, <1>5, <2>1
  <2> QED
    BY <1>2, <2>2
<1> QED
  BY <1>6, <1>7

\* Conditional updates are writes to a row or nothing.
LEMMA UpdateStepRefines ==
    ASSUME TypeOK, NEW c \in Cids, NEW s \in PendingOrderState, Settled(c, s),
           venue' = venue, UpdateOrderState(c, s)
    PROVE  [Mirror!Next]_<<[d \in Cids |-> outcomeOf(d)], [d \in Cids |-> viewOf(d)]>>
<1>1. CASE Updatable(c)
  BY <1>1, RowStepRefines DEF UpdateOrderState
<1>2. CASE ~Updatable(c)
  BY <1>2 DEF UpdateOrderState, outcomeOf, viewOf
<1> QED
  BY <1>1, <1>2

LEMMA NextRefines ==
    ReconInv /\ [Next]_reconVars =>
    [Mirror!Next]_<<[d \in Cids |-> outcomeOf(d)], [d \in Cids |-> viewOf(d)]>>
<1> DEFINE MirrorStep ==
      [Mirror!Next]_<<[d \in Cids |-> outcomeOf(d)], [d \in Cids |-> viewOf(d)]>>
<1> SUFFICES ASSUME ReconInv, [Next]_reconVars PROVE MirrorStep
  OBVIOUS
<1>1. TypeOK
  BY DEF ReconInv
<1>2. ASSUME UNCHANGED <<ledger, venue>> PROVE MirrorStep
  BY <1>2 DEF outcomeOf, viewOf
<1>3. ASSUME NEW c \in Cids, NEW s \in Moves, VenueMoves(c, s) PROVE MirrorStep
  <2>1. s \in VenueStatuses /\ venue[c] \notin ClosedStatuses
    BY <1>3, MovesAssumption DEF VenueMoves, ClosedStatuses
  <2> QED
    BY <1>1, <1>3, <2>1, VenueStepRefines DEF VenueMoves
<1>4. ASSUME NEW c \in Cids, SubmitLands(c) PROVE MirrorStep
  <2>1. "NEW" \in VenueStatuses /\ venue[c] \notin ClosedStatuses
    BY <1>4 DEF SubmitLands, ClosedStatuses, VenueStatuses
  <2> QED
    BY <1>1, <1>4, <2>1, VenueStepRefines DEF SubmitLands, VenueAccepts
<1>5. ASSUME NEW t \in wire, Deliver(t) PROVE MirrorStep
  <2>1. t[1] \in Cids /\ t[2] \in PendingOrderState /\ Settled(t[1], t[2])
    BY <1>1 DEF TypeOK, Transitions, ReconInv, WireSettled
  <2> QED
    BY <1>1, <1>5, <2>1, UpdateStepRefines DEF Deliver, HandleTransition
<1>6. ASSUME NEW p \in Probes, WriteBack(p) \/ Announce(p) PROVE MirrorStep
  <2>1. probe[p].stage \in {"write", "announce"}
    BY <1>6 DEF WriteBack, Announce
  <2>2. /\ probe[p].cid \in Cids /\ probe[p].state \in PendingOrderState
        /\ Settled(probe[p].cid, probe[p].state)
    BY <1>1, <2>1 DEF TypeOK, ProbeType, idle, ReconInv, ProbesSettled
  <2>3. UpdateOrderState(probe[p].cid, probe[p].state) /\ venue' = venue
    BY <1>6 DEF WriteBack, Announce, HandleTransition
  <2> QED
    BY <1>1, <2>2, <2>3, UpdateStepRefines
<1>7. ASSUME NEW c \in Cids, TrackOrder(c) PROVE MirrorStep
  <2>1. PICK s \in {"submitted", "unknown"} : ledger' = [ledger EXCEPT ![c] = s]
    BY <1>7 DEF TrackOrder, UpsertPendingOrder
  <2>2. s \in PendingOrderState \ TERMINAL_STATES /\ Settled(c, s)
    BY <2>1, FinalStates DEF Settled
  <2> QED
    BY <1>1, <1>7, <2>1, <2>2, RowStepRefines DEF TrackOrder
<1> QED
  BY <1>2, <1>3, <1>4, <1>5, <1>6, <1>7
     DEF Next, ReconNext, Lose, Select, Query, NotFound, GiveUp, reconVars

\* "The source of truth for order state" (reconciliation/types.ts:28-31): the
\* ledger implements OrderMirror.  A row opens once and settles once, and only
\* as its order did, however handler, stream and poller interleave.
THEOREM LedgerMirrorsVenue == Spec => MirrorsVenue
<1>1. ReconInit => Mirror!Init
  BY FinalStates DEF ReconInit, LedgerInit, Mirror!Init, outcomeOf, viewOf, ClosedStatuses
<1>2. ReconInv /\ [Next]_reconVars =>
      [Mirror!Next]_<<[c \in Cids |-> outcomeOf(c)], [c \in Cids |-> viewOf(c)]>>
  BY NextRefines
<1> QED
  BY <1>1, <1>2, ReconInvariant, PTL DEF Spec, MirrorsVenue, Mirror!Spec
=============================================================================
