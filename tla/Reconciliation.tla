---------------------------- MODULE Reconciliation ----------------------------
(***************************************************************************)
(* How the ledger learns what became of an order: the venue's user data    *)
(* stream (ReconciliationService.handleTransition) and the REST fallback   *)
(* poller (reconciliationFallback.ts), both working on rows that the order *)
(* handler inserts.                                                        *)
(*                                                                         *)
(* handleTransition is started for every stream message without waiting    *)
(* for the one before, so transitions reach the database in any order:     *)
(* wire is a set.  A probe is one row of one poll cycle's `due` list, from *)
(* the query that selected it to the end of processStaleOrder; cycles may  *)
(* overlap (setInterval), so several can be under way, on the same row     *)
(* too.  When a row is probed is the adaptive ladder's business: here any  *)
(* polled row may be due.  FallbackPoller adds cycles, ladder and streaks. *)
(***************************************************************************)
EXTENDS PendingOrdersLedger, FiniteSets

CONSTANTS
    Probes,     \* probes that can be under way at once
    Streams,    \* whether a user data stream runs for the account
    Moves       \* the venue statuses an accepted order may get

VARIABLES
    venue,      \* the order's status on the venue, "none" before it is accepted
    wire,       \* transitions the stream has handed to handleTransition
    probe,      \* where each probe is
    announced   \* history: the events handed to onTransitionSettled

reconVars == <<ledger, venue, wire, probe, announced>>

ClosedStatuses == {"FILLED", "CANCELED", "EXPIRED", "REJECTED"}
VenueStatuses  == {"NEW", "PARTIALLY_FILLED"} \union ClosedStatuses

ASSUME MovesAssumption == Moves \subseteq VenueStatuses
ASSUME StreamsAssumption == Streams \in BOOLEAN

\* The same map in binanceUserDataStream.ts and reconciliationFallback.ts.
BINANCE_STATUS_MAP ==
    [s \in VenueStatuses |->
        CASE s = "NEW" -> "acked"         [] s = "PARTIALLY_FILLED" -> "partially_filled"
          [] s = "FILLED" -> "filled"     [] s = "CANCELED" -> "cancelled"
          [] s = "EXPIRED" -> "expired"   [] s = "REJECTED" -> "rejected"]

idle == [stage |-> "idle"]
Transitions == Cids \X PendingOrderState

ReconInit ==
    /\ LedgerInit
    /\ venue = [c \in Cids |-> "none"]
    /\ wire = {}
    /\ probe = [p \in Probes |-> idle]
    /\ announced = {}

------------------------------------------------------------------------------
(* The venue. *)

\* Its side effect on this process: a stream message, if a stream listens.
Report(c, s) ==
    wire' = IF Streams THEN wire \union {<<c, BINANCE_STATUS_MAP[s]>>} ELSE wire

\* It takes an order on.  An order with an id still open is refused; one whose
\* namesake is closed is a new order.
VenueAccepts(c) ==
    /\ venue[c] \in {"none"} \union ClosedStatuses
    /\ venue' = [venue EXCEPT ![c] = "NEW"]
    /\ Report(c, "NEW")

VenueMoves(c, s) ==
    /\ venue[c] \in {"NEW", "PARTIALLY_FILLED"}
    /\ s \in Moves \ {venue[c], "NEW"}
    /\ venue' = [venue EXCEPT ![c] = s]
    /\ Report(c, s)
    /\ UNCHANGED <<ledger, probe, announced>>

------------------------------------------------------------------------------
(* The stream and the event hook. *)

\* Mutant: the null result of updateOrderState is not looked at.
AnnounceAlways(c, s) ==
    /\ UpdateOrderState(c, s)
    /\ announced' = announced \union {<<c, s>>}

\* handleTransition: update the row and, unless there was none to update, pass
\* the event on.
HandleTransition(c, s) ==
    /\ UpdateOrderState(c, s)
    /\ announced' = IF Updatable(c) THEN announced \union {<<c, s>>} ELSE announced

Deliver(t) ==
    /\ t \in wire
    /\ wire' = wire \ {t}
    /\ HandleTransition(t[1], t[2])
    /\ UNCHANGED <<venue, probe>>

\* The socket drops the message, or the ledger write throws and is logged.
Lose(t) ==
    /\ t \in wire
    /\ wire' = wire \ {t}
    /\ UNCHANGED <<ledger, venue, probe, announced>>

------------------------------------------------------------------------------
(* The REST fallback poller. *)

\* runPollCycle selects rows, one probe for each; processStaleOrder gets to
\* them some time later, with the rows as they were.
Select(S, row) ==
    /\ \A p \in S : probe[p] = idle
    /\ probe' = [p \in Probes |-> IF p \in S THEN [stage |-> "query", cid |-> row[p]]
                                            ELSE probe[p]]
    /\ UNCHANGED <<ledger, venue, wire, announced>>

\* queryBinanceOrder / queryCoinbaseOrder find the order.
Query(p) ==
    /\ probe[p].stage = "query"
    /\ venue[probe[p].cid] # "none"
    /\ probe' = [probe EXCEPT ![p] =
            [stage |-> "write", cid |-> probe[p].cid,
             state |-> BINANCE_STATUS_MAP[venue[probe[p].cid]]]]
    /\ UNCHANGED <<ledger, venue, wire, announced>>

\* The venue does not know the id: 404, null, nothing to do.
NotFound(p) ==
    /\ probe[p].stage = "query"
    /\ venue[probe[p].cid] = "none"
    /\ probe' = [probe EXCEPT ![p] = idle]
    /\ UNCHANGED <<ledger, venue, wire, announced>>

\* Probes that end early: a row that is not due yet, no credentials, an unmapped
\* status, a failed request or a failed write of either update.
GiveUp(S) ==
    /\ \A p \in S : probe[p] # idle
    /\ probe' = [p \in Probes |-> IF p \in S THEN idle ELSE probe[p]]
    /\ UNCHANGED <<ledger, venue, wire, announced>>

\* processStaleOrder's own ledger.updateOrderState; null ends the probe.
WriteBack(p) ==
    LET c == probe[p].cid IN
    /\ probe[p].stage = "write"
    /\ UpdateOrderState(c, probe[p].state)
    /\ probe' = [probe EXCEPT ![p] =
            IF Updatable(c) THEN [@ EXCEPT !.stage = "announce"] ELSE idle]
    /\ UNCHANGED <<venue, wire, announced>>

\* Its onTransition callback, which is handleTransition: the same update is
\* applied a second time.
Announce(p) ==
    /\ probe[p].stage = "announce"
    /\ HandleTransition(probe[p].cid, probe[p].state)
    /\ probe' = [probe EXCEPT ![p] = idle]
    /\ UNCHANGED <<venue, wire>>

ReconNext ==
    \/ \E c \in Cids : \E s \in Moves : VenueMoves(c, s)
    \/ \E t \in wire : Deliver(t) \/ Lose(t)
    \/ \E p \in Probes : Query(p) \/ NotFound(p) \/ WriteBack(p) \/ Announce(p)
    \/ \E S \in SUBSET Probes :
          GiveUp(S) \/ \E row \in [S -> StaleSubmittedOrders] : Select(S, row)

------------------------------------------------------------------------------
(* By itself: the order handler as this component sees it.  One submit per *)
(* client_order_id, which the venue may accept before or after its row is  *)
(* inserted, or never; trackOrder writes `submitted` for an accepted order *)
(* and `unknown` when the answer was lost.                                 *)

SubmitLands(c) ==
    /\ venue[c] = "none"
    /\ VenueAccepts(c)
    /\ UNCHANGED <<ledger, probe, announced>>

TrackOrder(c) ==
    /\ ledger[c] = "absent"
    /\ \/ venue[c] # "none" /\ UpsertPendingOrder(c, "submitted")
       \/ UpsertPendingOrder(c, "unknown")
    /\ UNCHANGED <<venue, wire, probe, announced>>

Next == ReconNext \/ \E c \in Cids : SubmitLands(c) \/ TrackOrder(c)

Spec == ReconInit /\ [][Next]_reconVars

------------------------------------------------------------------------------
ProbeType ==
    {idle} \union [stage : {"query"}, cid : Cids]
           \union [stage : {"write", "announce"}, cid : Cids,
                   state : PendingOrderState]

\* The types of the five variables.
TypeOK ==
    /\ ledger \in [Cids -> PendingOrderState \union {"absent"}]
    /\ venue \in [Cids -> VenueStatuses \union {"none"}]
    /\ wire \subseteq Transitions
    /\ probe \in [Probes -> ProbeType]
    /\ announced \subseteq Transitions

\* A row only ever settles as its order did: late and overtaken transitions of
\* the stream, and answers that were overtaken while a probe waited for the
\* database, never leave a false or a second outcome in the ledger.
outcomeOf(c) == IF venue[c] \in ClosedStatuses
                THEN BINANCE_STATUS_MAP[venue[c]] ELSE "pending"
viewOf(c) == CASE ledger[c] = "absent" -> "absent"
               [] ledger[c] \in TERMINAL_STATES -> ledger[c]
               [] OTHER -> "open"
Mirror == INSTANCE OrderMirror WITH
              Outcomes <- TERMINAL_STATES,
              outcome <- [c \in Cids |-> outcomeOf(c)],
              view <- [c \in Cids |-> viewOf(c)]
MirrorsVenue == Mirror!Spec

\* An event announces a final state only if the row has it, so no order is
\* announced as, say, both filled and cancelled.
AnnouncedOutcomesHold ==
    \A t \in announced : t[2] \in TERMINAL_STATES => ledger[t[1]] = t[2]

\* "Called on every state transition (from both WS and REST fallback)"
\* (reconciliationService.ts:71): what a probe has just written, and nobody has
\* overwritten, is announced.
RestTransitionsAnnounced ==
    [][\A p \in Probes :
          Announce(p) /\ ledger[probe[p].cid] = probe[p].state
              => <<probe[p].cid, probe[p].state>> \in announced']_reconVars
=============================================================================
