------------------------- MODULE PendingOrdersLedger -------------------------
(***************************************************************************)
(* The pending_orders_ledger collection and the two writes that change it, *)
(* with the pre-submit probe that reads it.  A row is reduced to its       *)
(* state; "absent" stands for no document with that client_order_id.       *)
(* Every MongoDB call is atomic on its document.                           *)
(***************************************************************************)

CONSTANT Cids       \* client_order_ids

VARIABLE ledger     \* the state of each row

PendingOrderState ==
    {"submitted", "acked", "partially_filled", "filled", "cancelled",
     "expired", "rejected", "reconciliation_failed", "unknown"}

TERMINAL_STATES ==
    {"filled", "cancelled", "expired", "rejected", "reconciliation_failed"}

\* The states the poller's query asks for; the probe's open states.
PolledStates == {"submitted", "unknown"}
NON_TERMINAL_STATES == {"submitted", "acked", "partially_filled"}

LedgerInit == ledger = [c \in Cids |-> "absent"]

\* upsertPendingOrder: $set writes the state whatever the row says by now.
UpsertPendingOrder(c, state) == ledger' = [ledger EXCEPT ![c] = state]

\* updateOrderState: the filter { state: { $nin: TERMINAL_STATES } } makes it
\* return null, and change nothing, on a missing or a terminal row.
Updatable(c) == ledger[c] \notin TERMINAL_STATES \union {"absent"}
\* Mutant: the filter on the state is dropped.
UpdateAnyRow(c, state) ==
    IF ledger[c] # "absent" THEN ledger' = [ledger EXCEPT ![c] = state]
                            ELSE UNCHANGED ledger
UpdateOrderState(c, state) ==
    IF Updatable(c) THEN ledger' = [ledger EXCEPT ![c] = state]
                    ELSE UNCHANGED ledger

\* Mutant: unknown rows are not asked for.
OnlySubmittedOrders == {c \in Cids : ledger[c] = "submitted"}
\* getAllStaleSubmittedOrders.
StaleSubmittedOrders == {c \in Cids : ledger[c] \in PolledStates}

\* Mutants: an unknown row, and a settled one, do not stop a submit.
CheckIgnoringUnknown(c) ==
    CASE ledger[c] \in {"absent", "unknown"} -> "new"
      [] ledger[c] \in NON_TERMINAL_STATES   -> "in_flight"
      [] ledger[c] \in TERMINAL_STATES       -> "terminal"
CheckIgnoringSettled(c) ==
    CASE ledger[c] \in TERMINAL_STATES \union {"absent"} -> "new"
      [] ledger[c] = "unknown"             -> "unknown_state"
      [] ledger[c] \in NON_TERMINAL_STATES -> "in_flight"
\* checkExistingOrder, on the rows getLedger hands it: they carry none of the
\* timestamps that ageMsOf looks for, so the age is null and the staleness
\* branch is never taken.
CheckExistingOrder(c) ==
    CASE ledger[c] = "absent"             -> "new"
      [] ledger[c] = "unknown"            -> "unknown_state"
      [] ledger[c] \in NON_TERMINAL_STATES -> "in_flight"
      [] ledger[c] \in TERMINAL_STATES    -> "terminal"
=============================================================================
