----------------------------- MODULE OrderMirror -----------------------------
(***************************************************************************)
(* What the ledger promises its readers about an order ("the source of     *)
(* truth for order state", reconciliation/types.ts:28-31): a row is absent, *)
(* then open, then settled once and for all, and it can only settle as     *)
(* the order did on the venue.                                             *)
(***************************************************************************)
CONSTANTS Cids, Outcomes     \* the ways an order can end

VARIABLES outcome,           \* how each order ended on the venue, or "pending"
          view               \* the row: "absent", "open" or an outcome

Init == /\ outcome = [c \in Cids |-> "pending"]
        /\ view = [c \in Cids |-> "absent"]

End(c, o) == /\ outcome[c] = "pending"
             /\ outcome' = [outcome EXCEPT ![c] = o]
             /\ UNCHANGED view

Open(c) == /\ view[c] = "absent"
           /\ view' = [view EXCEPT ![c] = "open"]
           /\ UNCHANGED outcome

Settle(c) == /\ view[c] = "open"
             /\ outcome[c] # "pending"
             /\ view' = [view EXCEPT ![c] = outcome[c]]
             /\ UNCHANGED outcome

Next == \E c \in Cids :
    \/ \E o \in Outcomes : End(c, o)
    \/ Open(c)
    \/ Settle(c)

Spec == Init /\ [][Next]_<<outcome, view>>
=============================================================================
