------------------------------ MODULE FifoLock ------------------------------
(***************************************************************************)
(* What acquireTradingLock promises its callers: "Serializes concurrent    *)
(* submits for the same (userId, venue, symbol) triple".  Each key has one *)
(* line of calls; the head of the line is the only holder, calls join at   *)
(* the back, and only the head's own departure advances the line.          *)
(***************************************************************************)
EXTENDS Sequences

CONSTANTS Calls, Keys, KeyOf

VARIABLE line      \* line[k]: the calls for key k, the holder first

Init == line = [k \in Keys |-> << >>]

Enter(c) ==
    /\ \A i \in DOMAIN line[KeyOf[c]] : line[KeyOf[c]][i] # c
    /\ line' = [line EXCEPT ![KeyOf[c]] = Append(@, c)]

Leave(c) ==
    /\ line[KeyOf[c]] # << >>
    /\ Head(line[KeyOf[c]]) = c
    /\ line' = [line EXCEPT ![KeyOf[c]] = Tail(@)]

Next == \E c \in Calls : Enter(c) \/ Leave(c)

Spec == Init /\ [][Next]_line
=============================================================================
